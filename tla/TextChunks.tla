----------------------------- MODULE TextChunks -----------------------------
(* How a text is split for speech and for reading. A text is a sequence of *)
(* characters, of which the line break, the space, the full stop and the   *)
(* backtick matter.                                                        *)
EXTENDS Naturals, SequencesExt

Break == "nl"
Blank(ch) == ch \in {" ", Break}
EndsSentence(ch) == ch = "."
Fence == <<"tick", "tick", "tick">>

-----------------------------------------------------------------------------
(* Trimming, and the pieces of a text.                                     *)
Between(text, first, last) == IF first > last THEN <<>> ELSE SubSeq(text, first, last)

Inked(text) == {i \in DOMAIN text : ~Blank(text[i])}

TrimEnd(text) ==
  IF Inked(text) = {} THEN <<>> ELSE SubSeq(text, 1, Max(Inked(text)))

Trim(text) ==
  IF Inked(text) = {} THEN <<>>
  ELSE SubSeq(text, Min(Inked(text)), Max(Inked(text)))

Filled(pieces) == SelectSeq(pieces, LAMBDA p : p # <<>>)
Trimmed(pieces) == Filled([i \in DOMAIN pieces |-> Trim(pieces[i])])

(* The pieces that end at a character, the character with them or not.     *)
Flushed(s) == IF s.rest = <<>> THEN s.out ELSE Append(s.out, s.rest)

Cut(text, Ends(_), kept) ==
  LET Add(s, ch) ==
        IF Ends(ch)
        THEN [out |-> Append(s.out, IF kept THEN Append(s.rest, ch) ELSE s.rest),
              rest |-> <<>>]
        ELSE [s EXCEPT !.rest = Append(@, ch)]
  IN Flushed(FoldLeft(Add, [out |-> <<>>, rest |-> <<>>], text))

Lines(text) == Cut(text, LAMBDA ch : ch = Break, FALSE)
Words(text) == Filled(Cut(text, Blank, FALSE))
Sentences(text) == Trimmed(Cut(text, EndsSentence, TRUE))

Joined(pieces, sep) ==
  FoldLeft(LAMBDA t, p : IF t = <<>> THEN p ELSE t \o sep \o p, <<>>, pieces)

(* Every run of blanks becomes a space.                                    *)
Normalized(text) == Joined(Words(text), <<" ">>)

-----------------------------------------------------------------------------
(* The loop that all the splitters share: units are packed into parts of   *)
(* at most `max` characters; a unit beyond that is split in its own way.   *)
All(parts) == parts.out \o Filled(<<parts.cur>>)
Whole(pieces) == [out |-> pieces, cur |-> <<>>]

Packed(units, sep, max, Split(_)) ==
  LET Add(parts, u) ==
        CASE Len(u) > max ->
               [out |-> All(parts) \o Split(u).out, cur |-> Split(u).cur]
          [] Len(u) <= max /\ parts.cur = <<>> -> [parts EXCEPT !.cur = u]
          [] Len(u) <= max /\ parts.cur # <<>>
               /\ Len(parts.cur) + Len(sep) + Len(u) <= max ->
               [parts EXCEPT !.cur = @ \o sep \o u]
          [] OTHER -> [out |-> Append(parts.out, parts.cur), cur |-> u]
  IN FoldLeft(Add, Whole(<<>>), units)

Windows(text, max) ==
  [k \in 1..((Len(text) + max - 1) \div max) |->
     SubSeq(text, (k - 1) * max + 1, Min({k * max, Len(text)}))]

HardSplit(text, max) ==
  LET Split(w) == [out |-> Front(Windows(w, max)), cur |-> Last(Windows(w, max))]
  IN All(Packed(Words(text), <<" ">>, max, Split))

SplitForTts(text, maxChars) ==
  LET max == Max({maxChars, 1})
      Split(s) == Whole(HardSplit(s, max))
  IN All(Packed(Sentences(Normalized(text)), <<" ">>, max, Split))

-----------------------------------------------------------------------------
(* Technical text: blocks of prose and fenced blocks of code.              *)
IsFence(line) == IsPrefix(Fence, Trim(line))

(* A blank line ends a block of prose, and so does a fence.                *)
Push(s) ==
  IF Trim(s.cur) = <<>> THEN s.blocks ELSE Append(s.blocks, TrimEnd(s.cur))

SegmentMarkdownBlocks(text) ==
  LET Opened(s, line) ==
        [blocks |-> Push(s), code |-> TRUE, cur |-> line \o <<Break>>]
      Closed(s, line) ==
        [blocks |-> Append(s.blocks, TrimEnd(s.cur \o line)), code |-> FALSE, cur |-> <<>>]
      Add(s, line) ==
        CASE IsFence(line) -> IF s.code THEN Closed(s, line) ELSE Opened(s, line)
          [] s.code /\ ~IsFence(line) -> [s EXCEPT !.cur = @ \o line \o <<Break>>]
          [] ~s.code /\ Trim(line) = <<>> -> [s EXCEPT !.blocks = Push(s), !.cur = <<>>]
          [] OTHER -> [s EXCEPT !.cur = IF @ = <<>> THEN line ELSE @ \o <<Break>> \o line]
      Ended(s) == [s EXCEPT !.cur = IF s.code THEN @ \o Fence ELSE @]
  IN Push(Ended(FoldLeft(Add, [blocks |-> <<>>, cur |-> <<>>, code |-> FALSE], Lines(text))))

LineSplitBlock(block, max) ==
  LET Split(line) == Whole(HardSplit(line, max))
  IN All(Packed(Lines(block), <<Break>>, max, Split))

(* A line of code stands behind its line break, so that a part with one    *)
(* blank line is not taken for an empty part.                              *)
Fenced(header, parts) ==
  [i \in DOMAIN parts |-> header \o parts[i] \o <<Break>> \o Fence]

Kept(p) == p.out \o (IF Trim(p.cur) = <<>> THEN <<>> ELSE <<p.cur>>)

CodeParts(lines, header, max) ==
  LET Line(t) == <<Break>> \o t
      Split(u) == LET w == Windows(Tail(u), max)
                  IN Whole([k \in DOMAIN w |-> Line(w[k])])
  IN Fenced(header, Kept(Packed([i \in DOMAIN lines |-> Line(lines[i])], <<>>, max + 1, Split)))

(* Mistake: the line breaks beside the fences are not counted.             *)
FencesAlone(header) == Len(header) + Len(Fence)

Overhead(header) == Len(header) + 2 + Len(Fence)

(* Every part of a block of code gets its own fences, unless they alone    *)
(* leave no room.                                                          *)
SplitCodeBlock(lines, max) ==
  LET header == Trim(Head(lines))
      body == Between(lines, 2, Len(lines)
                - IF Len(lines) > 1 /\ IsFence(Last(lines)) THEN 1 ELSE 0)
  IN IF Overhead(header) >= max THEN LineSplitBlock(Joined(body, <<Break>>), max)
     ELSE CodeParts(body, header, max - Overhead(header))

(* A breadcrumb takes at most half of a chunk.                             *)
BreadcrumbPrefix(breadcrumb, max) ==
  LET crumb == TrimEnd(Between(Trim(breadcrumb), 1,
                 Min({Len(Trim(breadcrumb)), IF max \div 2 < 2 THEN 0 ELSE max \div 2 - 2})))
  IN IF crumb = <<>> THEN <<>> ELSE crumb \o <<Break, Break>>

SplitBlocks(text, target) ==
  LET Split(block) == Whole(IF IsFence(Head(Lines(block)))
                            THEN SplitCodeBlock(Lines(block), target)
                            ELSE LineSplitBlock(block, target))
  IN Trimmed(All(Packed(SegmentMarkdownBlocks(Trim(text)), <<Break, Break>>, target, Split)))

Prefixed(prefix, parts) == [i \in DOMAIN parts |-> prefix \o parts[i]]

Behind(text, max, prefix) == Prefixed(prefix, SplitBlocks(text, max - Len(prefix)))

SplitTechnicalContent(text, maxChars, breadcrumb) ==
  LET max == Max({maxChars, 1})
  IN Behind(text, max, BreadcrumbPrefix(breadcrumb, max))

=============================================================================
