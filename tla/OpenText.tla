------------------------------ MODULE OpenText ------------------------------
(* The chapters of a book, found by the headings in its text, and a reader *)
(* of open_paper: it asks for the chapters, for one of them or all of the  *)
(* text, page after page, in chunks. Each call resolves the text anew.     *)
(* A heading is a line that begins with one of Headings; what else it says *)
(* is left out. Headings are a function from where in the text they start  *)
(* to the number of their chapter.                                         *)
EXTENDS TextChunks

CONSTANTS
  Headings,    \* a function from what begins a heading to the chapter's number
  TocSpacing   \* how far apart the entries of a table of contents are: 600

ASSUME HeadingAssumption ==
  /\ \A h \in DOMAIN Headings : Headings[h] \in Nat
  /\ TocSpacing \in Nat

NoText == "no text"

-----------------------------------------------------------------------------
(* detect_chapter_heading. A line that ends like a sentence is none.       *)
IsHeading(line) ==
  LET t == Trim(line) IN t # <<>> /\ t[1] \in DOMAIN Headings /\ ~EndsSentence(Last(t))

NumberOf(line) == Headings[Trim(line)[1]]

(* A line goes up to its line break.                                       *)
LineStarts(text) == {p \in DOMAIN text : p = 1 \/ text[p - 1] = Break}

LineAt(text, p) ==
  SubSeq(text, p, Min({q \in p..Len(text) : text[q] = Break} \cup {Len(text)}))

(* A heading stands after a blank line, a heading or the word "contents".  *)
PrecededCleanly(text, p) ==
  p > 1 => LET before == LineAt(text, Max({q \in LineStarts(text) : q < p}))
           IN Trim(before) = <<>> \/ "contents" \in Range(before) \/ IsHeading(before)

Candidates(text) ==
  LET found == {p \in LineStarts(text) : IsHeading(LineAt(text, p)) /\ PrecededCleanly(text, p)}
  IN [p \in found |-> NumberOf(LineAt(text, p))]

-----------------------------------------------------------------------------
Before(headings, p) == {q \in DOMAIN headings : q < p}

(* Headings that increase in close order before the numbers drop are a     *)
(* table of contents.                                                      *)
Restarts(raw) ==
  {p \in DOMAIN raw :
     /\ Cardinality(Before(raw, p)) >= 2
     /\ \E q \in Before(raw, p) : raw[p] < raw[q]
     /\ \A q \in Before(raw, p) : Before(raw, q) # {} =>
          LET r == Max(Before(raw, q)) IN raw[r] < raw[q] /\ q - r <= TocSpacing}

Partition(raw) ==
  LET toc == IF Restarts(raw) = {} THEN {} ELSE Before(raw, Min(Restarts(raw)))
  IN [toc |-> Restrict(raw, toc), body |-> Restrict(raw, DOMAIN raw \ toc)]

(* The longest sequence of headings whose numbers never drop, the latest   *)
(* of them; a chapter's number repeats in running headers.                 *)
Earlier(found, p) == {q \in Before(found, p) : found[q] <= found[p]}

LongestTo(found) ==
  LET longest[p \in DOMAIN found] ==
        1 + Max({0} \cup {longest[q] : q \in Earlier(found, p)})
  IN longest

Parents(found, longest, p) == {q \in Earlier(found, p) : longest[q] + 1 = longest[p]}

ChainTo(found, longest) ==
  LET chain[p \in DOMAIN found] ==
        LET parents == Parents(found, longest, p)
        IN {p} \cup IF parents = {} THEN {} ELSE chain[Max(parents)]
  IN chain

FilterMonotonic(found) ==
  LET longest == LongestTo(found)
      best == {p \in DOMAIN found : \A q \in DOMAIN found : longest[q] <= longest[p]}
  IN Restrict(found, IF best = {} THEN {} ELSE ChainTo(found, longest)[Max(best)])

(* The chapters that the table of contents lists, each once.               *)
Listed(toc, kept) ==
  LET later == {p \in DOMAIN kept : \A q \in DOMAIN toc : toc[q] < kept[p]}
  IN [p \in (DOMAIN toc) \cup later |-> IF p \in DOMAIN toc THEN toc[p] ELSE kept[p]]

Firsts(listed) == {p \in DOMAIN listed : \A q \in Before(listed, p) : listed[q] # listed[p]}

ExtractToc(content) ==
  LET p == Partition(Candidates(content))
      listed == Listed(p.toc, FilterMonotonic(p.body))
  IN Restrict(listed, Firsts(listed))

-----------------------------------------------------------------------------
(* Mistake: a running header ends the chapter.                             *)
NextHeading(kept, p) == {q \in DOMAIN kept : q > p}

(* A chapter ends where another one begins.                                *)
NextChapter(kept, p) == {q \in DOMAIN kept : q > p /\ kept[q] # kept[p]}

Slice(content, kept, p) ==
  SubSeq(content, p, Min(NextChapter(kept, p) \cup {Len(content) + 1}) - 1)

BodyLength(content, kept, p) ==
  LET slice == Slice(content, kept, p)
  IN Len(Trim(Between(slice, Len(LineAt(content, p)) + 1, Len(slice))))

(* Of the headings of a chapter the one with most text behind it counts,   *)
(* the first of them, and one without text does not.                       *)
SliceAmong(content, kept, n) ==
  LET Body(p) == BodyLength(content, kept, p)
      full == {p \in DOMAIN kept : kept[p] = n /\ Body(p) > 0}
      most == {p \in full : \A q \in full : Body(q) <= Body(p)}
  IN IF full = {} THEN NoText ELSE Slice(content, kept, Min(most))

Chapters(content) == FilterMonotonic(Partition(Candidates(content)).body)

ExtractChapterSlice(content, n) == SliceAmong(content, Chapters(content), n)

-----------------------------------------------------------------------------
(* The reader                                                              *)
CONSTANTS
  Contents,    \* the texts that a paper may have
  Beside,      \* a bound: the one text that may replace another
  Requests,    \* what a reader asks for: a chapter or 0, max_chars, the size of
               \* a chunk, and a breadcrumb, empty for a text that is no book
  Widths       \* a function from characters to their bytes in UTF-8

(* A reader begins at the beginning.                                       *)
ASSUME OpenTextAssumption ==
  /\ \A text \in Contents \cup {Beside} : text \in Seq(Range(text))
  /\ Requests \subseteq [chapter : Nat, max : Nat \ {0}, size : Nat,
                         crumb : {r.crumb : r \in Requests}, offset : {0}]
  /\ \A ch \in DOMAIN Widths : Widths[ch] \in 1..4

VARIABLES
  content,   \* the text that a call finds
  request,   \* what the reader asks for, from page to page
  answer,    \* the last answer
  read,      \* history: the pages so far, joined
  replaced   \* history: the text changed since the first page

vars == <<content, request, answer, read, replaced>>

None == [chapter |-> 0, max |-> 0, size |-> 0, crumb |-> <<>>, offset |-> 0]
Silent == [said |-> "nothing"]

-----------------------------------------------------------------------------
(* Offsets count bytes.                                                    *)
Width(ch) == IF ch \in DOMAIN Widths THEN Widths[ch] ELSE 1
Bytes(text) ==
  Cardinality({b \in (DOMAIN text) \X (1..4) : b[2] <= Width(text[b[1]])})

(* Mistake: the offset of the next page counts characters.                 *)
CharsBefore(text, k) == k

BytesBefore(text, k) == Bytes(SubSeq(text, 1, k))

(* The page at an offset, or none when a character spans the offset. An    *)
(* offset beyond the text is its end.                                      *)
PaginateFulltext(text, max, offset) ==
  LET from == Min({offset, Bytes(text)})
      at == {k \in 0..Len(text) : Bytes(SubSeq(text, 1, k)) = from}
      first == CHOOSE k \in at : TRUE
      last == Min({first + max, Len(text)})
  IN IF at = {} THEN [said |-> "error"]
     ELSE [said |-> "page", page |-> SubSeq(text, first + 1, last),
           next |-> IF last < Len(text) THEN BytesBefore(text, last) ELSE 0]

Source(text, chapter) == IF chapter = 0 THEN text ELSE ExtractChapterSlice(text, chapter)

-----------------------------------------------------------------------------
AskToc ==
  /\ answer = Silent
  /\ LET toc == ExtractToc(content) IN
     answer' = IF DOMAIN toc = {} THEN [said |-> "error"] ELSE [said |-> "toc", chapters |-> toc]
  /\ UNCHANGED <<content, request, read, replaced>>

(* Technical chunks are for books, speech for the rest.                    *)
Chunks(text, r) ==
  IF r.crumb = <<>> THEN SplitForTts(text, r.size)
  ELSE SplitTechnicalContent(text, r.size, r.crumb)

Answered(text, r) ==
  IF text = NoText THEN [said |-> "error"]
  ELSE LET p == PaginateFulltext(text, r.max, r.offset) IN
       IF p.said = "error" THEN p
       ELSE [said |-> "page", page |-> p.page, next |-> p.next,
             chunks |-> Chunks(p.page, r)]

Give(r) ==
  /\ answer' = Answered(Source(content, r.chapter), r)
  /\ request' = [r EXCEPT !.offset = IF answer'.said = "page" THEN answer'.next ELSE 0]
  /\ read' = IF answer'.said = "page" THEN read \o answer'.page ELSE read
  /\ UNCHANGED <<content, replaced>>

OpenFirst ==
  /\ answer = Silent
  /\ \E r \in Requests : Give(r)

(* The same call with next_offset.                                         *)
OpenNext ==
  /\ answer.said = "page" /\ answer.next # 0
  /\ Give(request)

(* Between two calls another text may be found: a copy was mirrored, the   *)
(* library has its full text by now, or a cache answers.                   *)
Replace ==
  /\ answer.said = "page" /\ answer.next # 0 /\ ~replaced
  /\ content' = Beside /\ replaced' = TRUE
  /\ UNCHANGED <<request, answer, read>>

Init ==
  /\ content \in Contents
  /\ request = None /\ answer = Silent /\ read = <<>> /\ replaced = FALSE

Next == AskToc \/ OpenFirst \/ OpenNext \/ Replace

Spec == Init /\ [][Next]_vars

-----------------------------------------------------------------------------
Ink(text) == SelectSeq(text, LAMBDA ch : ~Blank(ch))
Unfenced(text) == Ink(Joined(SelectSeq(Lines(text), LAMBDA l : ~IsFence(l)), <<Break>>))

Fences(text) == {i \in DOMAIN Lines(text) : IsFence(Lines(text)[i])}

(* A line that is no fence has three backticks in it.                      *)
QuotesFence(text) ==
  \E i \in (DOMAIN Lines(text)) \ Fences(text) :
    LET line == Lines(text)[i] IN
    \E k \in 1..(Len(line) - 2) : SubSeq(line, k, k + 2) = Fence

(* A chunk is never longer than was asked, breadcrumb and fences included; *)
(* behind its breadcrumb, the fences in it are closed; and the chunks of a *)
(* page together say what the page says, fences aside                      *)
(* (split_technical_content). A page with three backticks inside a line is *)
(* excepted, as in the tests (chunking.rs:537): a long line that is split  *)
(* there (chunking.rs:121, chunking.rs:363) puts them at the start of a    *)
(* chunk or of a line, where they are a fence that nothing closes. Such a  *)
(* page without fences of its own still loses nothing.                     *)
ChunksFaithful ==
  answer.said = "page" =>
    LET max == Max({request.size, 1})
        technical == request.crumb # <<>>
        fenced == technical /\ Fences(answer.page) # {}
        prefix == BreadcrumbPrefix(request.crumb, max)
        Body(c) == SubSeq(c, Len(prefix) + 1, Len(c))
        Says(text) == IF fenced THEN Unfenced(text) ELSE Ink(text) IN
    /\ \A i \in DOMAIN answer.chunks :
         /\ Len(answer.chunks[i]) <= max
         /\ technical /\ ~QuotesFence(answer.page) =>
              Cardinality(Fences(Body(answer.chunks[i]))) % 2 = 0
    /\ ~fenced \/ ~QuotesFence(answer.page) =>
         FoldLeft(LAMBDA t, c : t \o Says(Body(c)), <<>>, answer.chunks) = Says(answer.page)

(* Pages, each asked for with the offset that the one before it gave, give *)
(* the text or the chapter once and whole, without an error on the way,    *)
(* whatever the width of its characters (paginate_fulltext). A text that   *)
(* is replaced meanwhile is excepted: its pages are joined to those of the *)
(* other.                                                                  *)
PagesCover ==
  ~replaced =>
    /\ answer.said = "page" =>
         /\ IsPrefix(read, Source(content, request.chapter))
         /\ answer.next = 0 => read = Source(content, request.chapter)
         /\ answer.next # 0 => Len(answer.page) = request.max
    /\ read # <<>> => answer.said # "error"

(* The chapters divide the book from its first heading on, running headers *)
(* and cross-references included: one that has text goes from its first    *)
(* heading to the first of the next chapter. No longer sequence of         *)
(* headings would do, and the table of contents ascends too                *)
(* (filter_monotonic_candidates, extract_chapter_slice).                   *)
ChaptersTile ==
  LET found == Partition(Candidates(content)).body
      kept == Chapters(content)
      toc == ExtractToc(content)
      Ascends(S) == \A p, q \in S : p < q => found[p] <= found[q]
      From(n) == {p \in DOMAIN kept : kept[p] >= n} IN
  /\ Ascends(DOMAIN kept)
  /\ \A S \in SUBSET DOMAIN found : Ascends(S) => Cardinality(S) <= Cardinality(DOMAIN kept)
  /\ \A n \in Range(kept) :
       \/ ExtractChapterSlice(content, n) = NoText
       \/ ExtractChapterSlice(content, n)
            = SubSeq(content, Min(From(n)), Min(From(n + 1) \cup {Len(content) + 1}) - 1)
  /\ \A p, q \in DOMAIN toc : p < q => toc[p] < toc[q]

=============================================================================
