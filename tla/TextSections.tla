---------------------------- MODULE TextSections ----------------------------
(* How the plain text of a paper becomes sections, line by line, where no  *)
(* TEI document is at hand. A line is its number, and of what it says only *)
(* matters what heading it is taken for.                                   *)
EXTENDS Naturals, Sequences

CONSTANTS
  HeadingKinds,  \* PaperSectionKind, but for Other
  MaxLines       \* a bound

ASSUME TextSectionsAssumption ==
  /\ {"abstract", "references"} \subseteq HeadingKinds /\ "body" \notin HeadingKinds
  /\ MaxLines \in Nat

VARIABLES
  abstract,   \* the item states its abstract
  lines,      \* the lines read
  current,    \* the section at hand
  cut,        \* the sections before it, by the lines that began them
  preamble,   \* the lines before the first heading
  sectioned,  \* what build_sections returns, but for the item's abstract,
              \* which comes first and has the id <<"abstract", 1>>
  ended       \* it has returned

sectionVars == <<abstract, lines, current, cut, preamble, sectioned, ended>>

(* classify_heading: a short line that says, after its number, one of the  *)
(* names of a kind of section in some language, or looks like a title and  *)
(* contains one.                                                           *)
PlainHeadings == [form : {"plain"}, kind : HeadingKinds, more : {FALSE}]

(* classify_latex_heading: a command for a section of a kind, or for the   *)
(* abstract, may be followed by more on its line.                          *)
LatexHeadings == [form : {"latex"}, kind : HeadingKinds, more : BOOLEAN]

(* Of the other lines one may be the end of an abstract in LaTeX.          *)
LineForms ==
  [form : {"blank", "end", "said"}, kind : {"body"}, more : {FALSE}]
    \cup PlainHeadings \cup LatexHeadings

NotBegun == [at |-> 0, kind |-> "body", lines |-> {}]
Begun == current.at # 0

(* Mistake: sections of one kind get the same id.                          *)
SectionId(kind) == <<kind, 1>>

(* unique_section_id: the kind, with a number from the second on.          *)
UniqueSectionId(kind) ==
  LET fresh == {n \in 1..current.at : \A k \in DOMAIN cut : cut[k].id # <<kind, n>>}
  IN <<kind, CHOOSE n \in fresh : \A m \in fresh : n <= m>>

(* flush_section                                                           *)
Flush ==
  IF ~Begun THEN cut
  ELSE [k \in DOMAIN cut \cup {current.at} |->
          IF k = current.at
          THEN [id |-> UniqueSectionId(current.kind), kind |-> current.kind, lines |-> current.lines]
          ELSE cut[k]]

(* In the references no plain line is a heading.                           *)
Heads(line) ==
  \/ line.form = "latex"
  \/ line.form = "plain" /\ current.kind # "references"

ReadLine ==
  /\ ~ended /\ Len(lines) < MaxLines
  /\ \E line \in LineForms :
       LET n == Len(lines) + 1
           said == ~Heads(line) /\ line.form \notin {"blank", "end"} IN
       /\ lines' = Append(lines, line)
       /\ cut' = IF Heads(line) THEN Flush ELSE cut
       /\ current' =
            IF Heads(line) THEN [at |-> n, kind |-> line.kind, lines |-> IF line.more THEN {n} ELSE {}]
            ELSE IF said /\ Begun THEN [current EXCEPT !.lines = @ \cup {n}]
            ELSE current
       /\ preamble' = IF said /\ ~Begun THEN preamble \cup {n} ELSE preamble
  /\ UNCHANGED <<abstract, sectioned, ended>>

(* split_fulltext_sections: a text without headings is all body, and what  *)
(* stands before the first heading is too.                                 *)
Body(all) == IF DOMAIN all = {} THEN DOMAIN lines ELSE preamble

Split(all) ==
  LET body == Body(all) IN
  IF \A n \in body : lines[n].form = "blank" THEN all
  ELSE [k \in DOMAIN all \cup {0} |->
          IF k = 0 THEN [id |-> <<"body", 1>>, kind |-> "body", lines |-> body] ELSE all[k]]

(* build_sections: an abstract that the item states stands for the text's. *)
ReadAll ==
  /\ ~ended /\ ended' = TRUE
  /\ cut' = Flush /\ current' = NotBegun
  /\ LET split == Split(cut') IN
     sectioned' = [k \in {k \in DOMAIN split : abstract => split[k].kind # "abstract"} |-> split[k]]
  /\ UNCHANGED <<abstract, lines, preamble>>

InitSections ==
  /\ abstract \in BOOLEAN /\ lines = <<>>
  /\ current = NotBegun /\ cut = <<>> /\ preamble = {} /\ sectioned = <<>> /\ ended = FALSE

NextSections == ReadLine \/ ReadAll

SpecSections == InitSections /\ [][NextSections]_sectionVars

-----------------------------------------------------------------------------
(* Every line of the text is said in one section, in the order of the text *)
(* and after its section's heading; and no two sections have one id, by    *)
(* which a reader selects them (flush_section, unique_section_id). Not     *)
(* said are blank lines, ends of an abstract in LaTeX, an abstract that    *)
(* the item states, and the words of a heading: the section gets the title *)
(* of its kind instead (canonical_heading), so that of a plain line such   *)
(* as "Design of the Engine", which only contains the name of a kind, the  *)
(* rest is lost, and of a command of LaTeX only what follows it is said.   *)
LinesSectioned ==
  ended =>
    /\ \A n \in DOMAIN lines :
         \/ \E k \in DOMAIN sectioned : n \in sectioned[k].lines
         \/ lines[n].form \in {"blank", "end"}
         \/ ~lines[n].more /\ n \in DOMAIN cut
         \/ abstract /\ \E k \in DOMAIN cut : cut[k].kind = "abstract" /\ n \in cut[k].lines
    /\ \A k \in DOMAIN sectioned :
         /\ abstract => sectioned[k].id # <<"abstract", 1>>
         /\ \A n \in sectioned[k].lines : k <= n
    /\ \A k, l \in DOMAIN sectioned : k < l =>
         /\ sectioned[k].id # sectioned[l].id
         /\ \A m \in sectioned[k].lines, n \in sectioned[l].lines : m < n

=============================================================================
