------------------------------ MODULE TeiParser ------------------------------
(* How the TEI document that GROBID returns becomes the structure of a      *)
(* paper: one pass over its tags and texts. A text is its number in the     *)
(* document, and what is captured is a set of texts.                        *)
EXTENDS Naturals, Sequences

CONSTANTS
  Grammars,     \* what an element may contain: functions from a name, or
                \* "document", to elements
  MaxElements,  \* bounds: the elements of a document
  MaxTexts      \* and its texts

(* An element is its name without prefix, and whether its attributes mark   *)
(* it: as the main title, as a DOI, or as the date of publication. A date   *)
(* is one that states its year.                                             *)
ASSUME TeiAssumption ==
  /\ \A g \in Grammars :
       /\ "document" \in DOMAIN g /\ DOMAIN g \subseteq STRING
       /\ \A name \in DOMAIN g : g[name] \subseteq [name : DOMAIN g, marked : BOOLEAN]
  /\ {MaxElements, MaxTexts} \subseteq Nat

VARIABLES
  grammar,     \* the grammar that the document follows
  elements,    \* how many elements have begun
  said,        \* history: of every text the elements it is in
  path,        \* stack: the open elements
  inside,      \* in_body, in_list_bibl, in_analytic, in_persname, in_figure
  on,          \* what is being captured
  known,       \* the captures that have given a value: Some
  buf,         \* what was captured
  meta,        \* title, doi, year and authors of the paper
  section,     \* current_section
  sections,
  reference,   \* current_ref
  references,
  person,      \* the names of the person at hand
  figure,      \* the label and caption of the figure at hand
  figures,
  parsed       \* what parse_tei returns

document == <<grammar, elements, said>>
metadata == <<meta, person>>
parts == <<section, sections, reference, references, figure, figures>>
teiVars == <<document, path, inside, on, known, buf, metadata, parts, parsed>>

Slots == {"title", "doi", "abstract", "forename", "surname", "heading", "text",
          "refTitle", "refDoi", "raw", "label", "caption"}
NoNames == [forenames |-> {}, surname |-> {}]
NoFigure == [label |-> {}, caption |-> {}]

(* Of a section and a reference the element they began with, from 1.        *)
NoSection == [of |-> 0, heading |-> {}]
NoReference == [of |-> 0, title |-> {}, doi |-> {}, year |-> 0, authors |-> <<>>]
InASection == section.of # 0
InAReference == reference.of # 0
Unparsed == [said |-> "nothing"]

(* What the end of an element ends the capture of.                          *)
SlotsOf(name) ==
  CASE name = "title" -> {"title", "refTitle"}
    [] name = "idno" -> {"doi", "refDoi"}
    [] name = "abstract" -> {"abstract"}
    [] name = "forename" -> {"forename"}
    [] name = "surname" -> {"surname"}
    [] name = "head" -> {"heading"}
    [] name = "label" -> {"label"}
    [] name = "figDesc" -> {"caption"}
    [] OTHER -> {}

Within(name) == \E i \in DOMAIN path : path[i].name = name

-----------------------------------------------------------------------------
(* handle_start                                                             *)

(* What the start of an element begins to capture.                          *)
Begins(e) ==
  CASE e.name = "title" ->
         (IF "title" \notin known /\ e.marked /\ "listBibl" \notin inside THEN {"title"} ELSE {})
           \cup (IF InAReference /\ "refTitle" \notin known THEN {"refTitle"} ELSE {})
    [] e.name = "idno" /\ e.marked ->
         IF InAReference THEN {"refDoi"} ELSE IF "doi" \notin known THEN {"doi"} ELSE {}
    [] e.name = "abstract" -> {"abstract"}
    [] e.name \in {"forename", "surname"} /\ "persName" \in inside -> {e.name}
    [] e.name = "head" /\ InASection /\ "heading" \notin known -> {"heading"}
    [] e.name = "label" /\ "figure" \in inside -> {"label"}
    [] e.name = "figDesc" /\ "figure" \in inside -> {"caption"}
    [] OTHER -> {}

(* The flags that it sets. in_back_bibl is always what in_list_bibl is.     *)
Enters(e) ==
  IF e.name = "analytic" /\ "listBibl" \in inside THEN {}
  ELSE {e.name} \cap {"body", "listBibl", "analytic", "persName", "figure"}

BeginsSection(e) == e.name = "div" /\ "body" \in inside /\ ~InASection
BeginsReference(e) == e.name = "biblStruct" /\ "listBibl" \in inside
Dates(e) == e.name = "date" /\ (e.marked \/ InAReference)

(* Buffers are cleared when their capture begins, but for the abstract's.   *)
Cleared(e) ==
  (Begins(e) \ {"abstract"})
    \cup (IF BeginsSection(e) THEN {"text"} ELSE {})
    \cup (IF BeginsReference(e) THEN {"raw"} ELSE {})

HandleStart(e) ==
  LET id == elements + 1 IN
  /\ elements' = id
  /\ path' = Append(path, [name |-> e.name, marked |-> e.marked, at |-> id])
  /\ inside' = inside \cup Enters(e)
  /\ on' = (IF BeginsReference(e) THEN on \ {"refTitle", "refDoi"} ELSE on) \cup Begins(e)
  /\ known' = IF BeginsReference(e) THEN known \ {"refTitle"} ELSE known
  /\ buf' = [s \in Slots |-> IF s \in Cleared(e) THEN {} ELSE buf[s]]
  /\ section' = IF BeginsSection(e) THEN [NoSection EXCEPT !.of = id] ELSE section
  /\ reference' =
       IF BeginsReference(e)
       THEN [NoReference EXCEPT !.of = id]
       ELSE IF Dates(e) /\ InAReference /\ reference.year = 0
       THEN [reference EXCEPT !.year = id]
       ELSE reference
  /\ meta' = IF Dates(e) /\ ~InAReference /\ meta.year = 0
             THEN [meta EXCEPT !.year = id] ELSE meta
  /\ person' = IF e.name = "persName" THEN NoNames ELSE person
  /\ figure' = IF e.name = "figure" THEN NoFigure ELSE figure
  /\ UNCHANGED <<grammar, said, sections, references, figures, parsed>>

(* The document goes on with an element of its grammar. None of those that  *)
(* the parser looks for is within another of its name, but div.             *)
Start ==
  /\ parsed = Unparsed /\ elements < MaxElements
  /\ \E e \in grammar[IF path = <<>> THEN "document" ELSE path[Len(path)].name] :
       /\ e.name \notin {"div", "p"} => ~Within(e.name)
       /\ HandleStart(e)

-----------------------------------------------------------------------------
(* handle_end_name                                                          *)

(* Mistake: the first div that ends ends the section.                       *)
EndsAnySection(name) == InASection /\ name \in {"div", "body"}

(* A section ends with the div of the body that is in no other.             *)
EndsSection(name) ==
  InASection /\
    \/ name = "body"
    \/ name = "div" /\
         \E i \in 1..(Len(path) - 1) :
           path[i].name = "body" /\ \A k \in i..(Len(path) - 1) : path[k].name # "div"

(* finalize_section                                                         *)
FinalizeSection ==
  Append(sections, [of |-> section.of, heading |-> section.heading, text |-> buf["text"]])

Named == person.forenames \cup person.surname # {}

HandleEnd(name) ==
  LET ends == on \cap SlotsOf(name)
      last == name = "biblStruct" IN
  /\ path' = SubSeq(path, 1, Len(path) - 1)
  /\ inside' = inside \ ({name} \cap {"body", "listBibl", "analytic", "persName", "figure"})
  /\ on' = on \ (SlotsOf(name) \cup (IF EndsSection(name) THEN {"heading"} ELSE {})
                   \cup (IF last THEN {"refTitle", "refDoi"} ELSE {}))
  /\ known' = (known \cup ends) \ ((IF EndsSection(name) THEN {"heading"} ELSE {})
                                    \cup (IF last THEN {"refTitle"} ELSE {}))
  /\ meta' =
       CASE "title" \in ends -> [meta EXCEPT !.title = buf["title"]]
         [] "doi" \in ends -> [meta EXCEPT !.doi = buf["doi"]]
         [] name = "persName" /\ "persName" \in inside /\ Named
              /\ ~InAReference /\ "analytic" \in inside ->
              [meta EXCEPT !.authors = Append(@, person.forenames \cup person.surname)]
         [] OTHER -> meta
  /\ reference' =
       CASE last -> NoReference
         [] "refTitle" \in ends -> [reference EXCEPT !.title = buf["refTitle"]]
         [] "refDoi" \in ends -> [reference EXCEPT !.doi = buf["refDoi"]]
         [] name = "persName" /\ "persName" \in inside /\ Named /\ InAReference ->
              [reference EXCEPT !.authors = Append(@, person.forenames \cup person.surname)]
         [] OTHER -> reference
  /\ references' = IF last /\ InAReference
                   THEN Append(references, [of |-> reference.of, raw |-> buf["raw"],
                                            title |-> reference.title, doi |-> reference.doi,
                                            year |-> reference.year, authors |-> reference.authors])
                   ELSE references
  /\ person' = CASE name = "persName" -> NoNames
                 [] "forename" \in ends -> [person EXCEPT !.forenames = @ \cup buf["forename"]]
                 [] "surname" \in ends /\ buf["surname"] # {} -> [person EXCEPT !.surname = buf["surname"]]
                 [] OTHER -> person
  /\ section' = CASE EndsSection(name) -> NoSection
                  [] "heading" \in ends -> [section EXCEPT !.heading = buf["heading"]]
                  [] OTHER -> section
  /\ sections' = IF EndsSection(name) THEN FinalizeSection ELSE sections
  /\ figure' = CASE name = "figure" /\ "figure" \in inside -> NoFigure
                 [] "label" \in ends -> [figure EXCEPT !.label = buf["label"]]
                 [] "caption" \in ends -> [figure EXCEPT !.caption = buf["caption"]]
                 [] OTHER -> figure
  /\ figures' = IF name = "figure" /\ "figure" \in inside THEN Append(figures, figure) ELSE figures
  /\ UNCHANGED <<document, buf, parsed>>

End ==
  /\ parsed = Unparsed /\ path # <<>>
  /\ HandleEnd(path[Len(path)].name)

-----------------------------------------------------------------------------
(* handle_text: the text belongs to all that is being captured, and to the  *)
(* section, unless it is its heading, and the reference at hand.            *)
Hears ==
  (on \cap Slots)
    \cup (IF InASection /\ "heading" \notin on THEN {"text"} ELSE {})
    \cup (IF InAReference THEN {"raw"} ELSE {})

HandleText ==
  /\ parsed = Unparsed /\ path # <<>> /\ Len(said) < MaxTexts
  /\ said' = Append(said, path)
  /\ buf' = [s \in Slots |-> IF s \in Hears THEN buf[s] \cup {Len(said) + 1} ELSE buf[s]]
  /\ UNCHANGED <<grammar, elements, path, inside, on, known, metadata, parts, parsed>>

BuildStructure ==
  [said |-> "structure", abstract |-> buf["abstract"], meta |-> meta,
   sections |-> sections, references |-> references, figures |-> figures]

(* The document ends, or is cut off.                                        *)
Eof ==
  /\ parsed = Unparsed /\ elements > 0
  /\ parsed' = IF path # <<>> THEN [said |-> "error"] ELSE BuildStructure
  /\ UNCHANGED <<document, path, inside, on, known, buf, metadata, parts>>

InitTei ==
  /\ grammar \in Grammars /\ elements = 0 /\ said = <<>>
  /\ path = <<>> /\ inside = {} /\ on = {} /\ known = {} /\ buf = [s \in Slots |-> {}]
  /\ meta = [title |-> {}, doi |-> {}, year |-> 0, authors |-> <<>>]
  /\ person = NoNames
  /\ section = NoSection /\ sections = <<>>
  /\ reference = NoReference /\ references = <<>>
  /\ figure = NoFigure /\ figures = <<>>
  /\ parsed = Unparsed

NextTei == Start \/ End \/ HandleText \/ Eof

SpecTei == InitTei /\ [][NextTei]_teiVars

-----------------------------------------------------------------------------
(* The element at i is a div of the body that is in no other div of it.     *)
InBody(p, i) == \E j \in 1..(i - 1) : p[j].name = "body"
OutermostDiv(p, i) ==
  /\ p[i].name = "div" /\ InBody(p, i)
  /\ \A k \in 1..(i - 1) : p[k].name = "div" => ~InBody(p, k)
InSection(p, id) == \E i \in DOMAIN p : p[i].at = id /\ OutermostDiv(p, i)

(* The element at i is a biblStruct of the list of references.              *)
OfList(p, i) == p[i].name = "biblStruct" /\ \E j \in 1..(i - 1) : p[j].name = "listBibl"
InReference(p, id) == \E i \in DOMAIN p : p[i].at = id /\ OfList(p, i)

(* A text that says something of the paper itself is in an element of the   *)
(* name that no reference contains.                                         *)
OfPaper(p, name) ==
  \E i \in DOMAIN p : p[i].name = name /\ \A j \in 1..(i - 1) : ~OfList(p, j)

(* A section has all the texts of its div of the body, nested ones          *)
(* included, a reference all of its biblStruct, each once, and every such   *)
(* div and biblStruct that ends is one; and title, DOI and authors of the   *)
(* paper are none of its references' (ParseState, whose flags outlive the   *)
(* elements they were set in).                                              *)
StructureKept ==
  /\ \A k \in DOMAIN sections :
       /\ sections[k].heading \cup sections[k].text = {n \in DOMAIN said : InSection(said[n], sections[k].of)}
       /\ sections[k].heading \cap sections[k].text = {}
  /\ \A k \in DOMAIN references :
       references[k].raw = {n \in DOMAIN said : InReference(said[n], references[k].of)}
  /\ \A p \in {sections, references} : \A k, l \in DOMAIN p : k < l => p[k].of < p[l].of
  /\ path = <<>> =>
       \A n \in DOMAIN said : \A i \in DOMAIN said[n] :
         /\ OutermostDiv(said[n], i) => \E k \in DOMAIN sections : sections[k].of = said[n][i].at
         /\ OfList(said[n], i) => \E k \in DOMAIN references : references[k].of = said[n][i].at
  /\ \A slot \in {"title", "doi"} :
       \A n \in meta[slot] : OfPaper(said[n], IF slot = "title" THEN "title" ELSE "idno")
  /\ \A k \in DOMAIN meta.authors : \A n \in meta.authors[k] : OfPaper(said[n], "persName")

=============================================================================
