----------------------------- MODULE MCOpenText -----------------------------
(* What is made of a paper's text, each on its own: it is read page by     *)
(* page, GROBID's document of it is parsed, or its lines are sorted into   *)
(* sections, and of the structure outlines and fields are read. Short      *)
(* texts and documents, and structures of a few sections, for TLC.         *)
EXTENDS OpenText, StructureOutline, TeiParser, TextSections

VARIABLE made   \* what is made

MCHeadings == [ch1 |-> 1, ch2 |-> 2, ch3 |-> 3]
MCWidths == [e |-> 2]

Text(of) == Joined(of, <<Break>>)

BookLines == {<<"ch1">>, <<"ch2", "a">>, <<"a", "e">>, <<>>}
Books == {Text(of) \o <<Break>> : of \in [1..5 -> BookLines]}
WithContents ==
  {Text(<<<<"contents">>, <<"ch1">>, <<"ch2">>, <<"ch3">>, <<>>>> \o of) :
     of \in [1..4 -> {<<"ch1">>, <<"a", "e">>, <<"ch3">>}]}

Code == {<<"a", "b">>, <<"a", " ", "e", ".", "a">>, Fence \o <<"x">>, Fence,
         <<" ", "a", "b", "a", "b", "a">>, <<>>}
Technical == {Text(of) : of \in [1..4 -> Code]}
Quoted == {<<"a", "b">>, <<"a", "a", "a", "a", "a", " ">> \o Fence, Fence}
Quoting == {Text(of) : of \in [1..3 -> Quoted]}
MCBeside == <<"e", "e", Break, "ch1", Break, "e", "e", "e", "e", "e", "e", "e">>
MCContents == Books \cup WithContents \cup Technical \cup Quoting \cup {MCBeside}

Ask(chapter, max, size, crumb) ==
  [chapter |-> chapter, max |-> max, size |-> size, crumb |-> crumb, offset |-> 0]
Crumb == <<"b", "b", "b", " ", "b">>
MCRequests ==
  {Ask(1, 3, 9, Crumb), Ask(2, 40, 9, Crumb), Ask(0, 40, 5, <<>>), Ask(0, 5, 0, <<>>),
   Ask(0, 40, 9, Crumb), Ask(0, 40, 14, Crumb), Ask(0, 40, 18, Crumb)}

-----------------------------------------------------------------------------
(* Sections of a text and subsections, and what stands beside them.        *)
Leaf(n) == Object(<<"heading", "text">>, <<String(1), String(n)>>)
Nested(n) == Object(<<"heading", "subsections", "text">>,
                    <<String(1), Array(<<Leaf(n), Leaf(3)>>), String(2)>>)
Paper(of, cited) ==
  Object(<<"metadata">> \o (IF cited = 0 THEN <<>> ELSE <<"references">>) \o <<"sections">>,
         <<Object(<<"abstract", "title">>, <<String(2), String(1)>>)>>
           \o (IF cited = 0 THEN <<>> ELSE <<Array(<<String(cited)>>)>>)
           \o <<Array(of)>>)
MCStructures ==
  {Paper(of, cited) : cited \in {0, 2},
     of \in {<<>>, <<Leaf(1)>>, <<Leaf(3), Nested(1)>>,
            <<Leaf(1), Leaf(0), Leaf(1), Leaf(1)>>,
            <<Nested(2), Leaf(0), Leaf(4)>>,
            <<Nested(1), Leaf(0), Leaf(1), Leaf(1)>>,
            <<Object(<<"subsections", "text">>, <<Array(<<Nested(1)>>), String(0)>>)>>}}
MCSelectors ==
  {<<>>, <<"sections">>, <<"sections", "0">>, <<"sections", "0", "text">>,
   <<"sections", "1", "subsections">>, <<"metadata", "abstract">>}

-----------------------------------------------------------------------------
(* What elements contain, in the body of a document and at its ends.       *)
Plain(name) == [name |-> name, marked |-> FALSE]
Marked(name) == [name |-> name, marked |-> TRUE]
Grammar(rules) ==
  [name \in UNION {{rule[1]} \cup {e.name : e \in rule[2]} : rule \in rules} |->
     UNION {rule[2] : rule \in {rule \in rules : rule[1] = name}}]
BodyGrammar ==
  Grammar({<<"document", {Plain("body")}>>,
           <<"body", {Plain("div"), Plain("figure")}>>,
           <<"div", {Plain("div"), Plain("head"), Plain("figure")}>>,
           <<"figure", {Plain("head"), Plain("figDesc"), Plain("label")}>>})
EndsGrammar ==
  Grammar({<<"document", {Plain("analytic"), Plain("listBibl"), Plain("abstract")}>>,
           <<"analytic", {Marked("title"), Marked("idno"), Plain("persName")}>>,
           <<"listBibl", {Plain("biblStruct")}>>,
           <<"biblStruct", {Plain("analytic"), Marked("date")}>>,
           <<"persName", {Plain("forename"), Plain("surname")}>>})
MCGrammars == {BodyGrammar, EndsGrammar}

-----------------------------------------------------------------------------
TextAtRest ==
  content = <<>> /\ request = None /\ answer = Silent /\ read = <<>> /\ replaced = FALSE
OutlineAtRest == structure = Null /\ opened = [said |-> "nothing"]
TeiAtRest == InitTei /\ grammar = BodyGrammar
SectionsAtRest == InitSections /\ abstract = FALSE

MCInit ==
  \/ made = "pages" /\ Init /\ OutlineAtRest /\ TeiAtRest /\ SectionsAtRest
  \/ made = "outlines" /\ TextAtRest /\ InitStructure /\ TeiAtRest /\ SectionsAtRest
  \/ made = "parse" /\ TextAtRest /\ OutlineAtRest /\ InitTei /\ SectionsAtRest
  \/ made = "sections" /\ TextAtRest /\ OutlineAtRest /\ TeiAtRest /\ InitSections

MCNext ==
  /\ UNCHANGED made
  /\ \/ made = "pages" /\ Next /\ UNCHANGED <<structureVars, teiVars, sectionVars>>
     \/ made = "outlines" /\ OpenStructure /\ UNCHANGED <<vars, teiVars, sectionVars>>
     \/ made = "parse" /\ NextTei /\ UNCHANGED <<vars, structureVars, sectionVars>>
     \/ made = "sections" /\ NextSections /\ UNCHANGED <<vars, structureVars, teiVars>>

MCSpec == MCInit /\ [][MCNext]_<<made, vars, structureVars, teiVars, sectionVars>>

=============================================================================
