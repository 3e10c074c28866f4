-------------------------- MODULE StructureOutline --------------------------
(* What open_paper returns of a paper's structure: an outline of all of it *)
(* or the field that a selector names, within a budget of characters and   *)
(* of nodes. A value is a text, of which the length matters, an object or  *)
(* an array.                                                               *)
EXTENDS Naturals, SequencesExt, TLC

CONSTANTS
  MaxDepth,   \* how deep sections may nest: 48
  MaxSections,\* and how many there may be: 100,000
  Excerpt,    \* characters that an outline keeps of a section: 80
  NodeSlack,  \* nodes beyond the characters asked for: 64
  MaxNodes,   \* and at most: 1024
  Structures, \* the structures that a paper may have
  Selectors,  \* what a reader selects of one
  Budgets     \* and the max_chars it asks for

ASSUME OutlineAssumption ==
  /\ {MaxDepth, MaxSections, Excerpt, NodeSlack, MaxNodes} \subseteq Nat
  /\ Budgets \subseteq Nat \ {0}

VARIABLES
  structure,   \* what parsing the paper gives
  opened       \* the last answer

structureVars == <<structure, opened>>

String(n) == [kind |-> "string", chars |-> n]
Array(items) == [kind |-> "array", items |-> items]
Object(keys, items) == [kind |-> "object", keys |-> keys, items |-> items]
Count == [kind |-> "number"]
Null == [kind |-> "null"]
Missing == [kind |-> "missing"]

Field(object, key) == object.items[CHOOSE i \in DOMAIN object.keys : object.keys[i] = key]

(* json_string_chars *)
RECURSIVE Chars(_)
Chars(value) ==
  CASE value.kind = "string" -> value.chars
    [] value.kind \in {"array", "object"} ->
         FoldLeft(LAMBDA n, v : n + Chars(v), 0, value.items)
    [] OTHER -> 0

-----------------------------------------------------------------------------
(* A selector is a sequence of keys and indices.                           *)
Descend(value, step) ==
  CASE value.kind = "object" ->
         IF step \in Range(value.keys) THEN Field(value, step) ELSE Missing
    [] value.kind = "array" ->
         LET at == {i \in DOMAIN value.items : ToString(i - 1) = step}
         IN IF at = {} THEN Missing ELSE value.items[CHOOSE i \in at : TRUE]
    [] OTHER -> Missing

Evaluate(value, selector) == FoldLeft(Descend, value, selector)

RECURSIVE Depth(_)
Depth(sections) ==
  LET Below(s) == IF "subsections" \in Range(s.keys) THEN Depth(Field(s, "subsections")) ELSE 0
  IN Max({0} \cup {1 + Below(sections.items[i]) : i \in DOMAIN sections.items})

RECURSIVE SectionCount(_)
SectionCount(sections) ==
  LET Below(s) == IF "subsections" \in Range(s.keys)
                  THEN SectionCount(Field(s, "subsections")) ELSE 0
  IN FoldLeft(LAMBDA n, s : n + 1 + Below(s), 0, sections.items)

BeyondLimits(value) ==
  /\ "sections" \in Range(value.keys)
  /\ \/ Depth(Field(value, "sections")) > MaxDepth
     \/ SectionCount(Field(value, "sections")) > MaxSections

-----------------------------------------------------------------------------
(* The outline leaves out references, figures and the abstract, and keeps  *)
(* the beginning of every section's text, with its length.                 *)
Without(object, keys) ==
  LET kept == SelectSeq([i \in DOMAIN object.keys |-> i],
                        LAMBDA i : object.keys[i] \notin keys)
  IN Object([i \in DOMAIN kept |-> object.keys[kept[i]]],
            [i \in DOMAIN kept |-> object.items[kept[i]]])

RECURSIVE OutlineSections(_)
OutlineSections(sections) ==
  Array([i \in DOMAIN sections.items |->
    LET s == sections.items[i]
        items == [k \in DOMAIN s.items |->
          CASE s.keys[k] = "text" -> String(Min({Excerpt, s.items[k].chars}))
            [] s.keys[k] = "subsections" -> OutlineSections(s.items[k])
            [] OTHER -> s.items[k]]
    IN Object(Append(s.keys, "text_chars"), Append(items, Count))])

Outline(value) ==
  LET v == Without(value, {"references", "figures"}) IN
  [v EXCEPT !.items = [k \in DOMAIN v.items |->
     CASE v.keys[k] = "metadata" -> Without(v.items[k], {"abstract"})
       [] v.keys[k] = "sections" -> OutlineSections(v.items[k])
       [] OTHER -> v.items[k]]]

LeavesOut(value) ==
  \/ {"references", "figures"} \cap Range(value.keys) # {}
  \/ Chars(Outline(value)) < Chars(value)

-----------------------------------------------------------------------------
(* bound_json_strings: texts are cut when the characters run out, arrays   *)
(* end and fields become null when the nodes do, and all that is said.     *)
Cuts(s) == [s EXCEPT !.omitted = TRUE]

(* Mistake: an array that ends early is not reported.                      *)
EndSilently(s) == s
EndArray(s) == Cuts(s)

RECURSIVE Bound(_, _)
Bound(value, s) ==
  LET t == [s EXCEPT !.nodes = @ - 1]
      Child(r, child) == LET b == Bound(child, r.left) IN
        [items |-> Append(r.items, b.value), left |-> b.left]
      Item(r, child) == IF r.left.nodes = 0
                        THEN [r EXCEPT !.left = EndArray(@)] ELSE Child(r, child)
      none == [items |-> <<>>, left |-> t] IN
  CASE s.nodes = 0 -> [value |-> Null, left |-> Cuts(s)]
    [] s.nodes > 0 /\ value.kind = "string" ->
         LET n == Min({value.chars, s.chars})
             cut == [t EXCEPT !.chars = @ - n]
         IN [value |-> String(n), left |-> IF n < value.chars THEN Cuts(cut) ELSE cut]
    [] s.nodes > 0 /\ value.kind = "array" ->
         LET r == FoldLeft(Item, none, value.items)
         IN [value |-> Array(r.items), left |-> r.left]
    [] s.nodes > 0 /\ value.kind = "object" ->
         LET r == FoldLeft(Child, none, value.items)
         IN [value |-> Object(value.keys, r.items), left |-> r.left]
    [] OTHER -> [value |-> value, left |-> t]

(* bounded_structure_output of what is no text. What the outline leaves    *)
(* out beforehand is reported too.                                         *)
BoundedOutput(value, outline, max) ==
  LET b == Bound(IF outline THEN Outline(value) ELSE value,
                 [chars |-> max, nodes |-> Min({max + NodeSlack, MaxNodes}),
                  omitted |-> outline /\ LeavesOut(value)])
  IN [value |-> b.value, returned |-> max - b.left.chars, total |-> Chars(value),
      truncated |-> b.left.omitted]

-----------------------------------------------------------------------------
OpenStructure ==
  /\ \E selector \in Selectors, max \in Budgets :
       LET value == Evaluate(structure, selector) IN
       opened' =
         CASE BeyondLimits(structure) \/ value = Missing -> [said |-> "error"]
           [] ~BeyondLimits(structure) /\ value.kind = "string" ->
                [said |-> "text", chars |-> Min({max, value.chars})]
           [] OTHER -> [said |-> "structure", of |-> value, max |-> max,
                        out |-> BoundedOutput(value, selector = <<>>, max)]
  /\ UNCHANGED structure

InitStructure == structure \in Structures /\ opened = [said |-> "nothing"]

SpecStructure == InitStructure /\ [][OpenStructure]_structureVars

-----------------------------------------------------------------------------
(* An outline or a selection stays within the characters asked for, and    *)
(* what it does not say of the structure it reports                        *)
(* (bounded_structure_output).                                             *)
OutlineAccounts ==
  opened.said = "structure" =>
    /\ opened.out.returned <= opened.max
    /\ opened.out.returned = Chars(opened.out.value)
    /\ opened.out.truncated \/ Chars(opened.out.value) = opened.out.total

=============================================================================
