------------------------------ MODULE MCReading ------------------------------
(* An item with two PDFs, an attachment of another, two works of which one *)
(* is asked for by its identifier, two calls and one thread of a search.   *)
EXTENDS ReadingProperties

CONSTANTS a1, a2, a3, d1, d2, h1, i1

Listed1 == <<a1, a2>>
Pdfs1 == {a1, a2}
Name1 == [w \in {d1, d2} |-> w]

Targets1 ==
  {TargetOf("identity", d1, NONE), TargetOf("paper", d2, NONE),
   TargetOf("item", i1, NONE), TargetOf("item", i1, a2), TargetOf("item", i1, a3),
   TargetOf("item", i1, d1), TargetOf("item", d1, NONE),
   TargetOf("attachment", NONE, a1), TargetOf("attachment", NONE, d2),
   TargetOf("research", h1, NONE)}
Asks1 ==
  {[item |-> i1, attachment |-> a] : a \in {NONE, a2}}
    \cup {[item |-> d1, attachment |-> NONE]}
Items1 == {i1, d1}
Views1 == {{"fulltext", "structure"}, {"metadata", "toc", "structure"}}

(* Little that happens to the corpus concerns an item of Zotero, and little *)
(* in Zotero a paper of the corpus; the readers stand alone. While the one  *)
(* side moves, the others stay as they were at the start: an item is asked  *)
(* for with the key of a cached paper while Zotero is at rest, or with a    *)
(* cached paper for an attachment while the corpus is.                      *)
ZoteroAtRest ==
  /\ \A c \in Calls : parse[c].item # i1
  /\ \A a \in Attachments : version[a] = 1
  /\ grobid = "down"

Names(c, t) == open[c].target = t

CorpusAtRest ==
  /\ \A m \in Mirrors : mirror[m].at = "idle"
  /\ \A w \in Works : incoming[SafeName[w]] = NONE
  /\ \/ \A w \in Works : corpus[w] = NONE
     \/ /\ corpus[d1] = d1 /\ corpus[d2] = NONE
        /\ \E c \in Openers : Names(c, TargetOf("item", i1, d1))

OthersAtRest == version[a3] = 1

NooneReads == \A r \in Readers : read[r].at = "idle"

OneSide ==
  \/ NooneReads /\ OthersAtRest /\ (ZoteroAtRest \/ CorpusAtRest)
  \/ /\ \A c \in Calls : open[c].at = "idle" /\ parse[c].at = "idle"
     /\ \A m \in Mirrors : mirror[m].at = "idle"
     /\ grobid = "down"

=============================================================================
