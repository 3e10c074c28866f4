----------------------------- MODULE SearchMerge -----------------------------
(***************************************************************************)
(* How a paper search turns the hits of its sources into one list:         *)
(* `dedupe` (src/src/external/mod.rs) merges the hits of the external      *)
(* sources that describe one work, `merge_prefer_cached`                   *)
(* (src/src/service.rs) then lets the copies in the local corpus take the  *)
(* place of the hits they match.  One iteration of a loop is one step.     *)
(*                                                                         *)
(* A hit is reduced to what decides identity and order.  The DOI, the      *)
(* arXiv id and the PMID obey the same rules, so they are one function     *)
(* over Kinds.  Of the authors only the first counts: merging appends      *)
(* those of the other record, so the first changes only when there was     *)
(* none.  The text of an identifier stands for all texts with one key.     *)
(***************************************************************************)
EXTENDS Naturals, Sequences, SequencesExt

CONSTANTS
  Kinds,         \* the strong identifiers: DOI, arXiv id, PMID
  Identifiers,   \* texts of strong identifiers that have a key
  Keyless,       \* texts that have none and are not blank: a bare resolver prefix
  Blank,         \* a text of white space
  None,
  Isbns, PaperIds, Titles, Authors,
  External,      \* the hits the sources may return
  Cached,        \* the copies in the corpus the query may find
  MaxCached      \* the most copies it finds

WorkTypes == {"paper", "book", "chapter"}

Hit == [ids: [Kinds -> Identifiers \cup Keyless \cup {Blank, None}],
        isbn: Isbns \cup {None},
        workType: WorkTypes \cup {None},
        paperId: PaperIds \cup {None},
        title: Titles \cup {Blank},
        author: Authors \cup {Blank, None}]

ASSUME InputsAssumption ==
  /\ External \subseteq {h \in Hit : h.paperId = None}
  /\ Cached \subseteq {h \in Hit : h.paperId # None}
  /\ MaxCached \in Nat

ASSUME TextsAssumption ==
  /\ Blank # None
  /\ {Blank, None} \cap (Identifiers \cup Keyless \cup Isbns \cup PaperIds) = {}
  /\ Identifiers \cap Keyless = {}
  /\ None \notin WorkTypes

VARIABLES
  pc,          \* "dedupe", "recheck", "cached" or "done"
  hits,        \* the hits of the sources, in the order of the sources
  taken,       \* how many of them dedupe has taken
  out,         \* the records so far
  keys,        \* the identity keys dedupe keeps beside each record
  index,       \* the record whose keys changed last
  candidate,   \* the record it is compared with next
  cached,      \* the copies the corpus returned
  placed,      \* how many of them have found their place
  from         \* history: the hits merged into each record, by position

vars == <<pc, hits, taken, out, keys, index, candidate, cached, placed, from>>

-----------------------------------------------------------------------------
(* Identity.                                                               *)

Key(text) == IF text \in Identifiers THEN text ELSE None

KeysOf(h) ==
  [ids |-> [k \in Kinds |-> Key(h.ids[k])],
   isbn |-> h.isbn,
   chapter |-> h.workType = "chapter",
   paperId |-> h.paperId,
   titleAuthor |-> IF h.title # Blank /\ h.author \in Authors
                   THEN <<h.title, h.author>>
                   ELSE None]

Conflict(a, b) == a # None /\ b # None /\ a # b

Shared(a, b) == a # None /\ a = b

(* A contradiction between strong identifiers vetoes; otherwise one piece  *)
(* of shared evidence is enough.                                           *)
Compatible(a, b) ==
  /\ \A k \in Kinds : ~Conflict(a.ids[k], b.ids[k])
  /\ \/ ~a.chapter /\ ~b.chapter /\ Shared(a.isbn, b.isbn)
     \/ \E k \in Kinds : Shared(a.ids[k], b.ids[k])
     \/ Shared(a.paperId, b.paperId)
     \/ Shared(a.titleAuthor, b.titleAuthor)

CompatibleIdentity(g, h) == Compatible(KeysOf(g), KeysOf(h))

-----------------------------------------------------------------------------
(* Merging.                                                                *)

Or(a, b) == IF a = None THEN b ELSE a

(* Mistake: white space in the place of an identifier hides the other.     *)
MergeHidden(kept, other) ==
  [ids |-> [k \in Kinds |-> Or(kept.ids[k], other.ids[k])],
   isbn |-> Or(kept.isbn, other.isbn),
   workType |-> Or(kept.workType, other.workType),
   paperId |-> Or(kept.paperId, other.paperId),
   title |-> kept.title,
   author |-> Or(kept.author, other.author)]

(* The kept record's fields stay, those it lacks come from the other.      *)
MergeHitMetadata(kept, other) ==
  [ids |-> [k \in Kinds |-> IF kept.ids[k] \in {None, Blank}
                            THEN other.ids[k] ELSE kept.ids[k]],
   isbn |-> Or(kept.isbn, other.isbn),
   workType |-> Or(kept.workType, other.workType),
   paperId |-> Or(kept.paperId, other.paperId),
   title |-> kept.title,
   author |-> Or(kept.author, other.author)]

MergeInto(s, i, other) == [s EXCEPT ![i] = MergeHitMetadata(s[i], other)]

(* Mistake: the keys of a record stay as they were.                        *)
NotRekeyed(ks, i, h) == ks

(* The keys of a record are computed anew when it has taken in another.    *)
Rekeyed(ks, i, h) == [ks EXCEPT ![i] = KeysOf(h)]

(* Of two records that are merged the earlier one is kept.                 *)
Earlier(i, j) == IF i < j THEN i ELSE j
Later(i, j) == IF i < j THEN j ELSE i

-----------------------------------------------------------------------------
(* dedupe.                                                                 *)

Lists(S, n) == UNION {[1 .. m -> S] : m \in 0 .. n}

Init ==
  /\ pc = "dedupe"
  /\ hits = <<>>
  /\ taken = 0
  /\ out = <<>> /\ keys = <<>> /\ from = <<>>
  /\ index = 0 /\ candidate = 0
  /\ cached = <<>> /\ placed = 0

(* The hits of the sources arrive; PaperSearch says from where.            *)
Gather ==
  /\ pc = "dedupe" /\ hits = <<>> /\ out = <<>>
  /\ hits' \in Seq(External)
  /\ UNCHANGED <<pc, taken, out, keys, index, candidate, cached, placed, from>>

(* The next hit describes a work that is not in the list.                  *)
TakeNew ==
  /\ pc = "dedupe" /\ taken < Len(hits)
  /\ LET hit == hits[taken + 1] IN
     /\ \A i \in DOMAIN keys : ~Compatible(keys[i], KeysOf(hit))
     /\ out' = Append(out, hit)
     /\ keys' = Append(keys, KeysOf(hit))
     /\ from' = Append(from, {taken + 1})
  /\ taken' = taken + 1
  /\ UNCHANGED <<pc, hits, index, candidate, cached, placed>>

(* The first record it is compatible with takes it in; identifiers the     *)
(* record gained may now connect it with others.                           *)
TakeMatch ==
  /\ pc = "dedupe" /\ taken < Len(hits)
  /\ LET hit == hits[taken + 1] IN
     \E i \in DOMAIN keys :
       /\ Compatible(keys[i], KeysOf(hit))
       /\ \A j \in 1 .. i - 1 : ~Compatible(keys[j], KeysOf(hit))
       /\ out' = MergeInto(out, i, hit)
       /\ keys' = Rekeyed(keys, i, MergeHitMetadata(out[i], hit))
       /\ from' = [from EXCEPT ![i] = @ \cup {taken + 1}]
       /\ index' = i
  /\ candidate' = 1
  /\ taken' = taken + 1
  /\ pc' = "recheck"
  /\ UNCHANGED <<hits, cached, placed>>

(* The candidate is compatible: the later of the two records is removed    *)
(* and merged into the earlier one, and the search starts again.           *)
Absorb ==
  /\ pc = "recheck" /\ candidate <= Len(out)
  /\ candidate # index
  /\ Compatible(keys[index], keys[candidate])
  /\ LET kept == Earlier(index, candidate)
         removed == Later(index, candidate)
     IN /\ out' = RemoveAt(MergeInto(out, kept, out[removed]), removed)
        /\ keys' = RemoveAt(Rekeyed(keys, kept,
                                    MergeHitMetadata(out[kept], out[removed])),
                            removed)
        /\ from' = RemoveAt([from EXCEPT ![kept] = @ \cup from[removed]], removed)
        /\ index' = kept
  /\ candidate' = 1
  /\ UNCHANGED <<pc, hits, taken, cached, placed>>

(* Mistake: the record itself is not passed over.                          *)
PassOverOthers ==
  /\ pc = "recheck" /\ candidate <= Len(out)
  /\ candidate # index /\ ~Compatible(keys[index], keys[candidate])
  /\ candidate' = candidate + 1
  /\ UNCHANGED <<pc, hits, taken, out, keys, index, cached, placed, from>>

PassOver ==
  /\ pc = "recheck" /\ candidate <= Len(out)
  /\ candidate = index \/ ~Compatible(keys[index], keys[candidate])
  /\ candidate' = candidate + 1
  /\ UNCHANGED <<pc, hits, taken, out, keys, index, cached, placed, from>>

EndRecheck ==
  /\ pc = "recheck" /\ candidate > Len(out)
  /\ pc' = "dedupe"
  /\ UNCHANGED <<hits, taken, out, keys, index, candidate, cached, placed, from>>

-----------------------------------------------------------------------------
(* Of what an automatic search finds in the corpus there surfaces what has *)
(* the identifier of the query, or enough of its words: any copies may, in *)
(* any order, and YAMS may return one twice.                               *)
Surfaced == Lists(Cached, MaxCached)

(* search_papers: the corpus is searched when the sources have answered;   *)
(* nothing is found when the cache is off.                                 *)
SearchCached ==
  /\ pc = "dedupe" /\ taken = Len(hits)
  /\ cached' \in Surfaced
  /\ pc' = "cached"
  /\ UNCHANGED <<hits, taken, out, keys, index, candidate, placed, from>>

Position == Len(hits) + placed + 1

(* Mistake: the copy does not take over what it lacks.                     *)
Overwritten(s, i, copy) == [s EXCEPT ![i] = copy]

Replaced(s, i, copy) == [s EXCEPT ![i] = MergeHitMetadata(copy, s[i])]

(* A copy that matches no record joins the end of the list.                *)
PlaceAtEnd ==
  /\ pc = "cached" /\ placed < Len(cached)
  /\ LET hit == cached[placed + 1] IN
     /\ \A i \in DOMAIN out : ~CompatibleIdentity(out[i], hit)
     /\ out' = Append(out, hit)
     /\ from' = Append(from, {Position})
  /\ placed' = placed + 1
  /\ UNCHANGED <<pc, hits, taken, keys, index, candidate, cached>>

(* A copy takes in the first record it matches, and its place.             *)
ReplaceMatch ==
  /\ pc = "cached" /\ placed < Len(cached)
  /\ LET hit == cached[placed + 1] IN
     \E i \in DOMAIN out :
       /\ CompatibleIdentity(out[i], hit)
       /\ \A j \in 1 .. i - 1 : ~CompatibleIdentity(out[j], hit)
       /\ out' = Replaced(out, i, hit)
       /\ from' = [from EXCEPT ![i] = @ \cup {Position}]
  /\ placed' = placed + 1
  /\ UNCHANGED <<pc, hits, taken, keys, index, candidate, cached>>

Finish ==
  /\ pc = "cached" /\ placed = Len(cached)
  /\ pc' = "done"
  /\ UNCHANGED <<hits, taken, out, keys, index, candidate, cached, placed, from>>

Dedupe == TakeNew \/ TakeMatch \/ Absorb \/ PassOver \/ EndRecheck

MergePreferCached == PlaceAtEnd \/ ReplaceMatch \/ Finish

Next == Gather \/ Dedupe \/ SearchCached \/ MergePreferCached

Spec == Init /\ [][Next]_vars

=============================================================================
