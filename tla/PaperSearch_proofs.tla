-------------------------- MODULE PaperSearch_proofs --------------------------
(***************************************************************************)
(* Proofs about a whole paper search, for any sources, requests, corpus    *)
(* and page sizes.                                                         *)
(*                                                                         *)
(* The first part is about the merge of SearchMerge, for any lists of hits *)
(* and copies and any identifiers.  A search implements it, so what is     *)
(* proved of the merge holds inside every search.  On top of it AskInv     *)
(* says what the fan-out collects, AccountInv that every source it asked   *)
(* is on one list, CoverInv that the records and the texts they were made  *)
(* of cover what was collected, and AnswerInv what of it the client gets,  *)
(* and what it has read.  Properties of FlattenSeq, a recursive function,  *)
(* and of the ranking are proved first; an induction is by the least       *)
(* counterexample.                                                         *)
(***************************************************************************)
EXTENDS PaperSearchProperties, SequenceTheorems, FiniteSetTheorems,
        WellFoundedInduction, TLAPS

-----------------------------------------------------------------------------
(* Sequences.                                                              *)

(* RemoveAt moves the elements behind the place it removes up by one.      *)
LEMMA RemoveAtProperties ==
  ASSUME NEW S, NEW s \in Seq(S), NEW p \in 1 .. Len(s)
  PROVE  /\ RemoveAt(s, p) \in Seq(S)
         /\ Len(RemoveAt(s, p)) = Len(s) - 1
         /\ \A i \in 1 .. Len(s) - 1 :
              RemoveAt(s, p)[i] = IF i < p THEN s[i] ELSE s[i + 1]
<1> DEFINE front == SubSeq(s, 1, p - 1)
           back == SubSeq(s, p + 1, Len(s))
<1>1. Len(s) \in Nat /\ p \in Nat /\ p >= 1 /\ p <= Len(s)
  BY LenProperties
<1>2. /\ front \in Seq(S) /\ Len(front) = p - 1
      /\ \A i \in 1 .. p - 1 : front[i] = s[i]
  BY <1>1, SMTT(30)
<1>3. /\ back \in Seq(S) /\ Len(back) = Len(s) - p
      /\ \A i \in 1 .. Len(s) - p : back[i] = s[p + i]
  BY <1>1, SMTT(30)
<1>4. RemoveAt(s, p) = front \o back
  BY DEF RemoveAt
<1> HIDE DEF front, back
<1>5. /\ front \o back \in Seq(S)
      /\ Len(front \o back) = Len(front) + Len(back)
      /\ \A i \in 1 .. Len(front) + Len(back) :
           (front \o back)[i] = IF i <= Len(front) THEN front[i]
                                                  ELSE back[i - Len(front)]
  BY <1>2, <1>3, ConcatProperties
<1>6. /\ front \o back \in Seq(S)
      /\ Len(front \o back) = Len(s) - 1
      /\ \A i \in 1 .. Len(s) - 1 :
           (front \o back)[i] = IF i < p THEN front[i] ELSE back[i - (p - 1)]
  BY <1>1, <1>2, <1>3, <1>5
<1>7. ASSUME NEW i \in 1 .. Len(s) - 1
      PROVE  RemoveAt(s, p)[i] = IF i < p THEN s[i] ELSE s[i + 1]
  <2>1. CASE i < p
    BY <2>1, <1>1, <1>2, <1>4, <1>6
  <2>2. CASE ~(i < p)
    <3>1. i - (p - 1) \in 1 .. Len(s) - p /\ p + (i - (p - 1)) = i + 1
      BY <2>2, <1>1
    <3> QED BY <2>2, <3>1, <1>1, <1>3, <1>4, <1>6
  <2> QED BY <2>1, <2>2
<1> QED BY <1>4, <1>6, <1>7

(* An element is replaced.                                                 *)
LEMMA ReplaceProperties ==
  ASSUME NEW S, NEW s \in Seq(S), NEW i \in 1 .. Len(s), NEW e \in S
  PROVE  LET t == [s EXCEPT ![i] = e] IN
         /\ t \in Seq(S) /\ Len(t) = Len(s)
         /\ \A j \in 1 .. Len(s) : t[j] = IF j = i THEN e ELSE s[j]
  OBVIOUS

(* An element is replaced and a later one removed.                         *)
ReplacedAndRemoved(s, k, e, r) == RemoveAt([s EXCEPT ![k] = e], r)

LEMMA ReplaceAndRemove ==
  ASSUME NEW S, NEW s \in Seq(S), NEW k \in 1 .. Len(s), NEW r \in 1 .. Len(s),
         k < r, NEW e \in S
  PROVE  LET t == ReplacedAndRemoved(s, k, e, r) IN
         /\ t \in Seq(S) /\ Len(t) = Len(s) - 1
         /\ \A i \in 1 .. Len(s) - 1 :
              t[i] = IF i = k THEN e ELSE IF i < r THEN s[i] ELSE s[i + 1]
<1> DEFINE u == [s EXCEPT ![k] = e]
<1>1. /\ u \in Seq(S) /\ Len(u) = Len(s)
      /\ \A j \in 1 .. Len(s) : u[j] = IF j = k THEN e ELSE s[j]
  BY ReplaceProperties
<1> HIDE DEF u
<1>2. /\ RemoveAt(u, r) \in Seq(S) /\ Len(RemoveAt(u, r)) = Len(s) - 1
      /\ \A i \in 1 .. Len(s) - 1 :
           RemoveAt(u, r)[i] = IF i < r THEN u[i] ELSE u[i + 1]
  BY <1>1, RemoveAtProperties
<1>3. ASSUME NEW i \in 1 .. Len(s) - 1
      PROVE  RemoveAt(u, r)[i]
               = IF i = k THEN e ELSE IF i < r THEN s[i] ELSE s[i + 1]
  <2>1. i \in 1 .. Len(s) /\ i + 1 \in 1 .. Len(s)
    BY LenProperties
  <2> QED BY <1>1, <1>2, <2>1
<1> QED BY <1>2, <1>3 DEF u, ReplacedAndRemoved

-----------------------------------------------------------------------------
(* Identity.                                                               *)

LEMMA CompatibleSymmetric ==
  \A a, b : Compatible(a, b) <=> Compatible(b, a)
  BY DEF Compatible, Conflict, Shared

LEMMA MergedIsHit ==
  ASSUME NEW g \in Hit, NEW h \in Hit
  PROVE  MergeHitMetadata(g, h) \in Hit
<1>1. [k \in Kinds |-> IF g.ids[k] \in {None, Blank} THEN h.ids[k] ELSE g.ids[k]]
        \in [Kinds -> Identifiers \cup Keyless \cup {Blank, None}]
  BY DEF Hit
<1>2. /\ Or(g.isbn, h.isbn) \in Isbns \cup {None}
      /\ Or(g.workType, h.workType) \in WorkTypes \cup {None}
      /\ Or(g.paperId, h.paperId) \in PaperIds \cup {None}
      /\ g.title \in Titles \cup {Blank}
      /\ Or(g.author, h.author) \in Authors \cup {Blank, None}
  BY DEF Hit, Or
<1> QED BY <1>1, <1>2 DEF Hit, MergeHitMetadata

LEMMA InputsAreHits == External \subseteq Hit /\ Cached \subseteq Hit
  BY InputsAssumption

-----------------------------------------------------------------------------
(* The kinds of the variables, those of the keys and of the history among  *)
(* them.                                                                   *)

AllKeys == {KeysOf(h) : h \in Hit}

Places == SUBSET Nat

InLoop == pc \in {"dedupe", "recheck"}

TypeInv ==
  /\ TypeOK
  /\ from \in Seq(Places)
  /\ InLoop => keys \in Seq(AllKeys) /\ cached = <<>> /\ placed = 0

(* What absorbing does to the three sequences: of the record and the       *)
(* candidate the later one disappears.                                     *)
LEMMA AbsorbStep ==
  ASSUME TypeInv, Absorb
  PROVE  LET k == Earlier(index, candidate)
             r == Later(index, candidate)
             Old(i) == IF i < r THEN i ELSE i + 1
         IN /\ k \in 1 .. Len(out) /\ r \in 1 .. Len(out) /\ k < r
            /\ out' \in Seq(Hit) /\ keys' \in Seq(AllKeys)
            /\ from' \in Seq(Places)
            /\ Len(out') = Len(out) - 1 /\ Len(keys') = Len(out) - 1
            /\ Len(from') = Len(out) - 1
            /\ \A i \in 1 .. Len(out) - 1 :
                 /\ out'[i] = IF i = k THEN MergeHitMetadata(out[k], out[r])
                                       ELSE out[Old(i)]
                 /\ keys'[i] = IF i = k
                               THEN KeysOf(MergeHitMetadata(out[k], out[r]))
                               ELSE keys[Old(i)]
                 /\ from'[i] = IF i = k THEN from[k] \cup from[r]
                                        ELSE from[Old(i)]
<1>1. /\ out \in Seq(Hit) /\ from \in Seq(Places) /\ keys \in Seq(AllKeys)
      /\ Len(keys) = Len(out) /\ Len(from) = Len(out) /\ Len(out) \in Nat
      /\ index \in 1 .. Len(out) /\ candidate \in 1 .. Len(out)
      /\ candidate # index
  BY DEF TypeInv, TypeOK, InLoop, Absorb
<1>2. out \in Seq(Hit) /\ keys \in Seq(AllKeys) /\ from \in Seq(Places)
  BY <1>1
<1>3. Len(keys) = Len(out) /\ Len(from) = Len(out)
  BY <1>1
<1>4. PICK k \in 1 .. Len(out), r \in 1 .. Len(out) :
        k < r /\ k = Earlier(index, candidate) /\ r = Later(index, candidate)
  BY <1>1 DEF Earlier, Later
<1>5. k < r
  BY <1>4
<1>6. out[k] \in Hit /\ out[r] \in Hit /\ from[k] \cup from[r] \in Places
  BY <1>1 DEF Places
<1>7. PICK m \in Hit : m = MergeHitMetadata(out[k], out[r])
  BY <1>6, MergedIsHit
<1>8. PICK mk \in AllKeys : mk = KeysOf(m)
  BY DEF AllKeys
<1>9. PICK mf \in Places : mf = from[k] \cup from[r]
  BY <1>6
<1>10. /\ out' = ReplacedAndRemoved(out, k, m, r)
       /\ keys' = ReplacedAndRemoved(keys, k, mk, r)
       /\ from' = ReplacedAndRemoved(from, k, mf, r)
  BY <1>1, <1>4, <1>7, <1>8, <1>9
  DEF Absorb, MergeInto, Rekeyed, ReplacedAndRemoved
<1>11. /\ out' \in Seq(Hit) /\ Len(out') = Len(out) - 1
       /\ \A i \in 1 .. Len(out) - 1 :
            out'[i] = IF i = k THEN m ELSE IF i < r THEN out[i] ELSE out[i + 1]
  <2>1. LET t == ReplacedAndRemoved(out, k, m, r) IN
        /\ t \in Seq(Hit) /\ Len(t) = Len(out) - 1
        /\ \A i \in 1 .. Len(out) - 1 :
             t[i] = IF i = k THEN m ELSE IF i < r THEN out[i] ELSE out[i + 1]
    BY <1>2, <1>5, ReplaceAndRemove
  <2> QED BY <1>10, <2>1
<1>12. /\ keys' \in Seq(AllKeys) /\ Len(keys') = Len(out) - 1
       /\ \A i \in 1 .. Len(out) - 1 :
            keys'[i] = IF i = k THEN mk ELSE IF i < r THEN keys[i] ELSE keys[i + 1]
  <2>1. LET t == ReplacedAndRemoved(keys, k, mk, r) IN
        /\ t \in Seq(AllKeys) /\ Len(t) = Len(keys) - 1
        /\ \A i \in 1 .. Len(keys) - 1 :
             t[i] = IF i = k THEN mk ELSE IF i < r THEN keys[i] ELSE keys[i + 1]
    BY <1>2, <1>3, <1>5, ReplaceAndRemove
  <2> QED BY <1>3, <1>10, <2>1
<1>13. /\ from' \in Seq(Places) /\ Len(from') = Len(out) - 1
       /\ \A i \in 1 .. Len(out) - 1 :
            from'[i] = IF i = k THEN mf ELSE IF i < r THEN from[i] ELSE from[i + 1]
  <2>1. LET t == ReplacedAndRemoved(from, k, mf, r) IN
        /\ t \in Seq(Places) /\ Len(t) = Len(from) - 1
        /\ \A i \in 1 .. Len(from) - 1 :
             t[i] = IF i = k THEN mf ELSE IF i < r THEN from[i] ELSE from[i + 1]
    BY <1>2, <1>3, <1>5, ReplaceAndRemove
  <2> QED BY <1>3, <1>10, <2>1
<1> QED BY <1>4, <1>7, <1>8, <1>9, <1>11, <1>12, <1>13

(* What the type invariant says of the sequences, in the form the steps    *)
(* below cite.                                                             *)
LEMMA Typed ==
  ASSUME TypeInv
  PROVE  /\ out \in Seq(Hit) /\ from \in Seq(Places) /\ Len(from) = Len(out)
         /\ Len(out) \in Nat /\ taken \in Nat /\ placed \in Nat
         /\ Len(hits) \in Nat /\ Len(cached) \in Nat
         /\ hits \in Seq(Hit) /\ cached \in Seq(Hit)
         /\ InLoop => keys \in Seq(AllKeys) /\ Len(keys) = Len(out)
  BY InputsAreHits DEF TypeInv, TypeOK, InLoop

(* The positions that exist.                                               *)
Everywhere == 1 .. Len(hits) + Len(cached)

LEMMA FromEverywhere ==
  ASSUME TypeInv
  PROVE  \A i \in 1 .. Len(out) : from[i] \subseteq Everywhere
  BY Typed DEF TypeInv, TypeOK, Everywhere

LEMMA DomainsAgree ==
  ASSUME TypeInv
  PROVE  /\ DOMAIN out = 1 .. Len(out) /\ DOMAIN from = 1 .. Len(out)
         /\ InLoop => DOMAIN keys = 1 .. Len(out)
  BY Typed

LEMMA TypeInit == Init => TypeInv
<1> SUFFICES ASSUME Init PROVE TypeInv
  OBVIOUS
<1>1. hits \in Seq(External)
  BY DEF Init
<1>2. Len(hits) \in Nat
  BY <1>1
<1> QED BY <1>1, <1>2 DEF Init, TypeInv, TypeOK, InLoop, Places

LEMMA TypeNext == TypeInv /\ [Next]_vars => TypeInv'
<1> SUFFICES ASSUME TypeInv, [Next]_vars PROVE TypeInv'
  OBVIOUS
<1>1. CASE TakeNew
  <2> DEFINE hit == hits[taken + 1]
  <2>1. /\ hit \in Hit /\ KeysOf(hit) \in AllKeys /\ {taken + 1} \in Places
        /\ taken + 1 \in 1 .. Len(hits)
    BY <1>1, Typed DEF TakeNew, TypeInv, TypeOK, AllKeys, Places
  <2>2. /\ out' \in Seq(Hit) /\ Len(out') = Len(out) + 1
        /\ keys' \in Seq(AllKeys) /\ Len(keys') = Len(out) + 1
        /\ from' \in Seq(Places) /\ Len(from') = Len(out) + 1
        /\ \A i \in 1 .. Len(out) + 1 :
             from'[i] = IF i = Len(out) + 1 THEN {taken + 1} ELSE from[i]
    BY <1>1, <2>1, Typed DEF TakeNew, InLoop
  <2>3. \A i \in DOMAIN from' : from'[i] \subseteq 1 .. Len(hits) + Len(cached)
    <3>1. DOMAIN from' = 1 .. Len(out) + 1
      BY <2>2, Typed
    <3>2. {taken + 1} \subseteq 1 .. Len(hits) + Len(cached)
      BY <2>1, Typed
    <3>3. \A i \in 1 .. Len(out) : from[i] \subseteq 1 .. Len(hits) + Len(cached)
      BY FromEverywhere DEF Everywhere
    <3>4. \A i \in 1 .. Len(out) + 1 : i = Len(out) + 1 \/ i \in 1 .. Len(out)
      BY Typed
    <3> QED BY <2>2, <3>1, <3>2, <3>3, <3>4
  <2> QED BY <1>1, <2>1, <2>2, <2>3, Typed DEF TakeNew, TypeInv, TypeOK, InLoop
<1>2. CASE TakeMatch
  <2> DEFINE hit == hits[taken + 1]
  <2>1. /\ hit \in Hit /\ taken + 1 \in 1 .. Len(hits)
    BY <1>2, Typed DEF TakeMatch, TypeInv, TypeOK
  <2>2. PICK i \in 1 .. Len(out) :
          /\ out' = MergeInto(out, i, hit)
          /\ keys' = Rekeyed(keys, i, MergeHitMetadata(out[i], hit))
          /\ from' = [from EXCEPT ![i] = @ \cup {taken + 1}]
          /\ index' = i
    <3>1. DOMAIN keys = 1 .. Len(out)
      BY <1>2, DomainsAgree DEF TakeMatch, InLoop
    <3> QED BY <1>2, <3>1 DEF TakeMatch
  <2>3. /\ MergeHitMetadata(out[i], hit) \in Hit
        /\ KeysOf(MergeHitMetadata(out[i], hit)) \in AllKeys
    BY <2>1, Typed, MergedIsHit DEF AllKeys
  <2>4. /\ out' \in Seq(Hit) /\ Len(out') = Len(out)
        /\ keys' \in Seq(AllKeys) /\ Len(keys') = Len(out)
    BY <1>2, <2>2, <2>3, Typed DEF TakeMatch, MergeInto, Rekeyed, InLoop
  <2>5. /\ from' \in Seq(Places) /\ Len(from') = Len(out)
        /\ \A j \in 1 .. Len(out) :
             from'[j] = IF j = i THEN from[i] \cup {taken + 1} ELSE from[j]
    BY <2>1, <2>2, Typed DEF Places
  <2>6. \A j \in 1 .. Len(out) : from'[j] \subseteq Everywhere
    <3>1. {taken + 1} \subseteq Everywhere
      BY <2>1, Typed DEF Everywhere
    <3> QED BY <2>5, <3>1, FromEverywhere
  <2>7. Everywhere' = Everywhere /\ taken' \in 0 .. Len(hits)'
    BY <1>2, <2>1, Typed DEF TakeMatch, Everywhere, TypeInv, TypeOK
  <2> QED BY <1>2, <2>2, <2>4, <2>5, <2>6, <2>7, Typed
          DEF TakeMatch, TypeInv, TypeOK, InLoop, Everywhere
<1>3. CASE Absorb
  <2>1. \A i \in 1 .. Len(out) - 1 : from'[i] \subseteq Everywhere
    <3>1. PICK k \in 1 .. Len(out), r \in 1 .. Len(out) :
            \A i \in 1 .. Len(out) - 1 :
              from'[i] = IF i = k THEN from[k] \cup from[r]
                                  ELSE from[IF i < r THEN i ELSE i + 1]
      BY <1>3, AbsorbStep
    <3>2. \A i \in 1 .. Len(out) - 1 : i \in 1 .. Len(out) /\ i + 1 \in 1 .. Len(out)
      BY Typed
    <3> QED BY <3>1, <3>2, FromEverywhere
  <2>2. Everywhere' = Everywhere
    BY <1>3 DEF Absorb, Everywhere
  <2>3. /\ out' \in Seq(Hit) /\ keys' \in Seq(AllKeys) /\ from' \in Seq(Places)
        /\ Len(out') = Len(out) - 1 /\ Len(keys') = Len(out) - 1
        /\ Len(from') = Len(out) - 1
    BY <1>3, AbsorbStep
  <2>4. index' \in 1 .. Len(out) - 1 /\ candidate' \in 1 .. Len(out)
    <3>1. PICK k \in 1 .. Len(out), r \in 1 .. Len(out) : k < r /\ index' = k
      BY <1>3, AbsorbStep DEF Absorb
    <3> QED BY <1>3, <3>1, Typed DEF Absorb
  <2>5. UNCHANGED <<pc, hits, taken, cached, placed>>
    BY <1>3 DEF Absorb
  <2>6. \A i \in DOMAIN from' : from'[i] \subseteq 1 .. Len(hits') + Len(cached')
    <3>1. DOMAIN from' = 1 .. Len(out) - 1
      BY <2>3, Typed
    <3>2. Everywhere = 1 .. Len(hits') + Len(cached')
      BY <2>2 DEF Everywhere
    <3> QED BY <2>1, <3>1, <3>2
  <2>7. InLoop' /\ pc' = "recheck" /\ cached' = <<>> /\ placed' = 0
    BY <1>3, <2>5 DEF Absorb, InLoop, TypeInv
  <2>8. TypeOK'
    BY <2>3, <2>4, <2>5, <2>6, <2>7, Typed DEF TypeInv, TypeOK
  <2> QED BY <2>3, <2>7, <2>8 DEF TypeInv
<1>4. CASE PassOver
  BY <1>4, Typed DEF PassOver, TypeInv, TypeOK, InLoop
<1>5. CASE EndRecheck
  BY <1>5, Typed DEF EndRecheck, TypeInv, TypeOK, InLoop
<1>6. CASE SearchCached
  <2>1. cached' \in Seq(Cached) /\ Len(cached') \in Nat
    BY <1>6 DEF SearchCached, Surfaced, Lists
  <2>2. \A i \in DOMAIN from : from[i] \subseteq 1 .. Len(hits) + Len(cached')
    BY <1>6, <2>1, Typed DEF SearchCached, TypeInv, TypeOK, InLoop
  <2> QED BY <1>6, <2>1, <2>2, Typed DEF SearchCached, TypeInv, TypeOK, InLoop
<1>7. CASE PlaceAtEnd
  <2> DEFINE hit == cached[placed + 1]
  <2>1. /\ hit \in Hit /\ {Position} \in Places
        /\ Position \in 1 .. Len(hits) + Len(cached)
        /\ placed + 1 \in 1 .. Len(cached)
    BY <1>7, Typed DEF PlaceAtEnd, TypeInv, TypeOK, Position, Places
  <2>2. /\ out' \in Seq(Hit) /\ Len(out') = Len(out) + 1
        /\ from' \in Seq(Places) /\ Len(from') = Len(out) + 1
        /\ \A i \in 1 .. Len(out) + 1 :
             from'[i] = IF i = Len(out) + 1 THEN {Position} ELSE from[i]
    BY <1>7, <2>1, Typed DEF PlaceAtEnd
  <2>3. \A i \in 1 .. Len(out) + 1 : from'[i] \subseteq Everywhere
    <3>1. {Position} \subseteq Everywhere
      BY <2>1 DEF Everywhere
    <3>2. \A i \in 1 .. Len(out) + 1 : i = Len(out) + 1 \/ i \in 1 .. Len(out)
      BY Typed
    <3>3. ASSUME NEW i \in 1 .. Len(out), i # Len(out) + 1
          PROVE  from'[i] \subseteq Everywhere
      <4>1. i \in 1 .. Len(out) + 1
        BY Typed
      <4> QED BY <2>2, <3>3, <4>1, FromEverywhere
    <3>4. from'[Len(out) + 1] \subseteq Everywhere
      BY <2>2, <3>1, Typed
    <3> QED BY <3>2, <3>3, <3>4
  <2>4. Everywhere' = Everywhere
    BY <1>7 DEF PlaceAtEnd, Everywhere
  <2> QED BY <1>7, <2>1, <2>2, <2>3, <2>4, Typed
          DEF PlaceAtEnd, TypeInv, TypeOK, InLoop, Everywhere
<1>8. CASE ReplaceMatch
  <2> DEFINE hit == cached[placed + 1]
  <2>1. /\ hit \in Hit /\ placed + 1 \in 1 .. Len(cached)
        /\ Position \in 1 .. Len(hits) + Len(cached)
    BY <1>8, Typed DEF ReplaceMatch, TypeInv, TypeOK, Position
  <2>2. PICK i \in 1 .. Len(out) :
          /\ out' = Replaced(out, i, hit)
          /\ from' = [from EXCEPT ![i] = @ \cup {Position}]
    <3>1. DOMAIN out = 1 .. Len(out)
      BY DomainsAgree
    <3> QED BY <1>8, <3>1 DEF ReplaceMatch
  <2>3. MergeHitMetadata(hit, out[i]) \in Hit
    BY <2>1, Typed, MergedIsHit
  <2>4. out' \in Seq(Hit) /\ Len(out') = Len(out)
    BY <2>2, <2>3, Typed DEF Replaced
  <2>5. /\ from' \in Seq(Places) /\ Len(from') = Len(out)
        /\ \A j \in 1 .. Len(out) :
             from'[j] = IF j = i THEN from[i] \cup {Position} ELSE from[j]
    BY <2>1, <2>2, Typed DEF Places
  <2>6. \A j \in 1 .. Len(out) : from'[j] \subseteq Everywhere
    BY <2>1, <2>5, FromEverywhere DEF Everywhere
  <2>7. Everywhere' = Everywhere /\ placed' \in 0 .. Len(cached)'
    BY <1>8, <2>1, Typed DEF ReplaceMatch, Everywhere, TypeInv, TypeOK
  <2> QED BY <1>8, <2>4, <2>5, <2>6, <2>7, Typed
          DEF ReplaceMatch, TypeInv, TypeOK, InLoop, Everywhere
<1>9. CASE Finish
  BY <1>9, Typed DEF Finish, TypeInv, TypeOK, InLoop
<1>10. CASE Gather
  <2>1. /\ pc = "dedupe" /\ pc' = pc /\ Len(out) = 0 /\ Len(hits') \in Nat
        /\ hits' \in Seq(External)
        /\ UNCHANGED <<taken, out, keys, index, candidate, cached, placed, from>>
    BY <1>10 DEF Gather
  <2>2. taken = 0 /\ from = <<>> /\ Len(keys) = 0
    BY <1>10, <2>1, Typed DEF Gather, TypeInv, TypeOK, InLoop
  <2> QED BY <2>1, <2>2, Typed DEF TypeInv, TypeOK, InLoop
<1>11. CASE UNCHANGED vars
  BY <1>11 DEF vars, TypeInv, TypeOK, InLoop
<1> QED BY <1>1, <1>2, <1>3, <1>4, <1>5, <1>6, <1>7, <1>8, <1>9, <1>10, <1>11
        DEF Next, Dedupe, MergePreferCached

LEMMA TypeInvariant == Spec => []TypeInv
  BY TypeInit, TypeNext, PTL DEF Spec

(* Every variable of the merge keeps its kind; the index and the candidate *)
(* of the recheck stay within a list that shrinks under them.              *)
THEOREM TypeCorrect == Spec => []TypeOK
<1>1. TypeInv => TypeOK
  BY DEF TypeInv
<1> QED BY <1>1, TypeInvariant, PTL

-----------------------------------------------------------------------------
(* No two records are alike.  While the record that changed is compared    *)
(* with the others, only it may be like another one, and not like one it   *)
(* has been compared with.  The keys kept beside the records are theirs.   *)

KeysFresh == InLoop => \A i \in 1 .. Len(out) : keys[i] = KeysOf(out[i])

OthersApart ==
  pc = "recheck" => \A i, j \in 1 .. Len(out) :
    i # j /\ i # index /\ j # index => ~CompatibleIdentity(out[i], out[j])

ComparedApart ==
  pc = "recheck" => \A c \in 1 .. Len(out) :
    c < candidate /\ c # index => ~CompatibleIdentity(out[index], out[c])

DistinctInv == KeysFresh /\ NoTwoAlike /\ OthersApart /\ ComparedApart

LEMMA IdentitySymmetric ==
  \A g, h : CompatibleIdentity(g, h) <=> CompatibleIdentity(h, g)
  BY CompatibleSymmetric DEF CompatibleIdentity

LEMMA DistinctInit == Init => DistinctInv
  BY DEF Init, DistinctInv, KeysFresh, NoTwoAlike, OthersApart, ComparedApart

(* A hit that no key matches is unlike every record.                       *)
LEMMA DistinctTakeNew == TypeInv /\ DistinctInv /\ TakeNew => DistinctInv'
<1> SUFFICES ASSUME TypeInv, DistinctInv, TakeNew PROVE DistinctInv'
  OBVIOUS
<1> DEFINE hit == hits[taken + 1]
           n == Len(out) + 1
<1>1. pc = "dedupe" /\ pc' = "dedupe" /\ InLoop
  BY DEF TakeNew, InLoop
<1>2. out \in Seq(Hit) /\ Len(out) \in Nat /\ keys \in Seq(AllKeys) /\ Len(keys) = Len(out)
  BY <1>1, Typed
<1>3. /\ Len(out') = n /\ Len(keys') = n
      /\ out'[n] = hit /\ keys'[n] = KeysOf(hit)
      /\ \A i \in 1 .. Len(out) : out'[i] = out[i] /\ keys'[i] = keys[i]
      /\ DOMAIN out' = 1 .. n
  BY <1>2 DEF TakeNew
<1>4. \A i \in 1 .. Len(out) : ~CompatibleIdentity(out[i], hit)
  <2>1. \A i \in 1 .. Len(out) : ~Compatible(keys[i], KeysOf(hit))
    BY <1>2 DEF TakeNew
  <2> QED BY <1>1, <2>1 DEF DistinctInv, KeysFresh, CompatibleIdentity
<1> HIDE DEF hit
<1>5. \A i \in 1 .. n : i \in 1 .. Len(out) \/ i = n
  BY <1>2
<1>6. KeysFresh'
  BY <1>1, <1>3, <1>5 DEF DistinctInv, KeysFresh
<1>7. NoTwoAlike'
  <2> SUFFICES ASSUME NEW i \in 1 .. n, NEW j \in 1 .. n, i # j
               PROVE  ~CompatibleIdentity(out'[i], out'[j])
    BY <1>3 DEF NoTwoAlike
  <2>1. CASE i = n
    BY <1>3, <1>4, <1>5, <2>1, IdentitySymmetric
  <2>2. CASE j = n
    BY <1>3, <1>4, <1>5, <2>2
  <2>3. CASE i # n /\ j # n
    <3>1. i \in 1 .. Len(out) /\ j \in 1 .. Len(out)
      BY <1>5, <2>3
    <3>2. ~CompatibleIdentity(out[i], out[j])
      BY <1>1, <1>2, <3>1 DEF DistinctInv, NoTwoAlike
    <3> QED BY <1>3, <3>1, <3>2
  <2> QED BY <2>1, <2>2, <2>3
<1> QED BY <1>1, <1>6, <1>7 DEF DistinctInv, OthersApart, ComparedApart

(* The record that takes a hit in is the only one that changes.            *)
LEMMA DistinctTakeMatch == TypeInv /\ DistinctInv /\ TakeMatch => DistinctInv'
<1> SUFFICES ASSUME TypeInv, DistinctInv, TakeMatch PROVE DistinctInv'
  OBVIOUS
<1>1. pc = "dedupe" /\ pc' = "recheck" /\ InLoop /\ candidate' = 1
  BY DEF TakeMatch, InLoop
<1>2. /\ out \in Seq(Hit) /\ Len(out) \in Nat
      /\ keys \in Seq(AllKeys) /\ Len(keys) = Len(out)
      /\ DOMAIN out = 1 .. Len(out) /\ DOMAIN keys = 1 .. Len(out)
  BY <1>1, Typed
<1>3. PICK i \in 1 .. Len(out) :
        /\ out' = MergeInto(out, i, hits[taken + 1])
        /\ keys' = Rekeyed(keys, i, MergeHitMetadata(out[i], hits[taken + 1]))
        /\ index' = i
  BY <1>2 DEF TakeMatch
<1>4. /\ Len(out') = Len(out) /\ keys'[i] = KeysOf(out'[i])
      /\ \A j \in 1 .. Len(out) : j # i => out'[j] = out[j] /\ keys'[j] = keys[j]
  BY <1>2, <1>3 DEF MergeInto, Rekeyed
<1>5. KeysFresh'
  BY <1>1, <1>4 DEF DistinctInv, KeysFresh
<1>6. OthersApart'
  BY <1>1, <1>2, <1>3, <1>4 DEF DistinctInv, NoTwoAlike, OthersApart
<1>7. ComparedApart'
  BY <1>1 DEF ComparedApart
<1> QED BY <1>1, <1>5, <1>6, <1>7 DEF DistinctInv, NoTwoAlike

(* Of three records that stay, only the one that absorbed has changed; the *)
(* one that is gone is the other of the two that were compared.            *)
LEMMA DistinctAbsorb == TypeInv /\ DistinctInv /\ Absorb => DistinctInv'
<1> SUFFICES ASSUME TypeInv, DistinctInv, Absorb PROVE DistinctInv'
  OBVIOUS
<1>1. pc = "recheck" /\ pc' = "recheck" /\ InLoop /\ candidate' = 1 /\ Len(out) \in Nat
  BY Typed DEF Absorb, InLoop
<1>2. PICK k \in 1 .. Len(out), r \in 1 .. Len(out) :
        /\ k < r /\ k = Earlier(index, candidate) /\ r = Later(index, candidate)
        /\ Len(out') = Len(out) - 1
        /\ \A i \in 1 .. Len(out) - 1 :
             LET o == IF i < r THEN i ELSE i + 1 IN
             /\ out'[i] = IF i = k THEN MergeHitMetadata(out[k], out[r]) ELSE out[o]
             /\ keys'[i] = IF i = k THEN KeysOf(MergeHitMetadata(out[k], out[r]))
                                    ELSE keys[o]
  BY ZenonT(60), AbsorbStep
<1>3. index' = k /\ (index = k \/ index = r)
  BY <1>2 DEF Absorb, Earlier, Later
<1> DEFINE Old(i) == IF i < r THEN i ELSE i + 1
<1>4. \A i \in 1 .. Len(out) - 1 : i # k =>
        /\ Old(i) \in 1 .. Len(out) /\ Old(i) # k /\ Old(i) # r
        /\ out'[i] = out[Old(i)] /\ keys'[i] = keys[Old(i)]
  BY <1>1, <1>2
<1>5. \A i, j \in 1 .. Len(out) - 1 : i # j => Old(i) # Old(j)
  BY <1>1, <1>2
<1>6. out'[k] = MergeHitMetadata(out[k], out[r]) /\ keys'[k] = KeysOf(out'[k])
  BY <1>1, <1>2
<1> HIDE DEF Old
<1>7. KeysFresh'
  <2> SUFFICES ASSUME NEW i \in 1 .. Len(out) - 1 PROVE keys'[i] = KeysOf(out'[i])
    BY <1>2 DEF KeysFresh
  <2>1. CASE i = k
    BY <1>6, <2>1
  <2>2. CASE i # k
    BY <1>1, <1>4, <2>2 DEF DistinctInv, KeysFresh
  <2> QED BY <2>1, <2>2
<1>8. OthersApart'
  <2> SUFFICES ASSUME NEW i \in 1 .. Len(out) - 1, NEW j \in 1 .. Len(out) - 1,
                      i # j, i # k, j # k
               PROVE  ~CompatibleIdentity(out'[i], out'[j])
    BY <1>2, <1>3 DEF OthersApart
  <2>1. /\ Old(i) \in 1 .. Len(out) /\ Old(j) \in 1 .. Len(out)
        /\ Old(i) # index /\ Old(j) # index /\ Old(i) # Old(j)
    BY <1>3, <1>4, <1>5
  <2>2. ~CompatibleIdentity(out[Old(i)], out[Old(j)])
    BY <1>1, <2>1 DEF DistinctInv, OthersApart
  <2> QED BY <1>4, <2>2
<1>9. ComparedApart'
  BY <1>1 DEF ComparedApart
<1> QED BY <1>1, <1>7, <1>8, <1>9 DEF DistinctInv, NoTwoAlike

(* One more record is known to be unlike the one that changed.             *)
LEMMA DistinctPassOver == TypeInv /\ DistinctInv /\ PassOver => DistinctInv'
<1> SUFFICES ASSUME TypeInv, DistinctInv, PassOver PROVE DistinctInv'
  OBVIOUS
<1>1. /\ pc = "recheck" /\ pc' = "recheck" /\ InLoop
      /\ candidate' = candidate + 1
      /\ UNCHANGED <<out, keys, index>>
      /\ Len(out) \in Nat
      /\ index \in 1 .. Len(out) /\ candidate \in 1 .. Len(out)
  BY Typed DEF PassOver, InLoop, TypeInv, TypeOK
<1>2. candidate # index => ~CompatibleIdentity(out[index], out[candidate])
  BY <1>1 DEF PassOver, DistinctInv, KeysFresh, CompatibleIdentity
<1>3. ComparedApart'
  <2>1. \A c \in 1 .. Len(out) : c < candidate + 1 <=> c < candidate \/ c = candidate
    BY <1>1
  <2> QED BY <1>1, <1>2, <2>1 DEF DistinctInv, ComparedApart
<1> QED BY <1>1, <1>3 DEF DistinctInv, KeysFresh, NoTwoAlike, OthersApart, InLoop

(* It is unlike all of them.                                               *)
LEMMA DistinctEndRecheck == TypeInv /\ DistinctInv /\ EndRecheck => DistinctInv'
<1> SUFFICES ASSUME TypeInv, DistinctInv, EndRecheck PROVE DistinctInv'
  OBVIOUS
<1>1. /\ pc = "recheck" /\ pc' = "dedupe" /\ InLoop
      /\ UNCHANGED <<out, keys>>
      /\ Len(out) \in Nat /\ DOMAIN out = 1 .. Len(out)
      /\ index \in 1 .. Len(out)
      /\ \A c \in 1 .. Len(out) : c < candidate
  BY Typed DEF EndRecheck, InLoop, TypeInv, TypeOK
<1>2. NoTwoAlike'
  <2> SUFFICES ASSUME NEW i \in 1 .. Len(out), NEW j \in 1 .. Len(out), i # j
               PROVE  ~CompatibleIdentity(out[i], out[j])
    BY <1>1 DEF NoTwoAlike
  <2>1. CASE i = index
    BY <1>1, <2>1 DEF DistinctInv, ComparedApart
  <2>2. CASE j = index
    BY <1>1, <2>2, IdentitySymmetric DEF DistinctInv, ComparedApart
  <2>3. CASE i # index /\ j # index
    BY <1>1, <2>3 DEF DistinctInv, OthersApart
  <2> QED BY <2>1, <2>2, <2>3
<1> QED BY <1>1, <1>2 DEF DistinctInv, KeysFresh, OthersApart, ComparedApart, InLoop

LEMMA DistinctNext == TypeInv /\ DistinctInv /\ [Next]_vars => DistinctInv'
<1> SUFFICES ASSUME TypeInv, DistinctInv, [Next]_vars PROVE DistinctInv'
  OBVIOUS
<1>1. CASE SearchCached \/ MergePreferCached
  BY <1>1 DEF SearchCached, MergePreferCached, PlaceAtEnd, ReplaceMatch, Finish,
     DistinctInv, KeysFresh, NoTwoAlike, OthersApart, ComparedApart, InLoop
<1>2. CASE UNCHANGED vars
  BY <1>2 DEF vars, DistinctInv, KeysFresh, NoTwoAlike, OthersApart,
     ComparedApart, InLoop
<1>3. CASE Gather
  BY <1>3 DEF Gather, DistinctInv, KeysFresh, NoTwoAlike, OthersApart,
     ComparedApart, InLoop
<1> QED BY <1>1, <1>2, <1>3, DistinctTakeNew, DistinctTakeMatch, DistinctAbsorb,
           DistinctPassOver, DistinctEndRecheck
        DEF Next, Dedupe

(* Whenever dedupe takes the next hit, and so when it returns, no two of   *)
(* its records are compatible, however many hits there are.                *)
THEOREM DedupeLeavesNoPair == Spec => []NoTwoAlike
<1>1. TypeInv /\ DistinctInv /\ [Next]_vars => DistinctInv'
  BY DistinctNext
<1>2. DistinctInv => NoTwoAlike
  BY DEF DistinctInv
<1> QED BY <1>1, <1>2, DistinctInit, TypeInvariant, PTL DEF Spec

-----------------------------------------------------------------------------
(* A record shows the identifiers of all its hits.                         *)

AllTexts == Identifiers \cup Keyless \cup {Blank, None}

LEMMA IdsAreTexts ==
  ASSUME NEW h \in Hit, NEW k \in Kinds
  PROVE  h.ids[k] \in AllTexts
  BY DEF Hit, AllTexts

LEMMA ShowsOwn ==
  ASSUME NEW text \in AllTexts
  PROVE  Shows(text, {text})
  BY DEF Shows, AllTexts

(* The veto is what makes promotion safe.                                  *)
LEMMA ShowsBoth ==
  ASSUME NEW a \in AllTexts, NEW b \in AllTexts, NEW S, NEW T,
         Shows(a, S), Shows(b, T), ~Conflict(Key(a), Key(b))
  PROVE  Shows(IF a \in {None, Blank} THEN b ELSE a, S \cup T)
<1> SUFFICES ASSUME (S \cup T) \cap Keyless = {}
             PROVE  Shows(IF a \in {None, Blank} THEN b ELSE a, S \cup T)
  BY DEF Shows
<1>1. S \cap Keyless = {} /\ T \cap Keyless = {}
  OBVIOUS
<1>2. (S \cup T) \cap Identifiers = (S \cap Identifiers) \cup (T \cap Identifiers)
  OBVIOUS
<1>3. CASE S \cap Identifiers = {}
  <2>1. a \in {None, Blank}
    BY <1>1, <1>3 DEF Shows
  <2> QED BY <1>1, <1>2, <1>3, <2>1 DEF Shows
<1>4. CASE S \cap Identifiers # {}
  <2>1. S \cap Identifiers = {a} /\ a \in Identifiers /\ a \notin {None, Blank}
    BY <1>1, <1>4, TextsAssumption DEF Shows
  <2>2. T \cap Identifiers \subseteq {a}
    <3>1. CASE T \cap Identifiers = {}
      BY <3>1
    <3>2. CASE T \cap Identifiers # {}
      <4>1. T \cap Identifiers = {b} /\ b \in Identifiers
        BY <1>1, <3>2 DEF Shows
      <4>2. a = b
        BY <2>1, <4>1, TextsAssumption DEF Conflict, Key
      <4> QED BY <4>1, <4>2
    <3> QED BY <3>1, <3>2
  <2> QED BY <1>2, <2>1, <2>2 DEF Shows
<1> QED BY <1>3, <1>4

LEMMA MergeShows ==
  ASSUME NEW g \in Hit, NEW h \in Hit, NEW k \in Kinds, NEW S, NEW T,
         Shows(g.ids[k], S), Shows(h.ids[k], T),
         CompatibleIdentity(g, h)
  PROVE  Shows(MergeHitMetadata(g, h).ids[k], S \cup T)
<1>1. ~Conflict(Key(g.ids[k]), Key(h.ids[k]))
  BY DEF CompatibleIdentity, Compatible, KeysOf
<1>2. MergeHitMetadata(g, h).ids[k]
        = IF g.ids[k] \in {None, Blank} THEN h.ids[k] ELSE g.ids[k]
  BY DEF MergeHitMetadata
<1>3. g.ids[k] \in AllTexts /\ h.ids[k] \in AllTexts
  BY IdsAreTexts
<1> QED BY <1>1, <1>2, <1>3, ShowsBoth

LEMMA TextsOfUnion ==
  ASSUME NEW P, NEW Q, NEW k
  PROVE  TextsAt(P \cup Q, k) = TextsAt(P, k) \cup TextsAt(Q, k)
  BY DEF TextsAt

LEMMA TextsOfOne ==
  ASSUME NEW p, NEW k
  PROVE  TextsAt({p}, k) = {InputAt(p).ids[k]}
  BY DEF TextsAt

Agree(h, P) == \A k \in Kinds : Shows(h.ids[k], TextsAt(P, k))

LEMMA AgreeMerged ==
  ASSUME NEW g \in Hit, NEW h \in Hit, NEW P, NEW Q,
         Agree(g, P), Agree(h, Q), CompatibleIdentity(g, h)
  PROVE  Agree(MergeHitMetadata(g, h), P \cup Q)
  BY MergeShows, TextsOfUnion DEF Agree

LEMMA AgreeInput ==
  ASSUME NEW p, InputAt(p) \in Hit
  PROVE  Agree(InputAt(p), {p})
  BY ShowsOwn, IdsAreTexts, TextsOfOne DEF Agree

(* While the inputs stay, what the records are now can be said of the next *)
(* state without a prime on them.                                          *)
LEMMA AgreeNext ==
  ASSUME UNCHANGED <<hits, cached>>,
         \A i \in DOMAIN out' : Agree(out'[i], from'[i])
  PROVE  IdentifiersAgree'
  BY DEF IdentifiersAgree, Agree, TextsAt, InputAt

(* A record and the positions beside it, by the record's number.           *)
LEMMA AgreeOf ==
  ASSUME TypeInv, IdentifiersAgree
  PROVE  \A j \in 1 .. Len(out) : Agree(out[j], from[j])
<1>1. DOMAIN out = 1 .. Len(out)
  BY DomainsAgree
<1>2. \A j \in DOMAIN out : Agree(out[j], from[j])
  BY ZenonT(30) DEF IdentifiersAgree, Agree
<1> QED BY <1>1, <1>2

LEMMA AgreeTakeNew == TypeInv /\ IdentifiersAgree /\ TakeNew => IdentifiersAgree'
<1> SUFFICES ASSUME TypeInv, IdentifiersAgree, TakeNew PROVE IdentifiersAgree'
  OBVIOUS
<1> DEFINE p == taken + 1
           n == Len(out) + 1
<1>1. InputAt(p) = hits[p] /\ hits[p] \in Hit
  BY Typed DEF TakeNew, InputAt
<1>2. Agree(hits[p], {p})
  BY <1>1, AgreeInput
<1>3. /\ DOMAIN out' = 1 .. n /\ out'[n] = hits[p] /\ from'[n] = {p}
      /\ \A i \in 1 .. Len(out) : out'[i] = out[i] /\ from'[i] = from[i]
      /\ \A i \in 1 .. n : i = n \/ i \in 1 .. Len(out)
  BY Typed DEF TakeNew
<1>4. \A i \in 1 .. Len(out) : Agree(out[i], from[i])
  BY AgreeOf
<1> HIDE DEF p, n
<1>5. \A i \in 1 .. n : Agree(out'[i], from'[i])
  <2> SUFFICES ASSUME NEW i \in 1 .. n PROVE Agree(out'[i], from'[i])
    OBVIOUS
  <2>1. CASE i = n
    BY <1>2, <1>3, <2>1
  <2>2. CASE i \in 1 .. Len(out)
    BY <1>3, <1>4, <2>2
  <2> QED BY <1>3, <2>1, <2>2
<1>6. UNCHANGED <<hits, cached>>
  BY DEF TakeNew
<1> QED BY <1>3, <1>5, <1>6, AgreeNext

LEMMA AgreeTakeMatch ==
  TypeInv /\ KeysFresh /\ IdentifiersAgree /\ TakeMatch => IdentifiersAgree'
<1> SUFFICES ASSUME TypeInv, KeysFresh, IdentifiersAgree, TakeMatch
             PROVE  IdentifiersAgree'
  OBVIOUS
<1> DEFINE p == taken + 1
<1>1. InputAt(p) = hits[p] /\ hits[p] \in Hit
  BY Typed DEF TakeMatch, InputAt
<1>2. Agree(hits[p], {p})
  BY <1>1, AgreeInput
<1>3. /\ InLoop /\ DOMAIN keys = 1 .. Len(out) /\ DOMAIN out = 1 .. Len(out)
      /\ out \in Seq(Hit) /\ from \in Seq(Places) /\ Len(from) = Len(out)
  BY Typed DEF TakeMatch, InLoop
<1>4. PICK i \in 1 .. Len(out) :
        /\ Compatible(keys[i], KeysOf(hits[p]))
        /\ out' = MergeInto(out, i, hits[p])
        /\ from' = [from EXCEPT ![i] = from[i] \cup {p}]
  BY <1>3 DEF TakeMatch
<1>5. \A j \in 1 .. Len(out) : Agree(out[j], from[j])
  BY AgreeOf
<1>6. CompatibleIdentity(out[i], hits[p]) /\ out[i] \in Hit
  BY <1>3, <1>4 DEF KeysFresh, CompatibleIdentity
<1>7. Agree(MergeHitMetadata(out[i], hits[p]), from[i] \cup {p})
  BY <1>1, <1>2, <1>5, <1>6, AgreeMerged
<1>8. /\ DOMAIN out' = 1 .. Len(out)
      /\ out'[i] = MergeHitMetadata(out[i], hits[p]) /\ from'[i] = from[i] \cup {p}
      /\ \A j \in 1 .. Len(out) : j # i => out'[j] = out[j] /\ from'[j] = from[j]
  BY <1>3, <1>4 DEF MergeInto
<1> HIDE DEF p
<1>9. \A j \in 1 .. Len(out) : Agree(out'[j], from'[j])
  BY <1>5, <1>7, <1>8
<1>10. UNCHANGED <<hits, cached>>
  BY DEF TakeMatch
<1> QED BY <1>8, <1>9, <1>10, AgreeNext

LEMMA AgreeAbsorb ==
  TypeInv /\ KeysFresh /\ IdentifiersAgree /\ Absorb => IdentifiersAgree'
<1> SUFFICES ASSUME TypeInv, KeysFresh, IdentifiersAgree, Absorb
             PROVE  IdentifiersAgree'
  OBVIOUS
<1>1. /\ InLoop /\ Len(out) \in Nat /\ out \in Seq(Hit)
      /\ index \in 1 .. Len(out) /\ candidate \in 1 .. Len(out)
  BY Typed DEF Absorb, InLoop, TypeInv, TypeOK
<1>2. PICK k \in 1 .. Len(out), r \in 1 .. Len(out) :
        /\ k < r /\ k = Earlier(index, candidate) /\ r = Later(index, candidate)
        /\ out' \in Seq(Hit) /\ Len(out') = Len(out) - 1
        /\ \A i \in 1 .. Len(out) - 1 :
             LET o == IF i < r THEN i ELSE i + 1 IN
             /\ out'[i] = IF i = k THEN MergeHitMetadata(out[k], out[r]) ELSE out[o]
             /\ from'[i] = IF i = k THEN from[k] \cup from[r] ELSE from[o]
  BY ZenonT(60), AbsorbStep
<1>3. CompatibleIdentity(out[k], out[r])
  <2>1. CompatibleIdentity(out[index], out[candidate])
    <3>1. keys[index] = KeysOf(out[index]) /\ keys[candidate] = KeysOf(out[candidate])
      BY <1>1 DEF KeysFresh
    <3>2. Compatible(keys[index], keys[candidate])
      BY DEF Absorb
    <3> QED BY <3>1, <3>2 DEF CompatibleIdentity
  <2> QED BY <1>2, <2>1, IdentitySymmetric DEF Earlier, Later
<1>4. \A j \in 1 .. Len(out) : Agree(out[j], from[j])
  BY AgreeOf
<1>5. Agree(MergeHitMetadata(out[k], out[r]), from[k] \cup from[r])
  BY <1>1, <1>3, <1>4, AgreeMerged
<1>6. ASSUME NEW i \in 1 .. Len(out) - 1 PROVE Agree(out'[i], from'[i])
  <2>1. CASE i = k
    BY <1>2, <1>5, <2>1
  <2>2. CASE i # k
    <3>1. i \in 1 .. Len(out) /\ i + 1 \in 1 .. Len(out)
      BY <1>1
    <3> QED BY <1>2, <1>4, <2>2, <3>1
  <2> QED BY <2>1, <2>2
<1>7. DOMAIN out' = 1 .. Len(out) - 1 /\ UNCHANGED <<hits, cached>>
  BY <1>1, <1>2 DEF Absorb
<1> QED BY <1>6, <1>7, AgreeNext

(* The copies come behind the hits, so the positions taken keep their      *)
(* inputs.                                                                 *)
LEMMA AgreeSearchCached ==
  TypeInv /\ IdentifiersAgree /\ SearchCached => IdentifiersAgree'
<1> SUFFICES ASSUME TypeInv, IdentifiersAgree, SearchCached PROVE IdentifiersAgree'
  OBVIOUS
<1>1. UNCHANGED <<hits, out, from>> /\ InLoop
  BY DEF SearchCached, InLoop
<1>2. \A i \in DOMAIN out : \A p \in from[i] : p <= Len(hits)
  <2>1. Len(cached) = 0 /\ Len(hits) \in Nat
    BY <1>1, Typed DEF TypeInv
  <2>2. Everywhere = 1 .. Len(hits)
    BY <2>1 DEF Everywhere
  <2> QED BY <2>1, <2>2, FromEverywhere, DomainsAgree
<1>3. \A i \in DOMAIN out, k \in Kinds :
        {InputAt(p)'.ids[k] : p \in from[i]} = {InputAt(p).ids[k] : p \in from[i]}
  BY <1>1, <1>2 DEF InputAt
<1> QED BY <1>1, <1>3 DEF IdentifiersAgree, TextsAt

LEMMA AgreePlaceAtEnd == TypeInv /\ IdentifiersAgree /\ PlaceAtEnd => IdentifiersAgree'
<1> SUFFICES ASSUME TypeInv, IdentifiersAgree, PlaceAtEnd PROVE IdentifiersAgree'
  OBVIOUS
<1> DEFINE hit == cached[placed + 1]
           n == Len(out) + 1
<1>1. InputAt(Position) = hit /\ hit \in Hit
  BY Typed DEF PlaceAtEnd, InputAt, Position
<1>2. Agree(hit, {Position})
  BY <1>1, AgreeInput
<1>3. /\ DOMAIN out' = 1 .. n /\ out'[n] = hit /\ from'[n] = {Position}
      /\ \A i \in 1 .. Len(out) : out'[i] = out[i] /\ from'[i] = from[i]
      /\ \A i \in 1 .. n : i = n \/ i \in 1 .. Len(out)
  BY Typed DEF PlaceAtEnd
<1>4. \A i \in 1 .. Len(out) : Agree(out[i], from[i])
  BY AgreeOf
<1> HIDE DEF hit, n
<1>5. \A i \in 1 .. n : Agree(out'[i], from'[i])
  <2> SUFFICES ASSUME NEW i \in 1 .. n PROVE Agree(out'[i], from'[i])
    OBVIOUS
  <2>1. CASE i = n
    BY <1>2, <1>3, <2>1
  <2>2. CASE i \in 1 .. Len(out)
    BY <1>3, <1>4, <2>2
  <2> QED BY <1>3, <2>1, <2>2
<1>6. UNCHANGED <<hits, cached>>
  BY DEF PlaceAtEnd
<1> QED BY <1>3, <1>5, <1>6, AgreeNext

LEMMA AgreeReplaceMatch ==
  TypeInv /\ IdentifiersAgree /\ ReplaceMatch => IdentifiersAgree'
<1> SUFFICES ASSUME TypeInv, IdentifiersAgree, ReplaceMatch PROVE IdentifiersAgree'
  OBVIOUS
<1> DEFINE hit == cached[placed + 1]
<1>1. InputAt(Position) = hit /\ hit \in Hit
  BY Typed DEF ReplaceMatch, InputAt, Position
<1>2. Agree(hit, {Position})
  BY <1>1, AgreeInput
<1>3. /\ DOMAIN out = 1 .. Len(out) /\ out \in Seq(Hit)
      /\ from \in Seq(Places) /\ Len(from) = Len(out)
  BY Typed
<1>4. PICK i \in 1 .. Len(out) :
        /\ CompatibleIdentity(out[i], hit)
        /\ out' = Replaced(out, i, hit)
        /\ from' = [from EXCEPT ![i] = from[i] \cup {Position}]
  BY <1>3 DEF ReplaceMatch
<1>5. \A j \in 1 .. Len(out) : Agree(out[j], from[j])
  BY AgreeOf
<1>6. CompatibleIdentity(hit, out[i]) /\ out[i] \in Hit
  BY <1>3, <1>4, IdentitySymmetric
<1>7. Agree(MergeHitMetadata(hit, out[i]), from[i] \cup {Position})
  <2>1. Agree(MergeHitMetadata(hit, out[i]), {Position} \cup from[i])
    BY <1>1, <1>2, <1>5, <1>6, AgreeMerged
  <2>2. {Position} \cup from[i] = from[i] \cup {Position}
    OBVIOUS
  <2> QED BY <2>1, <2>2
<1>8. /\ DOMAIN out' = 1 .. Len(out)
      /\ out'[i] = MergeHitMetadata(hit, out[i])
      /\ from'[i] = from[i] \cup {Position}
      /\ \A j \in 1 .. Len(out) : j # i => out'[j] = out[j] /\ from'[j] = from[j]
  BY <1>3, <1>4 DEF Replaced
<1> HIDE DEF hit
<1>9. \A j \in 1 .. Len(out) : Agree(out'[j], from'[j])
  BY <1>5, <1>7, <1>8
<1>10. UNCHANGED <<hits, cached>>
  BY DEF ReplaceMatch
<1> QED BY <1>8, <1>9, <1>10, AgreeNext

LEMMA AgreeStep ==
  TypeInv /\ KeysFresh /\ IdentifiersAgree /\ [Next]_vars => IdentifiersAgree'
<1> SUFFICES ASSUME TypeInv, KeysFresh, IdentifiersAgree, [Next]_vars
             PROVE  IdentifiersAgree'
  OBVIOUS
<1>1. CASE UNCHANGED <<hits, cached, out, from>>
  <2>1. \A i \in DOMAIN out : Agree(out[i], from[i])
    BY DEF IdentifiersAgree, Agree
  <2>2. \A i \in DOMAIN out' : Agree(out'[i], from'[i])
    BY <1>1, <2>1
  <2> QED BY <1>1, <2>2, AgreeNext
<1>2. PassOver \/ EndRecheck \/ Finish \/ UNCHANGED vars
        => UNCHANGED <<hits, cached, out, from>>
  BY DEF PassOver, EndRecheck, Finish, vars
<1>3. CASE Gather
  BY <1>3 DEF Gather, IdentifiersAgree
<1> QED BY <1>1, <1>2, <1>3, AgreeTakeNew, AgreeTakeMatch, AgreeAbsorb,
           AgreeSearchCached, AgreePlaceAtEnd, AgreeReplaceMatch
        DEF Next, Dedupe, MergePreferCached

(* For any number of hits and copies, a record mixes no hits whose strong  *)
(* identifiers contradict each other and shows those they have.            *)
THEOREM IdentifiersNeverMix == Spec => []IdentifiersAgree
<1>1. Init => DistinctInv /\ IdentifiersAgree
  BY DistinctInit DEF Init, IdentifiersAgree
<1>2. TypeInv /\ DistinctInv /\ IdentifiersAgree /\ [Next]_vars
        => (DistinctInv /\ IdentifiersAgree)'
  BY DistinctNext, AgreeStep DEF DistinctInv
<1> QED BY <1>1, <1>2, TypeInvariant, PTL DEF Spec

-----------------------------------------------------------------------------
(* Natural numbers: a set of them has a least element.                     *)

LEMMA LeastNumber ==
  ASSUME NEW S \in SUBSET Nat, S # {}
  PROVE  \E x \in S : \A y \in S : x =< y
<1>. DEFINE R == {p \in Nat \X Nat : p[1] < p[2]}
<1>1. IsWellFoundedOn(R, Nat)
  BY NatLessThanWellFounded, Zenon DEF OpToRel
<1>2. \A x, y \in Nat : <<y, x>> \in R <=> y < x
  OBVIOUS
<1>. HIDE DEF R
<1>3. PICK x \in S : \A y \in S : ~(<<y, x>> \in R)
  BY <1>1, WFMin
<1>4. ASSUME NEW y \in S PROVE x =< y
  <2>1. x \in Nat /\ y \in Nat /\ ~(y < x)
    BY <1>2, <1>3
  <2>. QED BY <2>1
<1>. QED BY <1>4

-----------------------------------------------------------------------------
(* Lists of lists.                                                         *)

LEMMA FunctionIsList ==
  ASSUME NEW T, NEW n \in Nat, NEW f \in [1 .. n -> T]
  PROVE  f \in Seq(T) /\ Len(f) = n
OBVIOUS

(* f holds the concatenations of the first one, two, ... lists of L.       *)
Flattens(f, L, n) ==
  f = [i \in 1 .. n |-> IF i = 1 THEN L[i] ELSE f[i - 1] \o L[i]]

LEMMA FlattenerExists ==
  ASSUME NEW L, NEW N \in Nat, N >= 1
  PROVE  \E f : Flattens(f, L, N)
<1>. DEFINE Bad == {n \in Nat : n >= 1 /\ ~\E f : Flattens(f, L, n)}
<1>1. SUFFICES ASSUME Bad # {} PROVE FALSE
  OBVIOUS
<1>2. PICK n \in Bad : \A m \in Bad : n =< m
  BY <1>1, LeastNumber, Bad \in SUBSET Nat
<1>3. n \in Nat /\ n >= 1 /\ ~\E f : Flattens(f, L, n)
  OBVIOUS
<1>4. CASE n = 1
  <2>. DEFINE f == [i \in 1 .. 1 |-> L[i]]
  <2>1. \A i \in 1 .. 1 : i = 1
    OBVIOUS
  <2>2. Flattens(f, L, 1)
    BY <2>1 DEF Flattens
  <2>. QED BY <1>3, <1>4, <2>2
<1>5. CASE n # 1
  <2>1. n - 1 \in Nat /\ n - 1 >= 1 /\ n - 1 \notin Bad
    BY <1>2, <1>3, <1>5
  <2>2. PICK g : Flattens(g, L, n - 1)
    BY <2>1
  <2>. DEFINE f == [i \in 1 .. n |-> IF i = n THEN g[n - 1] \o L[n] ELSE g[i]]
              h == [i \in 1 .. n |-> IF i = 1 THEN L[i] ELSE f[i - 1] \o L[i]]
  <2>6. \A i \in 1 .. n : h[i] = IF i = 1 THEN L[i] ELSE f[i - 1] \o L[i]
    OBVIOUS
  <2>7. \A i \in 1 .. n : f[i] = IF i = n THEN g[n - 1] \o L[n] ELSE g[i]
    OBVIOUS
  <2>8. DOMAIN f = 1 .. n /\ DOMAIN h = 1 .. n
    OBVIOUS
  <2>9. f = [i \in 1 .. n |-> f[i]] /\ h = [i \in 1 .. n |-> h[i]]
    OBVIOUS
  <2>10. h = [i \in 1 .. n |-> IF i = 1 THEN L[i] ELSE f[i - 1] \o L[i]]
    OBVIOUS
  <2>. HIDE DEF f, h
  <2>3. ASSUME NEW i \in 1 .. n PROVE f[i] = h[i]
    <3>1. CASE i = n
      <4>1. n \in 1 .. n /\ n - 1 \in 1 .. n /\ n - 1 # n
        BY <1>3, <1>5, <2>1
      <4>2. f[n - 1] = g[n - 1] /\ f[n] = g[n - 1] \o L[n]
        BY <2>7, <4>1
      <4>3. h[n] = f[n - 1] \o L[n]
        BY <1>5, <2>6, <4>1
      <4>. QED BY <3>1, <4>2, <4>3
    <3>2. CASE i = 1
      <4>1. g[1] = L[1]
        BY <2>1, <2>2 DEF Flattens
      <4>. QED BY <1>3, <1>5, <2>6, <2>7, <3>2, <4>1
    <3>3. CASE i # n /\ i # 1
      <4>1. i \in 1 .. n - 1 /\ i - 1 \in 1 .. n - 1 /\ i - 1 # n
        BY <1>3, <3>3
      <4>2. g[i] = g[i - 1] \o L[i]
        BY <2>2, <3>3, <4>1 DEF Flattens
      <4>3. f[i] = g[i] /\ f[i - 1] = g[i - 1]
        BY <2>7, <3>3, <4>1
      <4>4. h[i] = f[i - 1] \o L[i]
        BY <2>6, <3>3
      <4>. QED BY <4>2, <4>3, <4>4
    <3>. QED BY <3>1, <3>2, <3>3
  <2>4. f = h
    BY <2>3, <2>9
  <2>5. Flattens(f, L, n)
    BY <2>4, <2>10 DEF Flattens
  <2>. QED BY <1>3, <2>5
<1>. QED BY <1>4, <1>5

(* FlattenSeq is the last of these concatenations.                         *)
LEMMA FlattenSeqIs ==
  ASSUME NEW S, NEW L \in Seq(Seq(S)), L # <<>>
  PROVE  \E f : /\ FlattenSeq(L) = f[Len(L)]
                /\ f[1] = L[1]
                /\ \A i \in 2 .. Len(L) : f[i] = f[i - 1] \o L[i]
<1>. DEFINE f == CHOOSE g : Flattens(g, L, Len(L))
<1>1. Len(L) \in Nat /\ Len(L) # 0 /\ Len(L) >= 1
  OBVIOUS
<1>2. FlattenSeq(L) = f[Len(L)]
  BY <1>1, Zenon DEF FlattenSeq, Flattens
<1>3. Flattens(f, L, Len(L))
  <2>1. \E g : Flattens(g, L, Len(L))
    BY <1>1, FlattenerExists, Zenon
  <2>. QED BY <2>1, Zenon
<1>. HIDE DEF f
<1>4. \A i \in 1 .. Len(L) :
        f[i] = IF i = 1 THEN L[i] ELSE f[i - 1] \o L[i]
  <2>. DEFINE F(i) == IF i = 1 THEN L[i] ELSE f[i - 1] \o L[i]
  <2>1. f = [i \in 1 .. Len(L) |-> F(i)]
    BY <1>3, Zenon DEF Flattens
  <2>. HIDE DEF F
  <2>2. \A i \in 1 .. Len(L) : f[i] = F(i)
    BY <2>1
  <2>. QED BY <2>2 DEF F
<1>5. 1 \in 1 .. Len(L) /\ \A i \in 2 .. Len(L) : i \in 1 .. Len(L) /\ i # 1
  BY <1>1
<1>6. f[1] = L[1] /\ \A i \in 2 .. Len(L) : f[i] = f[i - 1] \o L[i]
  BY <1>4, <1>5
<1>. QED BY <1>2, <1>6
(* No element occurs in two of the lists, or twice in one of them.         *)
AllDifferent(L) ==
  \A m, n \in 1 .. Len(L) : \A i \in 1 .. Len(L[m]), j \in 1 .. Len(L[n]) :
    L[m][i] = L[n][j] => m = n /\ i = j

(* g holds the elements of the first n lists of L, and no others; each     *)
(* once if they are all different.                                         *)
HoldsFirst(g, L, n) ==
  /\ \A m \in 1 .. n : \A i \in 1 .. Len(L[m]) :
       \E j \in 1 .. Len(g) : g[j] = L[m][i]
  /\ \A j \in 1 .. Len(g) : \E m \in 1 .. n : \E i \in 1 .. Len(L[m]) :
       g[j] = L[m][i]
  /\ AllDifferent(L) => \A i, j \in 1 .. Len(g) : g[i] = g[j] => i = j

LEMMA EachOnce ==
  ASSUME NEW L, AllDifferent(L), NEW n \in 1 .. Len(L)
  PROVE  \A i, j \in 1 .. Len(L[n]) : L[n][i] = L[n][j] => i = j
<1>. DEFINE D == 1 .. Len(L)
            E(m) == 1 .. Len(L[m])
<1>1. \A m, k \in D : \A i \in E(m), j \in E(k) : L[m][i] = L[k][j] => i = j
  BY DEF AllDifferent
<1>2. n \in D
  OBVIOUS
<1>. HIDE DEF D, E
<1>3. \A i, j \in E(n) : L[n][i] = L[n][j] => i = j
  BY <1>1, <1>2
<1>. QED BY <1>3 DEF E

LEMMA ApartInTwo ==
  ASSUME NEW L, AllDifferent(L), NEW m \in 1 .. Len(L), NEW n \in 1 .. Len(L),
         m # n
  PROVE  \A i \in 1 .. Len(L[m]) : \A j \in 1 .. Len(L[n]) : L[m][i] # L[n][j]
BY DEF AllDifferent

LEMMA HoldsNext ==
  ASSUME NEW S, NEW L \in Seq(Seq(S)), NEW n \in 2 .. Len(L),
         NEW g \in Seq(S), HoldsFirst(g, L, n - 1)
  PROVE  /\ g \o L[n] \in Seq(S)
         /\ HoldsFirst(g \o L[n], L, n)
<1>. DEFINE e == L[n]
            h == g \o e
<1>1. n \in 1 .. Len(L) /\ n \in Nat /\ n - 1 \in Nat /\ Len(L) \in Nat
  OBVIOUS
<1>2. e \in Seq(S) /\ \A m \in 1 .. Len(L) : L[m] \in Seq(S)
  BY <1>1
<1>3. \A m \in 1 .. Len(L) : Len(L[m]) \in Nat
  BY <1>2
<1>4. Len(g) \in Nat /\ Len(e) \in Nat
  BY <1>2
<1>5. /\ h \in Seq(S) /\ Len(h) = Len(g) + Len(e)
      /\ \A i \in 1 .. Len(g) : h[i] = g[i]
      /\ \A i \in 1 .. Len(e) : h[Len(g) + i] = e[i]
  BY <1>2
<1>6. \A j \in 1 .. Len(h) :
        j \in 1 .. Len(g) \/ (j - Len(g) \in 1 .. Len(e) /\ h[j] = e[j - Len(g)])
  BY <1>4, <1>5
<1>. HIDE DEF h
<1>7. ASSUME NEW m \in 1 .. n, NEW i \in 1 .. Len(L[m])
      PROVE  \E j \in 1 .. Len(h) : h[j] = L[m][i]
  <2>1. CASE m = n
    <3>1. i \in 1 .. Len(e) /\ L[m] = e
      BY <2>1
    <3>2. Len(g) + i \in 1 .. Len(h)
      <4>1. Len(h) = Len(g) + Len(e)
        BY <1>5
      <4>. HIDE DEF e
      <4>. QED BY <1>4, <3>1, <4>1
    <3>3. h[Len(g) + i] = L[m][i]
      BY <1>5, <3>1, Zenon
    <3>. QED BY <3>2, <3>3, Zenon
  <2>2. CASE m # n
    <3>1. m \in 1 .. n - 1
      BY <1>1, <2>2
    <3>2. PICK j \in 1 .. Len(g) : g[j] = L[m][i]
      BY <3>1 DEF HoldsFirst
    <3>3. j \in 1 .. Len(h) /\ h[j] = L[m][i]
      BY <1>4, <1>5, <3>2
    <3>. QED BY <3>3
  <2>. QED BY <2>1, <2>2
<1>8. ASSUME NEW j \in 1 .. Len(h)
      PROVE  \E m \in 1 .. n : \E i \in 1 .. Len(L[m]) : h[j] = L[m][i]
  <2>1. CASE j \in 1 .. Len(g)
    <3>1. PICK m \in 1 .. n - 1 : \E i \in 1 .. Len(L[m]) : g[j] = L[m][i]
      BY <2>1 DEF HoldsFirst
    <3>2. m \in 1 .. n /\ h[j] = g[j]
      BY <1>1, <1>5, <2>1
    <3>. QED BY <3>1, <3>2
  <2>2. CASE j \notin 1 .. Len(g)
    <3>1. j - Len(g) \in 1 .. Len(L[n]) /\ h[j] = L[n][j - Len(g)]
      BY <1>6, <2>2
    <3>2. n \in 1 .. n
      BY <1>1
    <3>. QED BY <3>1, <3>2
  <2>. QED BY <2>1, <2>2
<1>9. ASSUME AllDifferent(L),
             NEW i \in 1 .. Len(h), NEW j \in 1 .. Len(h), h[i] = h[j]
      PROVE  i = j
  <2>1. ASSUME NEW a \in 1 .. Len(g), NEW b \in 1 .. Len(e) PROVE g[a] # e[b]
    <3>1. PICK m \in 1 .. n - 1 : \E c \in 1 .. Len(L[m]) : g[a] = L[m][c]
      BY DEF HoldsFirst
    <3>2. PICK c \in 1 .. Len(L[m]) : g[a] = L[m][c]
      BY <3>1
    <3>3. m \in 1 .. Len(L) /\ m # n
      <4>1. \A x \in 1 .. n - 1 : x \in 1 .. Len(L) /\ x # n
        BY <1>1
      <4>. QED BY <4>1
    <3>4. L[m][c] # L[n][b]
      BY <1>1, <1>9, <3>3, ApartInTwo
    <3>. QED BY <3>2, <3>4
  <2>2. CASE i \in 1 .. Len(g) /\ j \in 1 .. Len(g)
    <3>1. g[i] = g[j]
      BY <1>5, <1>9, <2>2
    <3>. QED BY <1>9, <2>2, <3>1 DEF HoldsFirst
  <2>3. CASE i \notin 1 .. Len(g) /\ j \notin 1 .. Len(g)
    <3>1. /\ i - Len(g) \in 1 .. Len(L[n]) /\ j - Len(g) \in 1 .. Len(L[n])
          /\ L[n][i - Len(g)] = L[n][j - Len(g)]
      BY <1>6, <1>9, <2>3
    <3>2. i - Len(g) = j - Len(g)
      <4>1. \A a, b \in 1 .. Len(L[n]) : L[n][a] = L[n][b] => a = b
        BY <1>1, <1>9, EachOnce, Zenon
      <4>. QED BY <3>1, <4>1, Zenon
    <3>3. i \in Int /\ j \in Int
      OBVIOUS
    <3>. QED BY <1>4, <3>2, <3>3
  <2>4. CASE i \in 1 .. Len(g) /\ j \notin 1 .. Len(g)
    <3>1. h[i] = g[i] /\ j - Len(g) \in 1 .. Len(e) /\ h[j] = e[j - Len(g)]
      BY <1>5, <1>6, <2>4
    <3>. QED BY <1>9, <2>1, <2>4, <3>1
  <2>5. CASE i \notin 1 .. Len(g) /\ j \in 1 .. Len(g)
    <3>1. h[j] = g[j] /\ i - Len(g) \in 1 .. Len(e) /\ h[i] = e[i - Len(g)]
      BY <1>5, <1>6, <2>5
    <3>. QED BY <1>9, <2>1, <2>5, <3>1
  <2>. QED BY <2>2, <2>3, <2>4, <2>5
<1>10. h \in Seq(S)
  BY <1>5
<1>11. HoldsFirst(h, L, n)
  BY <1>7, <1>8, <1>9 DEF HoldsFirst
<1>. QED BY <1>10, <1>11 DEF h

(* A flattened list is a list of the elements, and has all of them.        *)
LEMMA FlattenProperties ==
  ASSUME NEW S, NEW L \in Seq(Seq(S))
  PROVE  /\ FlattenSeq(L) \in Seq(S)
         /\ HoldsFirst(FlattenSeq(L), L, Len(L))
<1>1. CASE L = <<>>
  <2>1. Len(L) = 0 /\ FlattenSeq(L) = <<>>
    BY <1>1 DEF FlattenSeq
  <2>2. <<>> \in Seq(S) /\ Len(<<>>) = 0 /\ 1 .. 0 = {}
    OBVIOUS
  <2>. QED BY <2>1, <2>2 DEF HoldsFirst
<1>2. CASE L # <<>>
  <2>1. PICK f : /\ FlattenSeq(L) = f[Len(L)]
                 /\ f[1] = L[1]
                 /\ \A i \in 2 .. Len(L) : f[i] = f[i - 1] \o L[i]
    BY <1>2, FlattenSeqIs
  <2>2. Len(L) \in Nat /\ Len(L) >= 1
    BY <1>2
  <2>. DEFINE Good(n) == f[n] \in Seq(S) /\ HoldsFirst(f[n], L, n)
              Bad == {n \in 1 .. Len(L) : ~Good(n)}
  <2>3. Good(1)
    <3>1. L[1] \in Seq(S) /\ Len(L[1]) \in Nat
      BY <2>2
    <3>2. \A m \in 1 .. 1 : m = 1
      OBVIOUS
    <3>3. 1 \in 1 .. 1 /\ 1 \in 1 .. Len(L)
      BY <2>2
    <3>4. AllDifferent(L) =>
            \A i, j \in 1 .. Len(L[1]) : L[1][i] = L[1][j] => i = j
      BY <3>3, EachOnce, Zenon
    <3>5. /\ \A m \in 1 .. 1 : \A i \in 1 .. Len(L[m]) :
               \E j \in 1 .. Len(L[1]) : L[1][j] = L[m][i]
          /\ \A j \in 1 .. Len(L[1]) : \E m \in 1 .. 1 :
               \E i \in 1 .. Len(L[m]) : L[1][j] = L[m][i]
      BY <3>2, <3>3
    <3>6. HoldsFirst(L[1], L, 1)
      BY <3>4, <3>5, Zenon DEF HoldsFirst
    <3>. QED BY <2>1, <3>1, <3>6
  <2>4. ASSUME Bad # {} PROVE FALSE
    <3>1. PICK n \in Bad : \A m \in Bad : n =< m
      BY <2>2, <2>4, LeastNumber, Bad \in SUBSET Nat
    <3>2. n \in 2 .. Len(L) /\ n - 1 \in 1 .. Len(L) /\ n - 1 \notin Bad
      BY <2>2, <2>3, <3>1
    <3>3. Good(n - 1) /\ f[n] = f[n - 1] \o L[n]
      BY <2>1, <3>2
    <3>4. Good(n)
      BY <3>2, <3>3, HoldsNext
    <3>. QED BY <3>1, <3>4
  <2>5. Good(Len(L))
    BY <2>2, <2>4
  <2>. QED BY <2>1, <2>5
<1>. QED BY <1>1, <1>2
-----------------------------------------------------------------------------
(* The lists of sources.                                                   *)

Has(list, e) == \E i \in 1 .. Len(list) : list[i] = e

Once(list) == \A i, j \in 1 .. Len(list) : list[i] = list[j] => i = j

LEMMA SourceOrderOnce ==
  /\ Len(SourceOrder) = 13 /\ DOMAIN SourceOrder = 1 .. 13
  /\ SourceOrder \in Seq(AllSources)
  /\ Once(SourceOrder)
  /\ ~Has(SourceOrder, "paperseed") /\ ~Has(SourceOrder, "research")
<1>1. Len(SourceOrder) = 13 /\ DOMAIN SourceOrder = 1 .. 13
  BY DEF SourceOrder
<1>2. \A i \in 1 .. 13 : SourceOrder[i] # "paperseed" /\ SourceOrder[i] # "research"
  BY DEF SourceOrder
<1>3. \A i, j \in 1 .. 13 : SourceOrder[i] = SourceOrder[j] => i = j
  BY DEF SourceOrder
<1>4. \A i \in 1 .. 13 : SourceOrder[i] \in AllSources
  BY <1>1 DEF AllSources
<1>5. SourceOrder = [i \in 1 .. 13 |-> SourceOrder[i]]
  BY DEF SourceOrder
<1>6. SourceOrder \in Seq(AllSources)
  BY <1>4, <1>5
<1>. QED BY <1>1, <1>2, <1>3, <1>6 DEF Has, Once

(* A part of the sources in the order of the sources: each of the part     *)
(* once, and no other.                                                     *)
LEMMA InOrderProperties ==
  ASSUME NEW S, S \subseteq {SourceOrder[i] : i \in DOMAIN SourceOrder}
  PROVE  /\ InOrder(S) \in Seq(S)
         /\ Once(InOrder(S))
         /\ \A s \in S : Has(InOrder(S), s)
<1>. DEFINE L == [n \in DOMAIN SourceOrder |->
                    IF SourceOrder[n] \in S THEN <<SourceOrder[n]>> ELSE <<>>]
<1>1. DOMAIN SourceOrder = 1 .. 13 /\ Once(SourceOrder) /\ Len(SourceOrder) = 13
  BY SourceOrderOnce
<1>2. \A n \in 1 .. 13 :
        \/ SourceOrder[n] \in S /\ L[n] = <<SourceOrder[n]>>
        \/ SourceOrder[n] \notin S /\ L[n] = <<>>
  BY <1>1
<1>3. L \in Seq(Seq(S)) /\ Len(L) = 13
  <2>. HIDE DEF L
  <2>6. \A e \in S : <<e>> \in Seq(S) /\ <<>> \in Seq(S)
    OBVIOUS
  <2>1. \A n \in 1 .. 13 : L[n] \in Seq(S)
    <3>. SUFFICES ASSUME NEW n \in 1 .. 13 PROVE L[n] \in Seq(S)
      OBVIOUS
    <3>1. CASE L[n] = <<>>
      BY <3>1
    <3>2. CASE SourceOrder[n] \in S /\ L[n] = <<SourceOrder[n]>>
      BY <2>6, <3>2
    <3>. QED BY <1>2, <3>1, <3>2
  <2>2. L \in [1 .. 13 -> Seq(S)]
    <3>1. DOMAIN L = 1 .. 13 /\ L = [n \in DOMAIN L |-> L[n]]
      BY <1>1 DEF L
    <3>. QED BY <2>1, <3>1
  <2>3. 13 \in Nat
    OBVIOUS
  <2>4. L \in Seq(Seq(S))
    BY <2>2, <2>3, FunctionIsList, Zenon
  <2>5. DOMAIN L = 1 .. 13
    BY <2>2
  <2>. QED BY <2>3, <2>4, <2>5
<1>4. InOrder(S) = FlattenSeq(L)
  BY DEF InOrder
<1>. HIDE DEF L
<1>. DEFINE g == FlattenSeq(L)
<1>5. g \in Seq(S) /\ HoldsFirst(g, L, 13)
  <2>1. FlattenSeq(L) \in Seq(S) /\ HoldsFirst(FlattenSeq(L), L, Len(L))
    BY <1>3, FlattenProperties, Zenon
  <2>. QED BY <1>3, <2>1
<1>. HIDE DEF g
<1>6. \A n \in 1 .. 13 : \A i \in 1 .. Len(L[n]) :
        i = 1 /\ SourceOrder[n] \in S /\ L[n][i] = SourceOrder[n]
  <2>1. \A e : Len(<<e>>) = 1 /\ <<e>>[1] = e /\ Len(<<>>) = 0
    OBVIOUS
  <2>. SUFFICES ASSUME NEW n \in 1 .. 13, NEW i \in 1 .. Len(L[n])
                PROVE  i = 1 /\ SourceOrder[n] \in S /\ L[n][i] = SourceOrder[n]
    OBVIOUS
  <2>2. CASE L[n] = <<>>
    BY <2>2
  <2>3. CASE SourceOrder[n] \in S /\ L[n] = <<SourceOrder[n]>>
    BY <2>1, <2>3
  <2>. QED BY <1>2, <2>2, <2>3
<1>7. AllDifferent(L)
  <2>. SUFFICES ASSUME NEW m \in 1 .. 13, NEW n \in 1 .. 13,
                       NEW i \in 1 .. Len(L[m]), NEW j \in 1 .. Len(L[n]),
                       L[m][i] = L[n][j]
                PROVE  m = n /\ i = j
    BY <1>3, Zenon DEF AllDifferent
  <2>1. i = 1 /\ j = 1 /\ SourceOrder[m] = SourceOrder[n]
    BY <1>6, Zenon
  <2>. QED BY <1>1, <2>1 DEF Once
<1>8. Once(g)
  BY <1>5, <1>7 DEF HoldsFirst, Once
<1>9. ASSUME NEW s \in S PROVE Has(g, s)
  <2>1. PICK n \in 1 .. 13 : SourceOrder[n] = s
    BY <1>1
  <2>2. L[n] = <<s>>
    BY <1>2, <2>1
  <2>3. 1 \in 1 .. Len(L[n]) /\ L[n][1] = s
    BY <2>2
  <2>4. \E j \in 1 .. Len(g) : g[j] = L[n][1]
    BY <1>5, <2>1, <2>3, Zenon DEF HoldsFirst
  <2>. QED BY <2>3, <2>4, Zenon DEF Has
<1>. QED BY <1>4, <1>5, <1>8, <1>9 DEF g

-----------------------------------------------------------------------------
(* The fan-out.                                                            *)

Statuses == {"waiting", "ok", "failed", "skipped"}

LEMMA PresentAreSources ==
  /\ Present \subseteq {SourceOrder[i] : i \in DOMAIN SourceOrder}
  /\ "paperseed" \notin Present /\ "research" \notin Present
  /\ "crossref" \in Present /\ Enabled \subseteq Present
BY RequestsAssumption, Zenon DEF AllSources, Enabled

LEMMA EnabledInOrder ==
  ASSUME NEW status
  PROVE  /\ WithStatus(status) \in Seq(Present)
         /\ Once(WithStatus(status))
         /\ \A s \in Present : Has(WithStatus(status), s)
                                 <=> s \in Enabled /\ outcome[s].status = status
<1>. DEFINE S == {s \in Enabled : outcome[s].status = status}
<1>1. S \subseteq Present /\ S \subseteq {SourceOrder[i] : i \in DOMAIN SourceOrder}
  BY PresentAreSources
<1>2. WithStatus(status) = InOrder(S)
  BY DEF WithStatus
<1>. HIDE DEF S
<1>3. InOrder(S) \in Seq(S) /\ Once(InOrder(S)) /\ \A s \in S : Has(InOrder(S), s)
  BY <1>1, InOrderProperties
<1>4. InOrder(S) \in Seq(Present)
  BY <1>1, <1>3
<1>5. \A s : Has(InOrder(S), s) => s \in S
  BY <1>3 DEF Has
<1>6. \A s \in Present : s \in S <=> s \in Enabled /\ outcome[s].status = status
  BY DEF S
<1>. QED BY <1>2, <1>3, <1>4, <1>5, <1>6
(* What the sources have answered so far.  Until all have, the merge has   *)
(* not begun; afterwards it has every hit they returned.                   *)
AskType ==
  /\ request \in Requests
  /\ stage \in {"asking", "merging", "paging", "closed"}
  /\ outcome \in [Present -> [status : Statuses, hits : Seq(External)]]

HitsOfAnswered ==
  \A s \in Present : outcome[s].hits # <<>> => s \in Enabled /\ outcome[s].status = "ok"

NotBegun == stage = "asking" => pc = "dedupe" /\ hits = <<>> /\ taken = 0 /\ out = <<>>

HitsArrived ==
  stage # "asking" =>
    \A s \in Present : \A i \in 1 .. Len(outcome[s].hits) :
      \E p \in 1 .. Len(hits) : hits[p] = outcome[s].hits[i]

AskInv == AskType /\ HitsOfAnswered /\ NotBegun /\ HitsArrived

LEMMA AskStarts == SearchInit => AskInv
<1>. SUFFICES ASSUME SearchInit PROVE AskInv
  OBVIOUS
<1>. USE DEF SearchInit, Init, AskInit
<1>1. AskType
  <2>1. \A s \in Present : outcome[s] \in [status : Statuses, hits : Seq(External)]
    BY DEF Statuses
  <2>. QED BY <2>1 DEF AskType
<1>2. HitsOfAnswered
  BY DEF HitsOfAnswered
<1>3. NotBegun /\ HitsArrived
  BY DEF NotBegun, HitsArrived
<1>. QED BY <1>1, <1>2, <1>3 DEF AskInv

(* Steps that leave the hits as they are, once the sources were asked.     *)
LEMMA AskKept ==
  ASSUME AskInv, stage # "asking", stage' \in {"merging", "paging", "closed"},
         UNCHANGED <<request, outcome, hits>>
  PROVE  AskInv'
<1>1. AskType'
  BY DEF AskInv, AskType
<1>2. HitsOfAnswered'
  BY Zenon DEF AskInv, HitsOfAnswered, Enabled, FanOut, DirectCrossref, CacheMode, Names
<1>3. NotBegun'
  BY DEF NotBegun
<1>4. HitsArrived'
  BY DEF AskInv, HitsArrived
<1>. QED BY <1>1, <1>2, <1>3, <1>4 DEF AskInv

(* A source that was waiting ends.                                         *)
LEMMA AskSet ==
  ASSUME AskInv, stage = "asking", stage' = stage, NEW s \in Present,
         NEW status \in Statuses, NEW list \in Seq(External),
         Set(s, status, list), UNCHANGED <<request, pc, hits, taken, out>>,
         list # <<>> => s \in Enabled /\ status = "ok"
  PROVE  AskInv'
<1>. DEFINE R == [status |-> status, hits |-> list]
<1>1. /\ outcome' \in [Present -> [status : Statuses, hits : Seq(External)]]
      /\ outcome'[s] = R
      /\ \A t \in Present : t # s => outcome'[t] = outcome[t]
  <2>1. R \in [status : Statuses, hits : Seq(External)]
    OBVIOUS
  <2>. QED BY <2>1 DEF Set, AskInv, AskType
<1>2. AskType'
  BY <1>1 DEF AskInv, AskType
<1>3. Enabled' = Enabled
  BY Zenon DEF Enabled, FanOut, DirectCrossref, CacheMode, Names
<1>4. HitsOfAnswered'
  <2>. SUFFICES ASSUME NEW t \in Present, outcome'[t].hits # <<>>
                PROVE  t \in Enabled /\ outcome'[t].status = "ok"
    BY <1>3, Zenon DEF HitsOfAnswered
  <2>1. CASE t = s
    BY <1>1, <2>1
  <2>2. CASE t # s
    BY <1>1, <2>2 DEF AskInv, HitsOfAnswered
  <2>. QED BY <2>1, <2>2
<1>5. NotBegun' /\ HitsArrived'
  BY DEF AskInv, NotBegun, HitsArrived
<1>. QED BY <1>2, <1>4, <1>5 DEF AskInv

LEMMA AskAnswers ==
  ASSUME AskInv, NEW s \in Present, SourceAnswers(s)
  PROVE  AskInv'
<1>1. PICK entries \in Lists(Holds[s], MaxFetch) :
        Set(s, "ok", Answer(s, entries, MaxFetch, request.isbn))
  BY DEF SourceAnswers
<1>2. Answer(s, entries, MaxFetch, request.isbn) \in Seq(External)
  <2>1. request \in Requests
    BY DEF AskInv, AskType
  <2>. QED BY <2>1, AnswersAssumption, Zenon
<1>3. s \in Enabled /\ stage = "asking" /\ stage' = stage
      /\ UNCHANGED <<request, pc, hits, taken, out>> /\ "ok" \in Statuses
  BY DEF SourceAnswers, Waiting, UnchangedRequest, vars, Statuses
<1>. QED BY <1>1, <1>2, <1>3, AskSet

LEMMA AskFails ==
  ASSUME AskInv, NEW s \in Present, SourceFails(s)
  PROVE  AskInv'
<1>1. stage = "asking" /\ stage' = stage /\ <<>> \in Seq(External)
      /\ UNCHANGED <<request, pc, hits, taken, out>> /\ "failed" \in Statuses
      /\ Set(s, "failed", <<>>)
  BY DEF SourceFails, UnchangedRequest, vars, Statuses
<1>. QED BY <1>1, AskSet

(* The hits of a list of sources, one source after the other.              *)
LEMMA JoinedProperties ==
  ASSUME AskType, NEW list \in Seq(Present)
  PROVE  /\ Joined(list) \in Seq(External)
         /\ \A s \in Present : Has(list, s) =>
              \A i \in 1 .. Len(outcome[s].hits) :
                \E p \in 1 .. Len(Joined(list)) :
                  Joined(list)[p] = outcome[s].hits[i]
<1>. DEFINE L == [n \in DOMAIN list |-> outcome[list[n]].hits]
<1>1. /\ DOMAIN list = 1 .. Len(list) /\ Len(list) \in Nat
      /\ \A n \in 1 .. Len(list) : list[n] \in Present
  OBVIOUS
<1>2. \A s \in Present : outcome[s].hits \in Seq(External)
  BY DEF AskType
<1>3. \A n \in 1 .. Len(list) : L[n] = outcome[list[n]].hits
  BY <1>1
<1>4. L \in [1 .. Len(list) -> Seq(External)]
  BY <1>1, <1>2
<1>5. Joined(list) = FlattenSeq(L)
  BY DEF Joined
<1>. HIDE DEF L
<1>6. L \in Seq(Seq(External)) /\ Len(L) = Len(list)
  BY <1>1, <1>4, FunctionIsList, Zenon
<1>7. FlattenSeq(L) \in Seq(External) /\ HoldsFirst(FlattenSeq(L), L, Len(list))
  <2>1. FlattenSeq(L) \in Seq(External) /\ HoldsFirst(FlattenSeq(L), L, Len(L))
    BY <1>6, FlattenProperties, Zenon
  <2>. QED BY <1>6, <2>1
<1>8. ASSUME NEW s \in Present, Has(list, s), NEW i \in 1 .. Len(outcome[s].hits)
      PROVE  \E p \in 1 .. Len(Joined(list)) : Joined(list)[p] = outcome[s].hits[i]
  <2>1. PICK n \in 1 .. Len(list) : list[n] = s
    BY <1>8 DEF Has
  <2>2. L[n] = outcome[s].hits
    BY <1>3, <2>1
  <2>3. \A k \in 1 .. Len(L[n]) :
          \E p \in 1 .. Len(FlattenSeq(L)) : FlattenSeq(L)[p] = L[n][k]
    BY <1>7, <2>1, Zenon DEF HoldsFirst
  <2>. QED BY <1>5, <2>2, <2>3, Zenon
<1>. QED BY <1>5, <1>7, <1>8
LEMMA AskCollects == AskInv /\ Collect => AskInv'
<1>. SUFFICES ASSUME AskInv, Collect PROVE AskInv'
  OBVIOUS
<1>. DEFINE list == WithStatus("ok")
<1>1. /\ Waiting = {} /\ hits' = Joined(list) /\ stage' = "merging"
      /\ UNCHANGED <<request, outcome>>
  BY DEF Collect, UnchangedRequest
<1>2. list \in Seq(Present)
      /\ \A s \in Present : Has(list, s) <=> s \in Enabled /\ outcome[s].status = "ok"
  BY EnabledInOrder
<1>. HIDE DEF list
<1>3. AskType
  BY DEF AskInv
<1>4. \A s \in Present : Has(list, s) =>
        \A i \in 1 .. Len(outcome[s].hits) :
          \E p \in 1 .. Len(hits') : hits'[p] = outcome[s].hits[i]
  BY <1>1, <1>2, <1>3, JoinedProperties
<1>5. AskType'
  BY <1>1, <1>3 DEF AskType
<1>6. HitsOfAnswered'
  BY <1>1, Zenon
  DEF AskInv, HitsOfAnswered, Enabled, FanOut, DirectCrossref, CacheMode, Names
<1>7. NotBegun'
  BY <1>1 DEF NotBegun
<1>8. HitsArrived'
  <2>. SUFFICES ASSUME NEW s \in Present, NEW i \in 1 .. Len(outcome[s].hits)
                PROVE  \E p \in 1 .. Len(hits') : hits'[p] = outcome[s].hits[i]
    BY <1>1, Zenon DEF HitsArrived
  <2>1. outcome[s].hits # <<>>
    OBVIOUS
  <2>2. Has(list, s)
    BY <1>2, <2>1 DEF AskInv, HitsOfAnswered
  <2>. QED BY <1>4, <2>2
<1>. QED BY <1>5, <1>6, <1>7, <1>8 DEF AskInv

(* A search that asks no source has no hits from one.                      *)
LEMMA AskNoSource ==
  ASSUME AskInv, stage' = "merging", ~FanOut, UNCHANGED <<request, outcome>>
  PROVE  AskInv'
<1>1. AskType'
  BY DEF AskInv, AskType
<1>2. HitsOfAnswered'
  BY Zenon
  DEF AskInv, HitsOfAnswered, Enabled, FanOut, DirectCrossref, CacheMode, Names
<1>3. NotBegun'
  BY DEF NotBegun
<1>4. Enabled = {}
  BY DEF Enabled
<1>5. \A s \in Present : outcome[s].hits = <<>>
  BY <1>4 DEF AskInv, HitsOfAnswered
<1>6. HitsArrived'
  BY <1>5 DEF HitsArrived
<1>. QED BY <1>1, <1>2, <1>3, <1>6 DEF AskInv

LEMMA AskMergeStep ==
  ASSUME AskInv, Merging \/ SearchCorpus \/ SearchResearch \/ ReadPage
  PROVE  AskInv'
<1>1. /\ stage # "asking" /\ stage' \in {"merging", "paging", "closed"}
      /\ UNCHANGED <<request, outcome, hits>>
  <2>1. CASE Merging
    BY <2>1 DEF Merging, UnchangedSearch, UnchangedRequest, Dedupe, MergePreferCached,
                TakeNew, TakeMatch, Absorb, PassOver, EndRecheck, PlaceAtEnd,
                ReplaceMatch, Finish
  <2>2. CASE SearchCorpus
    BY <2>2 DEF SearchCorpus, UnchangedSearch, UnchangedRequest, SearchCached
  <2>3. CASE SearchResearch
    BY <2>3 DEF SearchResearch, UnchangedRequest, vars
  <2>4. CASE ReadPage
    BY <2>4 DEF ReadPage, UnchangedRequest, vars, AskInv, AskType
  <2>. QED BY <2>1, <2>2, <2>3, <2>4
<1>. QED BY <1>1, AskKept

LEMMA AskNext == AskInv /\ [SearchNext]_<<vars, searchVars>> => AskInv'
<1>. SUFFICES ASSUME AskInv, [SearchNext]_<<vars, searchVars>> PROVE AskInv'
  OBVIOUS
<1>1. CASE \E s \in Present : SourceAnswers(s) \/ SourceFails(s)
  BY <1>1, AskAnswers, AskFails
<1>2. CASE Collect
  BY <1>2, AskCollects
<1>3. CASE ResolveDoi
  <2>1. stage' = "merging" /\ ~FanOut /\ UNCHANGED <<request, outcome>>
    BY <1>3 DEF ResolveDoi, FanOut, UnchangedRequest
  <2>. QED BY <2>1, AskNoSource
<1>4. CASE CacheOnly
  <2>1. stage' = "merging" /\ ~FanOut /\ UNCHANGED <<request, outcome>>
    BY <1>4 DEF CacheOnly, FanOut, UnchangedRequest
  <2>. QED BY <2>1, AskNoSource
<1>5. CASE Merging \/ SearchCorpus \/ SearchResearch \/ ReadPage
  BY <1>5, AskMergeStep
<1>6. CASE UNCHANGED <<vars, searchVars>>
  <2>1. UNCHANGED <<request, stage, outcome, pc, hits, taken, out>>
    BY <1>6 DEF vars, searchVars
  <2>2. AskType' /\ NotBegun' /\ HitsArrived'
    BY <2>1 DEF AskInv, AskType, NotBegun, HitsArrived
  <2>3. HitsOfAnswered'
    BY <2>1, Zenon
    DEF AskInv, HitsOfAnswered, Enabled, FanOut, DirectCrossref, CacheMode, Names
  <2>. QED BY <2>2, <2>3 DEF AskInv
<1>. QED BY <1>1, <1>2, <1>3, <1>4, <1>5, <1>6 DEF SearchNext, Asking

LEMMA AskInvariant == SearchSpec => []AskInv
BY AskStarts, AskNext, PTL DEF SearchSpec

-----------------------------------------------------------------------------
(* A search implements the merge.                                          *)

LEMMA ResolvedIsExternal ==
  ASSUME AskInv, ResolveDoi
  PROVE  hits' \in Seq(External)
<1>1. CASE hits' = <<>>
  BY <1>1
<1>2. CASE \E e \in Holds["crossref"] :
             /\ e.ids[Doi] \in {request.ids[Doi], None}
             /\ e.title # None
             /\ hits' = <<ResolvedHit(e, request.ids[Doi])>>
  <2>1. PICK e \in Holds["crossref"] :
          /\ e.ids[Doi] \in {request.ids[Doi], None}
          /\ e.title # None
          /\ hits' = <<ResolvedHit(e, request.ids[Doi])>>
    BY <1>2
  <2>2. request \in Requests /\ request.ids[Doi] # None
    BY DEF AskInv, AskType, ResolveDoi, DirectCrossref
  <2>3. ResolvedHit(e, request.ids[Doi]) \in External
    BY <2>1, <2>2, AnswersAssumption, Zenon
  <2>. QED BY <2>1, <2>3
<1>. QED BY <1>1, <1>2 DEF ResolveDoi

LEMMA SearchStepMerges ==
  ASSUME AskInv, [SearchNext]_<<vars, searchVars>>
  PROVE  [Next]_vars
<1>1. CASE \E s \in Present : SourceAnswers(s) \/ SourceFails(s)
  BY <1>1 DEF SourceAnswers, SourceFails
<1>2. CASE Collect
  <2>1. WithStatus("ok") \in Seq(Present)
    BY EnabledInOrder
  <2>2. hits' \in Seq(External)
    BY <1>2, <2>1, JoinedProperties DEF Collect, AskInv
  <2>3. Gather
    BY <1>2, <2>2 DEF Collect, AskInv, NotBegun, Gather
  <2>. QED BY <2>3 DEF Next
<1>3. CASE ResolveDoi
  <2>1. hits' \in Seq(External)
    BY <1>3, ResolvedIsExternal
  <2>2. Gather
    BY <1>3, <2>1 DEF ResolveDoi, AskInv, NotBegun, Gather
  <2>. QED BY <2>2 DEF Next
<1>4. CASE CacheOnly \/ SearchResearch \/ ReadPage
  BY <1>4 DEF CacheOnly, SearchResearch, ReadPage
<1>5. CASE Merging
  BY <1>5 DEF Merging, Next
<1>6. CASE SearchCorpus
  BY <1>6 DEF SearchCorpus, Next
<1>7. CASE UNCHANGED <<vars, searchVars>>
  BY <1>7
<1>. QED BY <1>1, <1>2, <1>3, <1>4, <1>5, <1>6, <1>7 DEF SearchNext, Asking

(* Whatever else goes on in a search, the lists of the merge change only   *)
(* as the merge by itself changes them (search_papers owns the lists it    *)
(* hands to dedupe and merge_prefer_cached).                               *)
THEOREM SearchImplementsMerge == SearchSpec => MergeSpec
<1>1. SearchInit => Init
  BY DEF SearchInit
<1>2. AskInv /\ [SearchNext]_<<vars, searchVars>> => [Next]_vars
  BY SearchStepMerges
<1>. QED BY <1>1, <1>2, AskInvariant, PTL DEF SearchSpec, MergeSpec, Spec

(* So no two records of any search are the same work by dedupe's rule, and *)
(* no record shows an identifier none of its hits has.                     *)
THEOREM SearchLeavesNoPair == SearchSpec => []NoTwoAlike /\ []IdentifiersAgree
BY SearchImplementsMerge, DedupeLeavesNoPair, IdentifiersNeverMix, PTL DEF MergeSpec
-----------------------------------------------------------------------------
(* The ranking.                                                            *)

IsList(l) == l \in Seq({l[i] : i \in DOMAIN l})

LEMMA RankNat ==
  ASSUME NEW h
  PROVE  Rank(h) \in Nat
<1>. DEFINE M(k) == Shared(Key(h.ids[k]), request.ids[k])
            One(b) == IF b THEN 1 ELSE 0
<1>1. Rank(h) = 4 * One(M(Doi)) + 2 * One(M(Arxiv)) + One(h.title = request.title)
  BY Zenon DEF Rank
<1>2. \A b : One(b) \in Nat
  OBVIOUS
<1>. HIDE DEF M, One
<1>. QED BY <1>1, <1>2

LEMMA BeforeOrders ==
  ASSUME NEW list, NEW i \in Nat, NEW j \in Nat
  PROVE  /\ ~Before(list, i, i)
         /\ i # j => Before(list, i, j) \/ Before(list, j, i)
         /\ \A k \in Nat : Before(list, k, i) /\ Before(list, i, j)
                             => Before(list, k, j)
<1>. \A n \in Nat : Rank(list[n]) \in Nat
  BY RankNat
<1>. DEFINE R(n) == Rank(list[n])
<1>1. \A m, n \in Nat : Before(list, m, n) <=> R(m) > R(n) \/ (R(m) = R(n) /\ m < n)
  BY DEF Before
<1>2. \A n \in Nat : R(n) \in Nat
  OBVIOUS
<1>. HIDE DEF R
<1>3. ~Before(list, i, i)
  BY <1>1, <1>2
<1>4. ASSUME i # j PROVE Before(list, i, j) \/ Before(list, j, i)
  <2>1. R(i) \in Nat /\ R(j) \in Nat
    BY <1>2, Zenon
  <2>2. \/ R(i) > R(j) \/ (R(i) = R(j) /\ i < j)
        \/ R(j) > R(i) \/ (R(j) = R(i) /\ j < i)
    BY <1>4, <2>1
  <2>. QED BY <1>1, <2>2, Zenon
<1>5. ASSUME NEW k \in Nat, Before(list, k, i), Before(list, i, j)
      PROVE  Before(list, k, j)
  <2>1. /\ R(k) > R(i) \/ (R(k) = R(i) /\ k < i)
        /\ R(i) > R(j) \/ (R(i) = R(j) /\ i < j)
    BY <1>1, <1>5, Zenon
  <2>2. R(k) \in Nat /\ R(i) \in Nat /\ R(j) \in Nat
    BY <1>2, Zenon
  <2>3. R(k) > R(j) \/ (R(k) = R(j) /\ k < j)
    BY <2>1, <2>2
  <2>. QED BY <1>1, <2>3, Zenon
<1>. QED BY <1>3, <1>4, <1>5

LEMMA PlaceProperties ==
  ASSUME NEW list, NEW n \in Nat, DOMAIN list = 1 .. n,
         NEW i \in 1 .. n
  PROVE  /\ Place(list, i) \in 1 .. n
         /\ \A j \in 1 .. n : i # j => Place(list, i) # Place(list, j)
<1>. DEFINE F(j) == {k \in 1 .. n : Before(list, k, j)}
<1>1. \A j : Place(list, j) = 1 + Cardinality(F(j))
  BY Zenon DEF Place
<1>2. IsFiniteSet(1 .. n) /\ Cardinality(1 .. n) = n
  BY FS_Interval
<1>3. \A j \in 1 .. n : IsFiniteSet(F(j)) /\ Cardinality(F(j)) \in Nat
  <2>. SUFFICES ASSUME NEW j \in 1 .. n
                PROVE  IsFiniteSet(F(j)) /\ Cardinality(F(j)) \in Nat
    OBVIOUS
  <2>1. F(j) \subseteq 1 .. n
    OBVIOUS
  <2>2. IsFiniteSet(F(j))
    BY <1>2, <2>1, FS_Subset, Zenon
  <2>. QED BY <2>2, FS_CardinalityType, Zenon
<1>4. i \notin F(i) /\ F(i) \subseteq (1 .. n) \ {i}
  BY BeforeOrders
<1>5. Cardinality(F(i)) =< n - 1
  <2>1. IsFiniteSet((1 .. n) \ {i}) /\ Cardinality((1 .. n) \ {i}) = n - 1
    BY <1>2, FS_RemoveElement
  <2>2. Cardinality(F(i)) =< Cardinality((1 .. n) \ {i})
    <3>1. F(i) \in SUBSET ((1 .. n) \ {i})
      BY <1>4
    <3>. QED BY <2>1, <3>1, FS_Subset, Zenon
  <2>. QED BY <2>1, <2>2
<1>6. ASSUME NEW j \in 1 .. n, NEW k \in 1 .. n, Before(list, j, k)
      PROVE  Cardinality(F(j)) < Cardinality(F(k))
  <2>1. j \notin F(j) /\ F(j) \cup {j} \subseteq F(k)
    BY <1>6, BeforeOrders
  <2>2. Cardinality(F(j) \cup {j}) = Cardinality(F(j)) + 1
    BY <1>3, <2>1, FS_AddElement, Zenon
  <2>3. Cardinality(F(j) \cup {j}) =< Cardinality(F(k))
    <3>1. F(j) \cup {j} \in SUBSET F(k)
      BY <2>1
    <3>. QED BY <1>3, <3>1, FS_Subset, Zenon
  <2>4. Cardinality(F(j)) \in Nat /\ Cardinality(F(k)) \in Nat
    BY <1>3
  <2>. HIDE DEF F
  <2>. QED BY <2>2, <2>3, <2>4
<1>. HIDE DEF F
<1>7. Place(list, i) \in 1 .. n
  BY <1>1, <1>3, <1>5
<1>8. ASSUME NEW j \in 1 .. n, i # j PROVE Place(list, i) # Place(list, j)
  <2>1. Before(list, i, j) \/ Before(list, j, i)
    <3>1. i \in Nat /\ j \in Nat
      OBVIOUS
    <3>. QED BY <1>8, <3>1, BeforeOrders, Zenon
  <2>2. Cardinality(F(i)) < Cardinality(F(j)) \/ Cardinality(F(j)) < Cardinality(F(i))
    BY <1>6, <2>1
  <2>. QED BY <1>1, <1>3, <2>2
<1>. QED BY <1>7, <1>8

(* The ranking is a list, and no element is lost.                          *)
LEMMA RankedProperties ==
  ASSUME NEW list, NEW n \in Nat, DOMAIN list = 1 .. n
  PROVE  /\ IsList(Ranked(list)) /\ Len(Ranked(list)) = n
         /\ \A i \in 1 .. n : \E p \in 1 .. n : Ranked(list)[p] = list[i]
<1>. DEFINE C(p) == CHOOSE i \in 1 .. n : Place(list, i) = p
<1>1. Ranked(list) = [p \in 1 .. n |-> list[C(p)]]
  BY DEF Ranked
<1>2. IsList(Ranked(list)) /\ Len(Ranked(list)) = n
  <2>. HIDE DEF C
  <2>. DEFINE g == Ranked(list)
              T == {g[i] : i \in DOMAIN g}
  <2>1. DOMAIN g = 1 .. n /\ g \in [1 .. n -> T]
    BY <1>1
  <2>. HIDE DEF T
  <2>2. g \in Seq(T) /\ Len(g) = n
    BY <2>1, FunctionIsList, Zenon
  <2>. QED BY <2>2, Zenon DEF T, IsList
<1>3. ASSUME NEW i \in 1 .. n PROVE \E p \in 1 .. n : Ranked(list)[p] = list[i]
  <2>. DEFINE p == Place(list, i)
  <2>1. p \in 1 .. n
    BY PlaceProperties
  <2>2. C(p) \in 1 .. n /\ Place(list, C(p)) = p
    BY Zenon
  <2>3. C(p) = i
    BY <2>2, PlaceProperties, Zenon
  <2>. HIDE DEF p, C
  <2>4. Ranked(list)[p] = list[C(p)]
    BY <1>1, <2>1
  <2>. QED BY <2>1, <2>3, <2>4
<1>. QED BY <1>2, <1>3
-----------------------------------------------------------------------------
(* The merge reaches the end with every hit in a record.                   *)

AllTaken == pc \in {"cached", "done"} => taken = Len(hits)

EachHeld == \A p \in 1 .. taken : \E r \in 1 .. Len(out) : p \in from[r]

CoverInv == AllTaken /\ EachHeld

(* Places only move together: what a record held, some record holds.       *)
LEMMA CoverKept ==
  ASSUME EachHeld, taken' = taken,
         \A r \in 1 .. Len(out) : \E q \in 1 .. Len(out') : from[r] \subseteq from'[q]
  PROVE  EachHeld'
<1>. SUFFICES ASSUME NEW p \in 1 .. taken
              PROVE  \E q \in 1 .. Len(out') : p \in from'[q]
  BY DEF EachHeld
<1>1. PICK r \in 1 .. Len(out) : p \in from[r]
  BY DEF EachHeld
<1>2. PICK q \in 1 .. Len(out') : from[r] \subseteq from'[q]
  BY <1>1
<1>. QED BY <1>1, <1>2

(* The next hit is taken into one of the records.                          *)
LEMMA CoverTaken ==
  ASSUME EachHeld, taken \in Nat, taken' = taken + 1,
         \A r \in 1 .. Len(out) : \E q \in 1 .. Len(out') : from[r] \subseteq from'[q],
         \E q \in 1 .. Len(out') : taken + 1 \in from'[q]
  PROVE  EachHeld'
<1>. SUFFICES ASSUME NEW p \in 1 .. taken'
              PROVE  \E q \in 1 .. Len(out') : p \in from'[q]
  BY DEF EachHeld
<1>1. CASE p = taken + 1
  BY <1>1
<1>2. CASE p # taken + 1
  <2>1. p \in 1 .. taken
    BY <1>2
  <2>2. PICK r \in 1 .. Len(out) : p \in from[r]
    BY <2>1 DEF EachHeld
  <2>. QED BY <2>2
<1>. QED BY <1>1, <1>2

LEMMA CoverNext == TypeInv /\ CoverInv /\ [Next]_vars => CoverInv'
<1>. SUFFICES ASSUME TypeInv, CoverInv, [Next]_vars PROVE CoverInv'
  OBVIOUS
<1>1. /\ out \in Seq(Hit) /\ from \in Seq(Places) /\ Len(from) = Len(out)
      /\ Len(out) \in Nat /\ taken \in Nat /\ Len(hits) \in Nat
      /\ taken =< Len(hits)
  BY Typed DEF TypeInv, TypeOK
<1>2. AllTaken /\ EachHeld
  BY DEF CoverInv
<1>3. CASE TakeNew
  <2>1. /\ taken' = taken + 1 /\ pc' = pc /\ pc = "dedupe"
        /\ from' = Append(from, {taken + 1}) /\ out' = Append(out, hits[taken + 1])
    BY <1>3 DEF TakeNew
  <2>2. /\ Len(out') = Len(out) + 1
        /\ from'[Len(out) + 1] = {taken + 1}
        /\ \A r \in 1 .. Len(out) : from'[r] = from[r]
    BY <1>1, <2>1
  <2>3. Len(out) + 1 \in 1 .. Len(out') /\ \A r \in 1 .. Len(out) : r \in 1 .. Len(out')
    BY <1>1, <2>2
  <2>4. EachHeld'
    BY <1>1, <1>2, <2>1, <2>2, <2>3, CoverTaken
  <2>. QED BY <2>1, <2>4 DEF CoverInv, AllTaken
<1>4. CASE TakeMatch
  <2>1. /\ taken' = taken + 1 /\ pc' = "recheck"
        /\ \E i \in 1 .. Len(out) :
             /\ from' = [from EXCEPT ![i] = @ \cup {taken + 1}]
             /\ out' = MergeInto(out, i, hits[taken + 1])
    <3>1. DOMAIN keys = 1 .. Len(out)
      BY <1>4, DomainsAgree DEF TakeMatch, InLoop
    <3>. QED BY <1>4, <3>1 DEF TakeMatch
  <2>2. PICK i \in 1 .. Len(out) :
          /\ from' = [from EXCEPT ![i] = @ \cup {taken + 1}]
          /\ out' = MergeInto(out, i, hits[taken + 1])
    BY <2>1
  <2>3. /\ Len(out') = Len(out)
        /\ from'[i] = from[i] \cup {taken + 1}
        /\ \A r \in 1 .. Len(out) : r # i => from'[r] = from[r]
    BY <1>1, <2>2 DEF MergeInto
  <2>4. EachHeld'
    BY <1>1, <1>2, <2>1, <2>3, CoverTaken
  <2>. QED BY <2>1, <2>4 DEF CoverInv, AllTaken
<1>5. CASE Absorb
  <2>1. PICK k \in 1 .. Len(out), r \in 1 .. Len(out) :
          /\ k < r /\ Len(out') = Len(out) - 1
          /\ \A i \in 1 .. Len(out) - 1 :
               from'[i] = IF i = k THEN from[k] \cup from[r]
                          ELSE from[IF i < r THEN i ELSE i + 1]
    BY <1>5, ZenonT(60), AbsorbStep
  <2>2. ASSUME NEW j \in 1 .. Len(out)
        PROVE  \E q \in 1 .. Len(out') : from[j] \subseteq from'[q]
    <3>1. k \in 1 .. Len(out')
      BY <1>1, <2>1
    <3>2. CASE j = k \/ j = r
      BY <2>1, <3>1, <3>2
    <3>3. CASE j # k /\ j < r
      <4>1. j \in 1 .. Len(out')
        BY <1>1, <2>1, <3>3
      <4>. QED BY <2>1, <3>3, <4>1
    <3>4. CASE j # k /\ j > r
      <4>1. /\ j - 1 \in 1 .. Len(out') /\ j - 1 # k /\ ~(j - 1 < r)
            /\ (j - 1) + 1 = j
        BY <1>1, <2>1, <3>4
      <4>2. from'[j - 1] = from[j]
        BY <2>1, <4>1
      <4>. QED BY <4>1, <4>2
    <3>. QED BY <3>2, <3>3, <3>4
  <2>3. taken' = taken /\ pc' = pc /\ pc = "recheck"
    BY <1>5 DEF Absorb
  <2>4. EachHeld'
    BY <1>2, <2>2, <2>3, CoverKept
  <2>. QED BY <2>3, <2>4 DEF CoverInv, AllTaken
<1>6. CASE PlaceAtEnd
  <2>1. /\ taken' = taken /\ pc' = pc /\ hits' = hits
        /\ out' = Append(out, cached[placed + 1]) /\ from' = Append(from, {Position})
    BY <1>6 DEF PlaceAtEnd
  <2>2. \A r \in 1 .. Len(out) : r \in 1 .. Len(out') /\ from'[r] = from[r]
    BY <1>1, <2>1
  <2>3. EachHeld'
    BY <1>2, <2>1, <2>2, CoverKept
  <2>. QED BY <1>2, <2>1, <2>3 DEF CoverInv, AllTaken
<1>7. CASE ReplaceMatch
  <2>1. taken' = taken /\ pc' = pc /\ hits' = hits
    BY <1>7 DEF ReplaceMatch
  <2>2. PICK i \in 1 .. Len(out) :
          /\ out' = Replaced(out, i, cached[placed + 1])
          /\ from' = [from EXCEPT ![i] = @ \cup {Position}]
    <3>1. DOMAIN out = 1 .. Len(out)
      BY <1>1
    <3>2. \E i \in DOMAIN out :
            /\ out' = Replaced(out, i, cached[placed + 1])
            /\ from' = [from EXCEPT ![i] = @ \cup {Position}]
      BY <1>7, Zenon DEF ReplaceMatch
    <3>. QED BY <3>1, <3>2, Zenon
  <2>3. \A r \in 1 .. Len(out) : r \in 1 .. Len(out') /\ from[r] \subseteq from'[r]
    <3>1. Len(out') = Len(out)
      BY <1>1, <2>2 DEF Replaced
    <3>2. /\ from'[i] = from[i] \cup {Position}
          /\ \A r \in 1 .. Len(out) : r # i => from'[r] = from[r]
      BY <1>1, <2>2
    <3>. QED BY <3>1, <3>2
  <2>4. EachHeld'
    BY <1>2, <2>1, <2>3, CoverKept
  <2>. QED BY <1>2, <2>1, <2>4 DEF CoverInv, AllTaken
<1>8. CASE Gather
  <2>1. UNCHANGED <<pc, taken, out, from>> /\ pc = "dedupe"
    BY <1>8 DEF Gather
  <2>. QED BY <1>2, <2>1 DEF CoverInv, AllTaken, EachHeld
<1>9. CASE PassOver \/ EndRecheck
  <2>1. UNCHANGED <<taken, out, from>> /\ pc' \in {"recheck", "dedupe"}
    BY <1>9 DEF PassOver, EndRecheck
  <2>. QED BY <1>2, <2>1 DEF CoverInv, AllTaken, EachHeld
<1>10. CASE SearchCached
  <2>1. UNCHANGED <<hits, taken, out, from>> /\ taken = Len(hits)
    BY <1>10 DEF SearchCached
  <2>. QED BY <1>2, <2>1 DEF CoverInv, AllTaken, EachHeld
<1>11. CASE Finish
  <2>1. UNCHANGED <<hits, taken, out, from>> /\ pc = "cached"
    BY <1>11 DEF Finish
  <2>. QED BY <1>2, <2>1 DEF CoverInv, AllTaken, EachHeld
<1>12. CASE UNCHANGED vars
  BY <1>2, <1>12 DEF CoverInv, AllTaken, EachHeld, vars
<1>. QED BY <1>3, <1>4, <1>5, <1>6, <1>7, <1>8, <1>9, <1>10, <1>11, <1>12
         DEF Next, Dedupe, MergePreferCached

LEMMA CoverInvariant == Spec => []CoverInv
<1>1. Init => CoverInv
  BY DEF Init, CoverInv, AllTaken, EachHeld
<1>. QED BY <1>1, CoverNext, TypeInvariant, PTL DEF Spec
-----------------------------------------------------------------------------
(* The answer and its pages.                                               *)

LEMMA ListsAreLists ==
  ASSUME NEW S, NEW n \in Nat, NEW l \in Lists(S, n)
  PROVE  l \in Seq(S)
<1>1. PICK m \in 0 .. n : l \in [1 .. m -> S]
  BY DEF Lists
<1>2. m \in Nat
  OBVIOUS
<1>. QED BY <1>1, <1>2, FunctionIsList

LEMMA SubSeqNext ==
  ASSUME NEW S, NEW l \in Seq(S), NEW a \in Nat, NEW b \in Nat, a =< b, b =< Len(l)
  PROVE  /\ SubSeq(l, 1, a) \o SubSeq(l, a + 1, b) = SubSeq(l, 1, b)
         /\ SubSeq(l, 1, Len(l)) = l
<1>. DEFINE p == SubSeq(l, 1, a)
            q == SubSeq(l, a + 1, b)
            r == SubSeq(l, 1, b)
<1>1. Len(l) \in Nat
  OBVIOUS
<1>2. p \in Seq(S) /\ Len(p) = a /\ \A i \in 1 .. a : p[i] = l[i]
  BY <1>1
<1>3. q \in Seq(S) /\ Len(q) = b - a /\ \A i \in 1 .. b - a : q[i] = l[a + i]
  BY <1>1
<1>4. r \in Seq(S) /\ Len(r) = b /\ \A i \in 1 .. b : r[i] = l[i]
  BY <1>1
<1>5. SubSeq(l, 1, Len(l)) = l
  <2>1. /\ SubSeq(l, 1, Len(l)) \in Seq(S) /\ Len(SubSeq(l, 1, Len(l))) = Len(l)
        /\ \A i \in 1 .. Len(l) : SubSeq(l, 1, Len(l))[i] = l[i]
    BY <1>1
  <2>. QED BY <2>1, SeqEqual, Zenon
<1>. HIDE DEF p, q, r
<1>6. /\ p \o q \in Seq(S) /\ Len(p \o q) = b
      /\ \A i \in 1 .. a : (p \o q)[i] = p[i]
      /\ \A i \in 1 .. b - a : (p \o q)[a + i] = q[i]
  <2>1. /\ p \o q \in Seq(S) /\ Len(p \o q) = Len(p) + Len(q)
        /\ \A i \in 1 .. Len(p) + Len(q) :
             (p \o q)[i] = IF i <= Len(p) THEN p[i] ELSE q[i - Len(p)]
    BY <1>2, <1>3, ConcatProperties
  <2>2. Len(p) = a /\ Len(q) = b - a /\ Len(p \o q) = b
    BY <1>2, <1>3, <2>1
  <2>3. \A i \in 1 .. a : (p \o q)[i] = p[i]
    BY <2>1, <2>2
  <2>4. ASSUME NEW i \in 1 .. b - a PROVE (p \o q)[a + i] = q[i]
    <3>1. a + i \in 1 .. b /\ ~(a + i <= a) /\ (a + i) - a = i
      OBVIOUS
    <3>. QED BY <2>1, <2>2, <3>1
  <2>. QED BY <2>1, <2>2, <2>3, <2>4
<1>7. ASSUME NEW i \in 1 .. b PROVE (p \o q)[i] = r[i]
  <2>1. CASE i =< a
    BY <1>2, <1>4, <1>6, <2>1
  <2>2. CASE ~(i =< a)
    <3>1. i - a \in 1 .. b - a /\ a + (i - a) = i
      BY <2>2
    <3>2. (p \o q)[i] = q[i - a] /\ q[i - a] = l[i]
      BY <1>3, <1>6, <3>1
    <3>. QED BY <1>4, <3>2
  <2>. QED BY <2>1, <2>2
<1>8. p \o q = r
  <2>1. Len(p \o q) = Len(r) /\ \A i \in 1 .. Len(p \o q) : (p \o q)[i] = r[i]
    BY <1>4, <1>6, <1>7
  <2>. QED BY <1>4, <1>6, <2>1, SeqEqual, Zenon
<1>. QED BY <1>5, <1>8 DEF p, q, r

LEMMA AnnotatedKeepsIds ==
  ASSUME NEW h \in Hit
  PROVE  Annotated(h).ids = h.ids
<1>1. \A p : [h EXCEPT !.paperId = p].ids = h.ids
  BY DEF Hit
<1>. QED BY <1>1, Zenon DEF Annotated

(* The answer is a list in which the identifiers of every record occur.    *)
LEMMA FinishedProperties ==
  ASSUME TypeInv, NEW S, NEW found \in Seq(S), Finished(found)
  PROVE  /\ IsList(answer') /\ Len(answer') \in Nat
         /\ \A r \in 1 .. Len(out) :
              \E j \in 1 .. Len(answer') : answer'[j].ids = out[r].ids
<1>. DEFINE all == out \o found
            told == [i \in DOMAIN all |-> Annotated(all[i])]
            n == Len(out) + Len(found)
<1>1. out \in Seq(Hit) /\ Len(out) \in Nat /\ Len(found) \in Nat
  BY Typed
<1>2. /\ n \in Nat /\ DOMAIN all = 1 .. n
      /\ \A r \in 1 .. Len(out) : r \in 1 .. n /\ all[r] = out[r] /\ out[r] \in Hit
  BY <1>1
<1>3. answer' = Ranked(all) \/ answer' = Ranked(told)
  BY Zenon DEF Finished
<1>. HIDE DEF all
<1>4. /\ DOMAIN told = 1 .. n
      /\ \A r \in 1 .. Len(out) : told[r] = Annotated(all[r])
  BY <1>2
<1>. HIDE DEF told, n
<1>5. \A r \in 1 .. Len(out) : told[r].ids = out[r].ids
  BY <1>2, <1>4, AnnotatedKeepsIds
<1>6. ASSUME NEW list, DOMAIN list = 1 .. n, answer' = Ranked(list),
             \A r \in 1 .. Len(out) : list[r].ids = out[r].ids
      PROVE  /\ IsList(answer') /\ Len(answer') \in Nat
             /\ \A r \in 1 .. Len(out) :
                  \E j \in 1 .. Len(answer') : answer'[j].ids = out[r].ids
  <2>1. /\ IsList(answer') /\ Len(answer') = n
        /\ \A i \in 1 .. n : \E p \in 1 .. n : answer'[p] = list[i]
    BY <1>2, <1>6, RankedProperties
  <2>2. ASSUME NEW r \in 1 .. Len(out)
        PROVE  \E j \in 1 .. Len(answer') : answer'[j].ids = out[r].ids
    <3>1. PICK p \in 1 .. n : answer'[p] = list[r]
      BY <1>2, <2>1
    <3>2. answer'[p].ids = out[r].ids
      BY <1>6, <3>1, Zenon
    <3>. QED BY <2>1, <3>2
  <2>. QED BY <1>2, <2>1, <2>2
<1>7. CASE answer' = Ranked(all)
  BY <1>2, <1>6, <1>7
<1>8. CASE answer' = Ranked(told)
  BY <1>4, <1>5, <1>6, <1>8
<1>. QED BY <1>3, <1>7, <1>8

(* The client has read the answer up to the offset.                        *)
PageInv ==
  /\ IsList(answer) /\ Len(answer) \in Nat
  /\ offset \in Nat /\ offset =< Len(answer)
  /\ stage \in {"asking", "merging"} => offset = 0 /\ shown = <<>>
  /\ PagesCoverOnce

RecordsAnswered ==
  stage \in {"paging", "closed"} =>
    /\ pc = "done"
    /\ \A r \in 1 .. Len(out) :
         \E j \in 1 .. Len(answer) : answer[j].ids = out[r].ids

AnswerInv == PageInv /\ RecordsAnswered

LEMMA PageLimitPositive ==
  ASSUME request \in Requests
  PROVE  PageLimit \in Nat /\ PageLimit >= 1
<1>1. request.limit \in Nat
  BY RequestsAssumption DEF Request
<1>2. DefaultPage \in Nat /\ DefaultPage >= 1 /\ MaxPage \in Nat /\ MaxPage >= 1
  BY RequestsAssumption
<1>. QED BY <1>1, <1>2 DEF PageLimit

LEMMA AnswerReadPage ==
  ASSUME AskInv, AnswerInv, ReadPage
  PROVE  AnswerInv'
<1>. DEFINE T == {answer[i] : i \in DOMAIN answer}
<1>1. /\ answer \in Seq(T) /\ Len(answer) \in Nat
      /\ offset \in Nat /\ offset =< Len(answer)
      /\ stage = "paging" /\ shown = SubSeq(answer, 1, offset)
  BY DEF AnswerInv, PageInv, PagesCoverOnce, IsList, ReadPage
<1>. HIDE DEF T
<1>2. PageLimit \in Nat /\ PageLimit >= 1
  BY PageLimitPositive DEF AskInv, AskType
<1>3. /\ PageEnd \in Nat /\ offset =< PageEnd /\ PageEnd =< Len(answer)
      /\ PageEnd < Len(answer) => PageEnd = offset + PageLimit
      /\ ~(PageEnd < Len(answer)) => PageEnd = Len(answer)
  BY <1>1, <1>2 DEF PageEnd
<1>4. /\ shown' = shown \o SubSeq(answer, offset + 1, PageEnd)
      /\ answer' = answer /\ out' = out /\ pc' = pc
      /\ \/ PageEnd < Len(answer) /\ offset' = offset + PageLimit /\ stage' = stage
         \/ ~(PageEnd < Len(answer)) /\ offset' = offset /\ stage' = "closed"
  BY Zenon DEF ReadPage, vars
<1>5. shown' = SubSeq(answer, 1, PageEnd) /\ SubSeq(answer, 1, Len(answer)) = answer
  BY <1>1, <1>3, <1>4, SubSeqNext
<1>6. RecordsAnswered'
  BY <1>1, <1>4 DEF AnswerInv, RecordsAnswered
<1>7. IsList(answer') /\ Len(answer') \in Nat
  BY <1>4 DEF AnswerInv, PageInv
<1>8. CASE PageEnd < Len(answer)
  <2>1. offset' = PageEnd /\ stage' = "paging" /\ shown' = SubSeq(answer', 1, offset')
    BY <1>1, <1>3, <1>4, <1>5, <1>8
  <2>. QED BY <1>3, <1>4, <1>6, <1>7, <2>1 DEF AnswerInv, PageInv, PagesCoverOnce
<1>9. CASE ~(PageEnd < Len(answer))
  <2>1. offset' = offset /\ stage' = "closed" /\ shown' = answer'
    BY <1>3, <1>4, <1>5, <1>9
  <2>. QED BY <1>1, <1>4, <1>6, <1>7, <2>1 DEF AnswerInv, PageInv, PagesCoverOnce
<1>. QED BY <1>8, <1>9

LEMMA AnswerResearch ==
  ASSUME TypeInv, AskInv, AnswerInv, SearchResearch
  PROVE  AnswerInv'
<1>1. /\ stage = "merging" /\ pc = "done" /\ stage' = "paging"
      /\ UNCHANGED <<pc, out, offset, shown>>
  BY DEF SearchResearch, vars
<1>2. PICK found \in Seq(ResearchHits) : Finished(found)
  <2>1. \/ Finished(<<>>)
        \/ \E found \in Lists(ResearchHits, 1) : Finished(found)
    BY DEF SearchResearch, ResearchFound
  <2>2. <<>> \in Seq(ResearchHits) /\ 1 \in Nat
    OBVIOUS
  <2>. QED BY <2>1, <2>2, ListsAreLists
<1>3. /\ IsList(answer') /\ Len(answer') \in Nat
      /\ \A r \in 1 .. Len(out) :
           \E j \in 1 .. Len(answer') : answer'[j].ids = out[r].ids
  BY <1>2, FinishedProperties
<1>4. RecordsAnswered'
  BY <1>1, <1>3 DEF RecordsAnswered
<1>5. offset' = 0 /\ shown' = <<>>
  BY <1>1 DEF AnswerInv, PageInv
<1>6. SubSeq(answer', 1, 0) = <<>>
  <2>1. answer' \in Seq({answer'[i] : i \in DOMAIN answer'})
    BY <1>3 DEF IsList
  <2>. QED BY <2>1
<1>7. PageInv'
  BY <1>1, <1>3, <1>5, <1>6 DEF PageInv, PagesCoverOnce
<1>. QED BY <1>4, <1>7 DEF AnswerInv

LEMMA AnswerKept ==
  ASSUME AnswerInv, stage' \in {"asking", "merging"},
         stage \in {"asking", "merging"}, UNCHANGED <<answer, offset, shown>>
  PROVE  AnswerInv'
BY DEF AnswerInv, PageInv, RecordsAnswered, PagesCoverOnce

LEMMA AnswerNext ==
  TypeInv /\ AskInv /\ AnswerInv /\ [SearchNext]_<<vars, searchVars>> => AnswerInv'
<1>. SUFFICES ASSUME TypeInv, AskInv, AnswerInv, [SearchNext]_<<vars, searchVars>>
              PROVE  AnswerInv'
  OBVIOUS
<1>1. CASE Asking
  <2>1. /\ stage = "asking" /\ stage' \in {"asking", "merging"}
        /\ UNCHANGED <<answer, offset, shown>>
    BY <1>1 DEF Asking, SourceAnswers, SourceFails, Collect, ResolveDoi, CacheOnly,
                UnchangedPages
  <2>. QED BY <2>1, AnswerKept
<1>2. CASE Merging \/ SearchCorpus
  <2>1. /\ stage = "merging" /\ stage' = "merging"
        /\ UNCHANGED <<answer, offset, shown>>
    BY <1>2 DEF Merging, SearchCorpus, UnchangedSearch, UnchangedPages
  <2>. QED BY <2>1, AnswerKept
<1>3. CASE SearchResearch
  BY <1>3, AnswerResearch
<1>4. CASE ReadPage
  BY <1>4, AnswerReadPage
<1>5. CASE UNCHANGED <<vars, searchVars>>
  <2>1. UNCHANGED <<pc, out, stage, answer, offset, shown>>
    BY <1>5 DEF vars, searchVars
  <2>. QED BY <2>1 DEF AnswerInv, PageInv, RecordsAnswered, PagesCoverOnce, IsList
<1>. QED BY <1>1, <1>2, <1>3, <1>4, <1>5 DEF SearchNext

LEMMA AnswerStarts == SearchInit => AnswerInv
<1>. SUFFICES ASSUME SearchInit PROVE AnswerInv
  OBVIOUS
<1>1. answer = <<>> /\ offset = 0 /\ shown = <<>> /\ stage = "asking"
  BY DEF SearchInit, AskInit
<1>2. IsList(<<>>) /\ Len(<<>>) = 0
  BY DEF IsList
<1>. QED BY <1>1, <1>2 DEF AnswerInv, PageInv, RecordsAnswered, PagesCoverOnce

LEMMA AnswerInvariant == SearchSpec => []AnswerInv
BY AnswerStarts, AnswerNext, AskInvariant, SearchImplementsMerge, TypeInvariant, PTL
DEF SearchSpec, MergeSpec

(* The pages are the ranked hits, each once, for any page sizes and any    *)
(* limit the client gave (page_limit and the slice of search_papers).      *)
THEOREM PagesAreTheAnswer == SearchSpec => []PagesCoverOnce
<1>1. AnswerInv => PagesCoverOnce
  BY DEF AnswerInv, PageInv
<1>. QED BY <1>1, AnswerInvariant, PTL
-----------------------------------------------------------------------------
(* Nothing is lost.                                                        *)

LEMMA NothingLostWhenClosed ==
  ASSUME TypeInv, CoverInv, IdentifiersAgree, AskInv, AnswerInv
  PROVE  NothingLost
<1>. SUFFICES ASSUME stage = "closed", NEW s \in Present,
                     NEW i \in DOMAIN outcome[s].hits, NEW k \in Kinds,
                     Key(outcome[s].hits[i].ids[k]) # None,
                     \A j \in DOMAIN hits : hits[j].ids[k] \notin Keyless,
                     \A j \in DOMAIN cached : cached[j].ids[k] \notin Keyless
              PROVE  \E j \in DOMAIN shown :
                       Key(shown[j].ids[k]) = Key(outcome[s].hits[i].ids[k])
  BY Zenon DEF NothingLost
<1>. DEFINE text == outcome[s].hits[i].ids[k]
<1>1. text \in Identifiers
  BY DEF Key
<1>2. PICK p \in 1 .. Len(hits) : hits[p] = outcome[s].hits[i]
  <2>1. outcome[s].hits \in Seq(External)
    BY DEF AskInv, AskType
  <2>2. i \in 1 .. Len(outcome[s].hits)
    BY <2>1
  <2>. QED BY <2>2 DEF AskInv, HitsArrived
<1>3. /\ hits \in Seq(Hit) /\ cached \in Seq(Hit) /\ Len(out) \in Nat
      /\ Len(hits) \in Nat /\ Len(cached) \in Nat /\ out \in Seq(Hit)
  BY Typed
<1>4. PICK r \in 1 .. Len(out) : p \in from[r]
  <2>1. taken = Len(hits)
    BY DEF AnswerInv, RecordsAnswered, CoverInv, AllTaken
  <2>2. p \in 1 .. taken
    BY <2>1
  <2>. QED BY <2>2 DEF CoverInv, EachHeld
<1>. DEFINE texts == TextsAt(from[r], k)
<1>5. text \in texts
  <2>1. InputAt(p) = hits[p]
    BY <1>3 DEF InputAt
  <2>2. InputAt(p).ids[k] = text
    BY <1>2, <2>1
  <2>. QED BY <1>4, <2>2 DEF TextsAt
<1>6. texts \cap Keyless = {}
  <2>1. ASSUME NEW q \in from[r] PROVE InputAt(q).ids[k] \notin Keyless
    <3>1. q \in 1 .. Len(hits) + Len(cached)
      BY FromEverywhere DEF Everywhere
    <3>2. CASE q <= Len(hits)
      <4>1. q \in DOMAIN hits /\ InputAt(q) = hits[q]
        BY <1>3, <3>1, <3>2 DEF InputAt
      <4>. QED BY <4>1
    <3>3. CASE ~(q <= Len(hits))
      <4>1. q - Len(hits) \in DOMAIN cached /\ InputAt(q) = cached[q - Len(hits)]
        BY <1>3, <3>1, <3>3 DEF InputAt
      <4>. QED BY <4>1
    <3>. QED BY <3>2, <3>3
  <2>. QED BY <2>1 DEF TextsAt
<1>7. Shows(out[r].ids[k], texts)
  <2>1. r \in DOMAIN out
    BY <1>3
  <2>. QED BY <2>1 DEF IdentifiersAgree
<1>. HIDE DEF texts, text
<1>8. out[r].ids[k] = text
  BY <1>1, <1>5, <1>6, <1>7 DEF Shows
<1>9. PICK j \in 1 .. Len(answer) : answer[j].ids = out[r].ids
  BY DEF AnswerInv, RecordsAnswered
<1>10. shown = answer /\ j \in DOMAIN answer
  <2>1. answer \in Seq({answer[n] : n \in DOMAIN answer})
    BY DEF AnswerInv, PageInv, IsList
  <2>. QED BY <2>1 DEF AnswerInv, PageInv, PagesCoverOnce
<1>11. shown[j].ids[k] = text
  BY <1>8, <1>9, <1>10
<1>. QED BY <1>10, <1>11 DEF text

(* Every identifier a source reported reaches the client, through any      *)
(* chain of merges, any copies in their place and any ranking; texts       *)
(* without a key are excepted (dedupe, merge_prefer_cached, the ranking    *)
(* and the pages of search_papers).                                        *)
THEOREM NoIdentifierIsLost == SearchSpec => []NothingLost
<1>1. Spec => []TypeInv /\ []CoverInv /\ []IdentifiersAgree
  BY TypeInvariant, CoverInvariant, IdentifiersNeverMix, PTL
<1>. QED BY <1>1, NothingLostWhenClosed, SearchImplementsMerge, AskInvariant,
            AnswerInvariant, PTL DEF MergeSpec

-----------------------------------------------------------------------------
(* The diagnostics.                                                        *)

LEMMA TimesOnce ==
  ASSUME NEW S, NEW l \in Seq(S), Once(l), NEW s
  PROVE  Times(s, l) = IF Has(l, s) THEN 1 ELSE 0
<1>. DEFINE P == {i \in DOMAIN l : l[i] = s}
<1>1. DOMAIN l = 1 .. Len(l)
  OBVIOUS
<1>2. CASE Has(l, s)
  <2>1. PICK i \in 1 .. Len(l) : l[i] = s
    BY <1>2 DEF Has
  <2>2. P = {i}
    BY <1>1, <2>1 DEF Once
  <2>. QED BY <1>2, <2>2, FS_Singleton, Zenon DEF Times
<1>3. CASE ~Has(l, s)
  <2>1. P = {}
    BY <1>1, <1>3 DEF Has
  <2>2. Cardinality({}) = 0
    BY FS_EmptySet, Zenon
  <2>. QED BY <1>3, <2>1, <2>2, Zenon DEF Times
<1>. QED BY <1>2, <1>3

(* A list of sources without repetition, and a source that is not in it.   *)
SourceList(l) == l \in Seq(AllSources) /\ Once(l)

LEMMA AppendOnce ==
  ASSUME NEW l, SourceList(l), NEW e \in AllSources, ~Has(l, e)
  PROVE  /\ SourceList(Append(l, e))
         /\ \A s : Has(Append(l, e), s) <=> Has(l, s) \/ s = e
<1>. DEFINE m == Append(l, e)
<1>1. l \in Seq(AllSources) /\ Len(l) \in Nat
  BY DEF SourceList
<1>2. /\ m \in Seq(AllSources) /\ Len(m) = Len(l) + 1
      /\ m[Len(l) + 1] = e /\ \A i \in 1 .. Len(l) : m[i] = l[i]
  BY <1>1
<1>3. \A i \in 1 .. Len(m) : i \in 1 .. Len(l) \/ i = Len(l) + 1
  BY <1>1, <1>2
<1>4. \A i \in 1 .. Len(l) : i \in 1 .. Len(m)
  BY <1>1, <1>2
<1>5. Len(l) + 1 \in 1 .. Len(m)
  BY <1>1, <1>2
<1>. HIDE DEF m
<1>6. Once(m)
  BY <1>2, <1>3 DEF Once, Has, SourceList
<1>7. \A s : Has(m, s) <=> Has(l, s) \/ s = e
  BY <1>2, <1>3, <1>4, <1>5, Zenon DEF Has
<1>. QED BY <1>2, <1>6, <1>7 DEF SourceList, m

(* The sources that are asked outside.                                     *)
Asked == IF DirectCrossref THEN {"crossref"} ELSE Enabled

OneOf(a, b, c) == (a \/ b \/ c) /\ ~(a /\ b) /\ ~(a /\ c) /\ ~(b /\ c)

Reported(s) == OneOf(Has(ok, s), Has(skipped, s), Has(failed, s))

Unreported(s) == ~Has(ok, s) /\ ~Has(skipped, s) /\ ~Has(failed, s)

Lists3 == SourceList(ok) /\ SourceList(skipped) /\ SourceList(failed)

OutsideReported ==
  /\ stage = "asking" => ok = <<>> /\ skipped = <<>> /\ failed = <<>>
  /\ stage # "asking" =>
       /\ \A s \in Asked : Reported(s)
       /\ \A s \in Present \ Asked : Unreported(s)
  /\ DirectCrossref => ~Has(skipped, "crossref")

CorpusReported ==
  /\ InLoop => Unreported("paperseed")
  /\ ~Has(skipped, "paperseed") /\ ~(Has(ok, "paperseed") /\ Has(failed, "paperseed"))

ResearchReported ==
  IF stage \in {"paging", "closed"} /\ Names("research")
  THEN Reported("research") ELSE Unreported("research")

AccountInv == Lists3 /\ OutsideReported /\ CorpusReported /\ ResearchReported

LEMMA HasSmall ==
  /\ \A s : ~Has(<<>>, s)
  /\ \A e, s : Has(<<e>>, s) <=> s = e
  /\ SourceList(<<>>)
  /\ \A e \in AllSources : SourceList(<<e>>)
<1>1. \A s : ~Has(<<>>, s)
  BY DEF Has
<1>2. \A e, s : Has(<<e>>, s) <=> s = e
  <2>. TAKE e, s
  <2>1. Len(<<e>>) = 1 /\ <<e>>[1] = e /\ \A i \in 1 .. 1 : i = 1
    OBVIOUS
  <2>2. 1 \in 1 .. 1
    OBVIOUS
  <2>. QED BY <2>1, <2>2, Zenon DEF Has
<1>3. SourceList(<<>>)
  BY DEF SourceList, Once
<1>4. \A e \in AllSources : SourceList(<<e>>)
  BY DEF SourceList, Once
<1>. QED BY <1>1, <1>2, <1>3, <1>4

LEMMA SourcesAreNamed ==
  /\ Present \subseteq AllSources /\ Asked \subseteq Present
  /\ "paperseed" \in AllSources /\ "research" \in AllSources
BY RequestsAssumption, PresentAreSources, Zenon DEF AllSources, Asked

LEMMA RequestKept ==
  ASSUME request' = request
  PROVE  /\ Asked' = Asked /\ Names("research")' = Names("research")
         /\ DirectCrossref' = DirectCrossref
BY Zenon DEF Asked, Enabled, FanOut, DirectCrossref, CacheMode, Names

LEMMA AccountStarts == SearchInit => AccountInv
<1>. SUFFICES ASSUME SearchInit PROVE AccountInv
  OBVIOUS
<1>1. ok = <<>> /\ skipped = <<>> /\ failed = <<>> /\ stage = "asking"
  BY DEF SearchInit, AskInit
<1>2. \A s : Unreported(s)
  BY <1>1, HasSmall, Zenon DEF Unreported
<1>3. Lists3 /\ OutsideReported
  BY <1>1, HasSmall DEF Lists3, OutsideReported
<1>4. CorpusReported /\ ResearchReported
  BY <1>1, <1>2, HasSmall DEF CorpusReported, ResearchReported
<1>. QED BY <1>3, <1>4 DEF AccountInv

LEMMA AccountKept ==
  ASSUME AccountInv, UNCHANGED <<ok, skipped, failed, request>>,
         InLoop' => InLoop,
         stage' = stage \/ (stage = "paging" /\ stage' = "closed")
  PROVE  AccountInv'
<1>1. \A s : Reported(s)' = Reported(s) /\ Unreported(s)' = Unreported(s)
  BY DEF Reported, Unreported
<1>2. Lists3' /\ OutsideReported'
  BY <1>1, RequestKept DEF AccountInv, Lists3, OutsideReported
<1>3. CorpusReported'
  BY <1>1 DEF AccountInv, CorpusReported
<1>4. ResearchReported'
  BY <1>1, RequestKept DEF AccountInv, ResearchReported
<1>. QED BY <1>2, <1>3, <1>4 DEF AccountInv

(* What is reported of the sources that were asked, whatever way.          *)
LEMMA AccountAsked ==
  ASSUME AccountInv, stage' = "merging", request' = request, Lists3',
         \A s \in Asked : Reported(s)', \A s \in Present \ Asked : Unreported(s)',
         Unreported("paperseed")', Unreported("research")',
         DirectCrossref => ~Has(skipped', "crossref")
  PROVE  AccountInv'
<1>1. OutsideReported'
  BY RequestKept DEF OutsideReported
<1>2. CorpusReported'
  BY DEF CorpusReported, Unreported
<1>3. ResearchReported'
  BY DEF ResearchReported
<1>. QED BY <1>1, <1>2, <1>3 DEF AccountInv

LEMMA AccountCollect ==
  ASSUME AskInv, AccountInv, Collect
  PROVE  AccountInv'
<1>1. /\ ok' = WithStatus("ok") /\ skipped' = WithStatus("skipped")
      /\ failed' = WithStatus("failed")
      /\ FanOut /\ Waiting = {} /\ stage' = "merging" /\ request' = request
  BY DEF Collect, UnchangedRequest
<1>2. Asked = Enabled
  BY <1>1 DEF Asked, FanOut
<1>3. /\ ok' \in Seq(Present) /\ Once(ok')
      /\ \A s \in Present : Has(ok', s) <=> s \in Enabled /\ outcome[s].status = "ok"
  BY <1>1, EnabledInOrder
<1>4. /\ skipped' \in Seq(Present) /\ Once(skipped')
      /\ \A s \in Present : Has(skipped', s)
                              <=> s \in Enabled /\ outcome[s].status = "skipped"
  BY <1>1, EnabledInOrder
<1>5. /\ failed' \in Seq(Present) /\ Once(failed')
      /\ \A s \in Present : Has(failed', s)
                              <=> s \in Enabled /\ outcome[s].status = "failed"
  BY <1>1, EnabledInOrder
<1>6. \A l \in Seq(Present) : \A s : Has(l, s) => s \in Present
  BY DEF Has
<1>7. \A l \in Seq(Present) : l \in Seq(AllSources)
  BY SourcesAreNamed
<1>8. Lists3'
  BY <1>3, <1>4, <1>5, <1>7 DEF Lists3, SourceList
<1>9. Unreported("paperseed")' /\ Unreported("research")'
  BY <1>3, <1>4, <1>5, <1>6, PresentAreSources DEF Unreported
<1>10. ASSUME NEW s \in Present \ Asked PROVE Unreported(s)'
  BY <1>2, <1>3, <1>4, <1>5 DEF Unreported
<1>11. ASSUME NEW s \in Asked PROVE Reported(s)'
  <2>1. s \in Present /\ s \in Enabled
    BY <1>2, SourcesAreNamed
  <2>2. outcome[s].status \in Statuses
    BY <2>1 DEF AskInv, AskType
  <2>3. outcome[s].status \in {"ok", "skipped", "failed"}
    BY <1>1, <2>1, <2>2 DEF Waiting, Statuses
  <2>. QED BY <1>3, <1>4, <1>5, <2>1, <2>3 DEF Reported, OneOf
<1>12. ~DirectCrossref
  BY <1>1 DEF FanOut
<1>. QED BY <1>1, <1>8, <1>9, <1>10, <1>11, <1>12, AccountAsked

LEMMA AccountResolve ==
  ASSUME AccountInv, ResolveDoi
  PROVE  AccountInv'
<1>1. /\ DirectCrossref /\ stage' = "merging" /\ request' = request
      /\ skipped' = <<>>
      /\ \/ ok' = <<"crossref">> /\ failed' = <<>>
         \/ ok' = <<>> /\ failed' = <<"crossref">>
  BY DEF ResolveDoi, UnchangedRequest, AccountInv, OutsideReported
<1>2. Asked = {"crossref"}
  BY <1>1 DEF Asked
<1>3. "crossref" \in AllSources /\ "crossref" \in Present
  BY PresentAreSources, SourcesAreNamed
<1>4. Lists3'
  BY <1>1, <1>3, HasSmall DEF Lists3
<1>5. Reported("crossref")' /\ \A s : s # "crossref" => Unreported(s)'
  BY <1>1, HasSmall DEF Reported, Unreported, OneOf
<1>6. ~Has(skipped', "crossref")
  BY <1>1, HasSmall
<1>. QED BY <1>1, <1>2, <1>3, <1>4, <1>5, <1>6, PresentAreSources, AccountAsked

LEMMA AccountCacheOnly ==
  ASSUME AccountInv, CacheOnly
  PROVE  AccountInv'
<1>1. /\ CacheMode = "only" /\ stage' = "merging" /\ request' = request
      /\ ok' = <<>> /\ skipped' = <<>> /\ failed' = <<>>
  BY DEF CacheOnly, UnchangedRequest, AccountInv, OutsideReported
<1>2. Asked = {}
  BY <1>1 DEF Asked, Enabled, FanOut, DirectCrossref
<1>3. Lists3'
  BY <1>1, HasSmall DEF Lists3
<1>4. \A s : Unreported(s)'
  BY <1>1, HasSmall DEF Unreported
<1>. QED BY <1>1, <1>2, <1>3, <1>4, HasSmall, AccountAsked

LEMMA AccountCorpus ==
  ASSUME AccountInv, SearchCorpus
  PROVE  AccountInv'
<1>1. /\ stage = "merging" /\ stage' = "merging" /\ request' = request
      /\ InLoop /\ ~InLoop' /\ skipped' = skipped
      /\ \/ ok' = ok /\ failed' = failed
         \/ ok' = Append(ok, "paperseed") /\ failed' = failed
         \/ ok' = ok /\ failed' = Append(failed, "paperseed")
  BY DEF SearchCorpus, SearchCached, UnchangedSearch, UnchangedRequest, InLoop
<1>2. Lists3 /\ Unreported("paperseed") /\ "paperseed" \in AllSources
  BY <1>1, SourcesAreNamed DEF AccountInv, CorpusReported
<1>3. /\ SourceList(Append(ok, "paperseed")) /\ SourceList(Append(failed, "paperseed"))
      /\ \A s : Has(Append(ok, "paperseed"), s) <=> Has(ok, s) \/ s = "paperseed"
      /\ \A s : Has(Append(failed, "paperseed"), s)
                  <=> Has(failed, s) \/ s = "paperseed"
  BY <1>2, AppendOnce DEF Lists3, Unreported
<1>4. Lists3'
  BY <1>1, <1>2, <1>3 DEF Lists3
<1>5. /\ \A s : s # "paperseed" => (Has(ok', s) <=> Has(ok, s))
      /\ \A s : s # "paperseed" => (Has(failed', s) <=> Has(failed, s))
  BY <1>1, <1>3, Zenon
<1>6. \A s : s # "paperseed" => /\ Reported(s)' <=> Reported(s)
                                /\ Unreported(s)' <=> Unreported(s)
  <2>1. \A s : Has(skipped', s) <=> Has(skipped, s)
    BY <1>1
  <2>. QED BY <1>5, <2>1, Zenon DEF Reported, Unreported, OneOf
<1>7. OutsideReported'
  BY <1>1, <1>6, PresentAreSources, SourcesAreNamed, RequestKept
  DEF AccountInv, OutsideReported
<1>8. CorpusReported'
  BY <1>1, <1>2, <1>3 DEF CorpusReported, Unreported
<1>9. ResearchReported'
  BY <1>1, <1>6 DEF AccountInv, ResearchReported
<1>. QED BY <1>4, <1>7, <1>8, <1>9 DEF AccountInv

LEMMA AccountResearch ==
  ASSUME AccountInv, SearchResearch
  PROVE  AccountInv'
<1>1. /\ stage = "merging" /\ stage' = "paging" /\ request' = request /\ pc' = pc
      /\ \/ ~Names("research") /\ UNCHANGED <<ok, skipped, failed>>
         \/ /\ Names("research") /\ UNCHANGED <<ok, failed>>
            /\ skipped' = Append(skipped, "research")
         \/ /\ Names("research") /\ UNCHANGED <<skipped, failed>>
            /\ ok' = Append(ok, "research")
         \/ /\ Names("research") /\ UNCHANGED <<ok, skipped>>
            /\ failed' = Append(failed, "research")
  BY Zenon DEF SearchResearch, UnchangedRequest, vars
<1>2. Lists3 /\ Unreported("research") /\ "research" \in AllSources
  BY <1>1, SourcesAreNamed DEF AccountInv, ResearchReported
<1>3. \A l : SourceList(l) /\ ~Has(l, "research") =>
        /\ SourceList(Append(l, "research"))
        /\ \A s : Has(Append(l, "research"), s) <=> Has(l, s) \/ s = "research"
  BY <1>2, AppendOnce
<1>4. /\ SourceList(Append(ok, "research")) /\ SourceList(Append(skipped, "research"))
      /\ SourceList(Append(failed, "research"))
      /\ \A s : Has(Append(ok, "research"), s) <=> Has(ok, s) \/ s = "research"
      /\ \A s : Has(Append(skipped, "research"), s)
                  <=> Has(skipped, s) \/ s = "research"
      /\ \A s : Has(Append(failed, "research"), s) <=> Has(failed, s) \/ s = "research"
  BY <1>2, <1>3 DEF Lists3, Unreported
<1>5. Lists3'
  BY <1>1, <1>2, <1>4 DEF Lists3
<1>6. /\ \A s : s # "research" => (Has(ok', s) <=> Has(ok, s))
      /\ \A s : s # "research" => (Has(skipped', s) <=> Has(skipped, s))
      /\ \A s : s # "research" => (Has(failed', s) <=> Has(failed, s))
  BY <1>1, <1>4, Zenon
<1>7. \A s : s # "research" => /\ Reported(s)' <=> Reported(s)
                               /\ Unreported(s)' <=> Unreported(s)
  BY <1>6, Zenon DEF Reported, Unreported, OneOf
<1>8. OutsideReported'
  <2>1. \A s \in Present : /\ Reported(s)' <=> Reported(s)
                           /\ Unreported(s)' <=> Unreported(s)
    <3>1. \A s \in Present : s # "research"
      BY PresentAreSources
    <3>. QED BY <1>7, <3>1, Zenon
  <2>2. Has(skipped', "crossref") <=> Has(skipped, "crossref")
    BY <1>6
  <2>. QED BY <1>1, <2>1, <2>2, SourcesAreNamed, RequestKept
           DEF AccountInv, OutsideReported
<1>9. CorpusReported'
  BY <1>1, <1>6, <1>7 DEF AccountInv, CorpusReported, InLoop
<1>10. ResearchReported'
  <2>1. CASE ~Names("research")
    BY <1>1, <1>2, <2>1, RequestKept DEF ResearchReported, Unreported
  <2>2. CASE Names("research")
    <3>1. Reported("research")'
      BY <1>1, <1>2, <1>4, <2>2 DEF Reported, Unreported, OneOf
    <3>. QED BY <1>1, <2>2, <3>1, RequestKept DEF ResearchReported
  <2>. QED BY <2>1, <2>2
<1>. QED BY <1>5, <1>8, <1>9, <1>10 DEF AccountInv

LEMMA AccountNext ==
  AskInv /\ AccountInv /\ [SearchNext]_<<vars, searchVars>> => AccountInv'
<1>. SUFFICES ASSUME AskInv, AccountInv, [SearchNext]_<<vars, searchVars>>
              PROVE  AccountInv'
  OBVIOUS
<1>1. CASE \E s \in Present : SourceAnswers(s) \/ SourceFails(s)
  <2>1. UNCHANGED <<ok, skipped, failed, request, stage, pc>>
    BY <1>1 DEF SourceAnswers, SourceFails, UnchangedRequest, vars
  <2>. QED BY <2>1, AccountKept DEF InLoop
<1>2. CASE Collect
  BY <1>2, AccountCollect
<1>3. CASE ResolveDoi
  BY <1>3, AccountResolve
<1>4. CASE CacheOnly
  BY <1>4, AccountCacheOnly
<1>5. CASE Merging
  <2>1. /\ UNCHANGED <<ok, skipped, failed, request, stage>>
        /\ InLoop' => InLoop
    BY <1>5 DEF Merging, UnchangedSearch, UnchangedRequest, Dedupe, MergePreferCached,
                TakeNew, TakeMatch, Absorb, PassOver, EndRecheck, PlaceAtEnd,
                ReplaceMatch, Finish, InLoop
  <2>. QED BY <2>1, AccountKept
<1>6. CASE SearchCorpus
  BY <1>6, AccountCorpus
<1>7. CASE SearchResearch
  BY <1>7, AccountResearch
<1>8. CASE ReadPage
  <2>1. /\ UNCHANGED <<ok, skipped, failed, request, pc>> /\ stage = "paging"
        /\ stage' = stage \/ stage' = "closed"
    BY <1>8 DEF ReadPage, UnchangedRequest, vars
  <2>. QED BY <2>1, AccountKept DEF InLoop
<1>9. CASE UNCHANGED <<vars, searchVars>>
  <2>1. UNCHANGED <<ok, skipped, failed, request, stage, pc>>
    BY <1>9 DEF vars, searchVars
  <2>. QED BY <2>1, AccountKept DEF InLoop
<1>. QED BY <1>1, <1>2, <1>3, <1>4, <1>5, <1>6, <1>7, <1>8, <1>9
         DEF SearchNext, Asking

LEMMA AccountedWhenClosed ==
  ASSUME AccountInv
  PROVE  EverySourceAccounted
<1>. SUFFICES ASSUME stage = "closed" PROVE EverySourceAccounted
  BY DEF EverySourceAccounted
<1>. DEFINE One(b) == IF b THEN 1 ELSE 0
<1>1. \A s : /\ Times(s, ok) = One(Has(ok, s))
             /\ Times(s, skipped) = One(Has(skipped, s))
             /\ Times(s, failed) = One(Has(failed, s))
  BY TimesOnce, Zenon DEF AccountInv, Lists3, SourceList
<1>2. ASSUME NEW s, Reported(s)
      PROVE  Times(s, ok) + Times(s, skipped) + Times(s, failed) = 1
  BY <1>1, <1>2 DEF Reported, OneOf
<1>3. ASSUME NEW s, Unreported(s)
      PROVE  Times(s, ok) + Times(s, skipped) + Times(s, failed) = 0
  BY <1>1, <1>3 DEF Unreported
<1>4. /\ \A s \in Asked : Reported(s)
      /\ \A s \in Present \ Asked : Unreported(s)
  BY DEF AccountInv, OutsideReported
<1>5. /\ \A s \in Enabled : s \in Asked
      /\ \A s \in (Present \ Enabled) \ {"crossref"} : s \in Present \ Asked
      /\ DirectCrossref => "crossref" \in Asked
  BY DEF Asked, Enabled, FanOut
<1>6. /\ \A s \in Enabled : Times(s, ok) + Times(s, skipped) + Times(s, failed) = 1
      /\ \A s \in (Present \ Enabled) \ {"crossref"} :
           Times(s, ok) + Times(s, skipped) + Times(s, failed) = 0
  BY <1>2, <1>3, <1>4, <1>5
<1>7. DirectCrossref => Times("crossref", ok) + Times("crossref", failed) = 1
  <2>1. DirectCrossref => Reported("crossref") /\ ~Has(skipped, "crossref")
    BY <1>4, <1>5 DEF AccountInv, OutsideReported
  <2>. QED BY <1>1, <2>1 DEF Reported, OneOf
<1>8. Times("paperseed", ok) + Times("paperseed", failed) <= 1
  <2>1. ~(Has(ok, "paperseed") /\ Has(failed, "paperseed"))
    BY DEF AccountInv, CorpusReported
  <2>. QED BY <1>1, <2>1
<1>9. Names("research") <=>
        Times("research", ok) + Times("research", skipped)
          + Times("research", failed) = 1
  <2>1. IF Names("research") THEN Reported("research") ELSE Unreported("research")
    BY DEF AccountInv, ResearchReported
  <2>. QED BY <1>2, <1>3, <2>1
<1>. HIDE DEF One
<1>. QED BY <1>6, <1>7, <1>8, <1>9 DEF EverySourceAccounted

(* Whatever the order of answers, errors and timers, the diagnostics of a  *)
(* search that has ended name every source it was to ask exactly once, and *)
(* no other (join_all, the loop over its results, search_papers).          *)
THEOREM SourcesAreAccounted == SearchSpec => []EverySourceAccounted
<1>1. SearchSpec => []AccountInv
  BY AccountStarts, AccountNext, AskInvariant, PTL DEF SearchSpec
<1>. QED BY <1>1, AccountedWhenClosed, PTL

=============================================================================
