------------------------ MODULE RequestRouter_proofs ------------------------
(***************************************************************************)
(* The safety of the request router, for any number of calls, origins and  *)
(* permits.  Every count is the size of a set of calls that a step of one  *)
(* call c can only change at c (lemma Counts); the inductive invariant     *)
(* RouterInv relates the counters of the code to these sizes.              *)
(***************************************************************************)
EXTENDS RequestRouterProperties, FiniteSetTheorems, TLAPS

(* The calls that have yet to make an attempt.                             *)
Owed == {c \in Calls : pc[c] \in {"cooldown", "sleep", "origin", "global",
                                  "recheck", "send"}}

(* The calls that found no cooldown and are about to send.                 *)
Senders(o) == {c \in Calls : OriginOf[c] = o /\ pc[c] = "send"}

AttemptsOK(c) ==
  /\ attempt[c] <= 2
  /\ pc[c] = "idle" \/ c \in Owed => attempt[c] <= 1

EarlyOK(o) ==
  IF cooldown[o] = 0 THEN earlySends[o] = 0
  ELSE earlySends[o] + Cardinality(Senders(o)) < PerOriginLimit

RouterInv ==
  /\ TypeOK
  /\ PermitsConserved
  /\ InFlightCovers
  /\ metrics["attempts"] + Cardinality(Owed)
       <= metrics["requests"] + metrics["retries"]
  /\ \A c \in Calls : AttemptsOK(c)
  /\ \A o \in Origins : EarlyOK(o)

-----------------------------------------------------------------------------
(* Counting                                                                *)

One(b) == IF b THEN 1 ELSE 0

(* From S to T only the membership of c may change.                        *)
Recount(S, T, c) ==
  /\ Cardinality(S) \in Nat /\ Cardinality(T) \in Nat
  /\ Cardinality(T) = Cardinality(S) + One(c \in T) - One(c \in S)

LEMMA RecountLemma ==
  ASSUME NEW S \in SUBSET Calls, NEW T \in SUBSET Calls, NEW c \in Calls,
         \A d \in Calls \ {c} : d \in S <=> d \in T
  PROVE  Recount(S, T, c)
<1>1. IsFiniteSet(S) /\ IsFiniteSet(T)
  BY RouterAssumption, FS_Subset
<1>2. Cardinality(S) \in Nat /\ Cardinality(T) \in Nat
  BY <1>1, FS_CardinalityType
<1>3. CASE c \in S <=> c \in T
  <2>1. S = T
    BY <1>3
  <2>. QED BY <1>2, <1>3, <2>1 DEF Recount, One
<1>4. CASE c \notin S /\ c \in T
  <2>1. T = S \cup {c}
    BY <1>4
  <2>2. Cardinality(T) = Cardinality(S) + 1
    BY <1>1, <1>4, <2>1, FS_AddElement
  <2>. QED BY <1>2, <1>4, <2>2 DEF Recount, One
<1>5. CASE c \in S /\ c \notin T
  <2>1. S = T \cup {c}
    BY <1>5
  <2>2. Cardinality(S) = Cardinality(T) + 1
    BY <1>1, <1>5, <2>1, FS_AddElement
  <2>. QED BY <1>2, <1>5, <2>2 DEF Recount, One
<1>. QED BY <1>3, <1>4, <1>5

(* What a step of c does to the counts.                                    *)
LEMMA Counts ==
  ASSUME TypeOK, NEW c \in Calls, \A d \in Calls \ {c} : pc'[d] = pc[d]
  PROVE  /\ \A o \in Origins : /\ Recount(OriginHolders(o), OriginHolders(o)', c)
                               /\ Recount(Senders(o), Senders(o)', c)
         /\ Recount(GlobalHolders, GlobalHolders', c)
         /\ Recount(Exchanging, Exchanging', c)
         /\ Recount(Owed, Owed', c)
<1>1. ASSUME NEW o \in Origins
      PROVE  /\ Recount(OriginHolders(o), OriginHolders(o)', c)
             /\ Recount(Senders(o), Senders(o)', c)
  BY RecountLemma DEF OriginHolders, Senders, HoldsOrigin, HoldsGlobal
<1>2. Recount(GlobalHolders, GlobalHolders', c)
  BY RecountLemma DEF GlobalHolders, HoldsGlobal
<1>3. Recount(Exchanging, Exchanging', c)
  BY RecountLemma DEF Exchanging
<1>4. Recount(Owed, Owed', c)
  BY RecountLemma DEF Owed
<1>. QED BY <1>1, <1>2, <1>3, <1>4

-----------------------------------------------------------------------------
(* The inductive invariant                                                 *)

LEMMA ExchangeCounted ==
  ASSUME RouterInv, NEW c \in Exchanging
  PROVE  inFlight > 0
<1>1. Recount(Exchanging \ {c}, Exchanging, c)
  BY RecountLemma DEF Exchanging
<1>. QED BY <1>1 DEF RouterInv, InFlightCovers, TypeOK, Recount, One

(* A call that holds a permit of o without being about to send leaves room.*)
LEMMA SendersBelowLimit ==
  ASSUME RouterInv, NEW o \in Origins, NEW c \in OriginHolders(o), c \notin Senders(o)
  PROVE  Cardinality(Senders(o)) < PerOriginLimit
<1>1. Recount(OriginHolders(o) \ {c}, OriginHolders(o), c)
  BY RecountLemma DEF OriginHolders
<1>2. Senders(o) \subseteq OriginHolders(o) \ {c}
  BY DEF Senders, OriginHolders, HoldsOrigin, HoldsGlobal
<1>3. IsFiniteSet(OriginHolders(o) \ {c})
  BY RouterAssumption, FS_Subset DEF OriginHolders
<1>4. /\ Cardinality(Senders(o)) <= Cardinality(OriginHolders(o) \ {c})
      /\ Cardinality(Senders(o)) \in Nat
  BY <1>2, <1>3, FS_Subset, FS_CardinalityType
<1>5. Cardinality(OriginHolders(o)) <= PerOriginLimit
  BY <1>1, RouterAssumption DEF RouterInv, PermitsConserved, TypeOK, Recount
<1>. QED BY <1>1, <1>4, <1>5, RouterAssumption DEF Recount, One

LEMMA InitRouterInv == Init => RouterInv
<1>. SUFFICES ASSUME Init PROVE RouterInv
  OBVIOUS
<1>1. TypeOK
  BY RouterAssumption DEF Init, TypeOK, Steps, Metrics
<1>2. /\ \A o \in Origins : OriginHolders(o) = {} /\ Senders(o) = {}
      /\ GlobalHolders = {} /\ Exchanging = {} /\ Owed = {}
  BY DEF Init, OriginHolders, Senders, GlobalHolders, Exchanging, Owed, HoldsOrigin,
         HoldsGlobal
<1>3. Cardinality({}) = 0
  BY FS_EmptySet
<1>4. PermitsConserved /\ InFlightCovers
  BY <1>2, <1>3, RouterAssumption DEF Init, PermitsConserved, InFlightCovers
<1>5. metrics["attempts"] + Cardinality(Owed) <= metrics["requests"] + metrics["retries"]
  BY <1>2, <1>3 DEF Init, Metrics
<1>6. (\A c \in Calls : AttemptsOK(c)) /\ (\A o \in Origins : EarlyOK(o))
  BY <1>2 DEF Init, AttemptsOK, EarlyOK
<1>. QED BY <1>1, <1>4, <1>5, <1>6 DEF RouterInv

LEMMA CallKeeps ==
  ASSUME RouterInv, NEW c \in Calls, Call(c)
  PROVE  RouterInv'
<1>1. TypeOK /\ \A d \in Calls \ {c} : pc'[d] = pc[d]
  BY DEF RouterInv, TypeOK, Call, Goto
<1>. DEFINE o == OriginOf[c]
<1>2. o \in Origins /\ pc[c] \in Steps /\ Cardinality(Exchanging) \in Nat
  BY <1>1, Counts, RouterAssumption DEF TypeOK, Recount
<1>3. c \in Exchanging => inFlight > 0
  BY ExchangeCounted
<1>4. Recount(GlobalHolders, GlobalHolders', c)
  BY <1>1, Counts
<1>5. Recount(Exchanging, Exchanging', c)
  BY <1>1, Counts
<1>6. Recount(Owed, Owed', c)
  BY <1>1, Counts
<1>7. TypeOK'
  BY <1>1, <1>2, <1>3, RouterAssumption
  DEF TypeOK, Steps, permits, HoldsOrigin, HoldsGlobal, Exchanging, Call, Goto, Bump, Metrics
<1>8. PermitsConserved'
  <2>1. ASSUME NEW p \in Origins
        PROVE  (originFree[p] + Cardinality(OriginHolders(p)) = PerOriginLimit)'
    <3>1. Recount(OriginHolders(p), OriginHolders(p)', c)
      BY <1>1, Counts
    <3>. QED BY <1>1, <1>2, <3>1, RouterAssumption
      DEF RouterInv, PermitsConserved, Recount, One, TypeOK, OriginHolders, HoldsOrigin,
          HoldsGlobal, permits, Call, Goto, Bump, Metrics
  <2>2. (globalFree + Cardinality(GlobalHolders) = GlobalLimit)'
    BY <1>1, <1>2, <1>4, RouterAssumption
    DEF RouterInv, PermitsConserved, Recount, One, TypeOK, GlobalHolders, HoldsGlobal,
        permits, Call, Goto, Bump, Metrics
  <2>. QED BY <2>1, <2>2 DEF PermitsConserved
<1>9. InFlightCovers'
  BY <1>1, <1>2, <1>5
  DEF RouterInv, InFlightCovers, Recount, One, TypeOK, Exchanging, Call, Goto, Bump, Metrics
<1>10. (metrics["attempts"] + Cardinality(Owed)
         <= metrics["requests"] + metrics["retries"])'
  BY <1>1, <1>2, <1>6
  DEF RouterInv, Recount, One, TypeOK, Owed, Call, Goto, Bump, Metrics
<1>11. ASSUME NEW d \in Calls PROVE AttemptsOK(d)'
  BY <1>1, <1>2 DEF RouterInv, AttemptsOK, Owed, TypeOK, Call, Goto, Bump, Metrics
<1>12. ASSUME NEW p \in Origins PROVE EarlyOK(p)'
  <2>1. Recount(Senders(p), Senders(p)', c)
    BY <1>1, Counts
  <2>. QED BY <1>1, <1>2, <2>1
    DEF RouterInv, EarlyOK, Recount, One, TypeOK, Senders, Call, Goto, Bump, Metrics
<1>. QED BY <1>7, <1>8, <1>9, <1>10, <1>11, <1>12 DEF RouterInv

LEMMA ReadCooldownKeeps ==
  ASSUME RouterInv, NEW c \in Calls, ReadCooldown(c)
  PROVE  RouterInv'
<1>1. TypeOK /\ \A d \in Calls \ {c} : pc'[d] = pc[d]
  BY DEF RouterInv, TypeOK, ReadCooldown, Goto
<1>. DEFINE o == OriginOf[c]
<1>2. o \in Origins /\ pc[c] \in Steps /\ Cardinality(Exchanging) \in Nat
  BY <1>1, Counts, RouterAssumption DEF TypeOK, Recount
<1>3. c \in Exchanging => inFlight > 0
  BY ExchangeCounted
<1>4. Recount(GlobalHolders, GlobalHolders', c)
  BY <1>1, Counts
<1>5. Recount(Exchanging, Exchanging', c)
  BY <1>1, Counts
<1>6. Recount(Owed, Owed', c)
  BY <1>1, Counts
<1>7. TypeOK'
  BY <1>1, <1>2, <1>3, RouterAssumption
  DEF TypeOK, Steps, permits, HoldsOrigin, HoldsGlobal, Exchanging, ReadCooldown, Goto
<1>8. PermitsConserved'
  <2>1. ASSUME NEW p \in Origins
        PROVE  (originFree[p] + Cardinality(OriginHolders(p)) = PerOriginLimit)'
    <3>1. Recount(OriginHolders(p), OriginHolders(p)', c)
      BY <1>1, Counts
    <3>. QED BY <1>1, <1>2, <3>1, RouterAssumption
      DEF RouterInv, PermitsConserved, Recount, One, TypeOK, OriginHolders, HoldsOrigin,
          HoldsGlobal, permits, ReadCooldown, Goto
  <2>2. (globalFree + Cardinality(GlobalHolders) = GlobalLimit)'
    BY <1>1, <1>2, <1>4, RouterAssumption
    DEF RouterInv, PermitsConserved, Recount, One, TypeOK, GlobalHolders, HoldsGlobal,
        permits, ReadCooldown, Goto
  <2>. QED BY <2>1, <2>2 DEF PermitsConserved
<1>9. InFlightCovers'
  BY <1>1, <1>2, <1>5
  DEF RouterInv, InFlightCovers, Recount, One, TypeOK, Exchanging, ReadCooldown, Goto
<1>10. (metrics["attempts"] + Cardinality(Owed)
         <= metrics["requests"] + metrics["retries"])'
  BY <1>1, <1>2, <1>6
  DEF RouterInv, Recount, One, TypeOK, Owed, ReadCooldown, Goto, Metrics
<1>11. ASSUME NEW d \in Calls PROVE AttemptsOK(d)'
  BY <1>1, <1>2 DEF RouterInv, AttemptsOK, Owed, TypeOK, ReadCooldown, Goto
<1>12. ASSUME NEW p \in Origins PROVE EarlyOK(p)'
  <2>1. Recount(Senders(p), Senders(p)', c)
    BY <1>1, Counts
  <2>. QED BY <1>1, <1>2, <2>1
    DEF RouterInv, EarlyOK, Recount, One, TypeOK, Senders, ReadCooldown, Goto
<1>. QED BY <1>7, <1>8, <1>9, <1>10, <1>11, <1>12 DEF RouterInv

LEMMA WakeKeeps ==
  ASSUME RouterInv, NEW c \in Calls, Wake(c)
  PROVE  RouterInv'
<1>1. TypeOK /\ \A d \in Calls \ {c} : pc'[d] = pc[d]
  BY DEF RouterInv, TypeOK, Wake, Goto
<1>. DEFINE o == OriginOf[c]
<1>2. o \in Origins /\ pc[c] \in Steps /\ Cardinality(Exchanging) \in Nat
  BY <1>1, Counts, RouterAssumption DEF TypeOK, Recount
<1>3. c \in Exchanging => inFlight > 0
  BY ExchangeCounted
<1>4. Recount(GlobalHolders, GlobalHolders', c)
  BY <1>1, Counts
<1>5. Recount(Exchanging, Exchanging', c)
  BY <1>1, Counts
<1>6. Recount(Owed, Owed', c)
  BY <1>1, Counts
<1>7. TypeOK'
  BY <1>1, <1>2, <1>3, RouterAssumption
  DEF TypeOK, Steps, permits, HoldsOrigin, HoldsGlobal, Exchanging, Wake, Goto
<1>8. PermitsConserved'
  <2>1. ASSUME NEW p \in Origins
        PROVE  (originFree[p] + Cardinality(OriginHolders(p)) = PerOriginLimit)'
    <3>1. Recount(OriginHolders(p), OriginHolders(p)', c)
      BY <1>1, Counts
    <3>. QED BY <1>1, <1>2, <3>1, RouterAssumption
      DEF RouterInv, PermitsConserved, Recount, One, TypeOK, OriginHolders, HoldsOrigin,
          HoldsGlobal, permits, Wake, Goto
  <2>2. (globalFree + Cardinality(GlobalHolders) = GlobalLimit)'
    BY <1>1, <1>2, <1>4, RouterAssumption
    DEF RouterInv, PermitsConserved, Recount, One, TypeOK, GlobalHolders, HoldsGlobal,
        permits, Wake, Goto
  <2>. QED BY <2>1, <2>2 DEF PermitsConserved
<1>9. InFlightCovers'
  BY <1>1, <1>2, <1>5
  DEF RouterInv, InFlightCovers, Recount, One, TypeOK, Exchanging, Wake, Goto
<1>10. (metrics["attempts"] + Cardinality(Owed)
         <= metrics["requests"] + metrics["retries"])'
  BY <1>1, <1>2, <1>6
  DEF RouterInv, Recount, One, TypeOK, Owed, Wake, Goto, Metrics
<1>11. ASSUME NEW d \in Calls PROVE AttemptsOK(d)'
  BY <1>1, <1>2 DEF RouterInv, AttemptsOK, Owed, TypeOK, Wake, Goto
<1>12. ASSUME NEW p \in Origins PROVE EarlyOK(p)'
  <2>1. Recount(Senders(p), Senders(p)', c)
    BY <1>1, Counts
  <2>. QED BY <1>1, <1>2, <2>1
    DEF RouterInv, EarlyOK, Recount, One, TypeOK, Senders, Wake, Goto
<1>. QED BY <1>7, <1>8, <1>9, <1>10, <1>11, <1>12 DEF RouterInv

LEMMA AcquireOriginKeeps ==
  ASSUME RouterInv, NEW c \in Calls, AcquireOrigin(c)
  PROVE  RouterInv'
<1>1. TypeOK /\ \A d \in Calls \ {c} : pc'[d] = pc[d]
  BY DEF RouterInv, TypeOK, AcquireOrigin, Goto
<1>. DEFINE o == OriginOf[c]
<1>2. o \in Origins /\ pc[c] \in Steps /\ Cardinality(Exchanging) \in Nat
  BY <1>1, Counts, RouterAssumption DEF TypeOK, Recount
<1>3. c \in Exchanging => inFlight > 0
  BY ExchangeCounted
<1>4. Recount(GlobalHolders, GlobalHolders', c)
  BY <1>1, Counts
<1>5. Recount(Exchanging, Exchanging', c)
  BY <1>1, Counts
<1>6. Recount(Owed, Owed', c)
  BY <1>1, Counts
<1>7. TypeOK'
  BY <1>1, <1>2, <1>3, RouterAssumption
  DEF TypeOK, Steps, permits, HoldsOrigin, HoldsGlobal, Exchanging, AcquireOrigin, Goto
<1>8. PermitsConserved'
  <2>1. ASSUME NEW p \in Origins
        PROVE  (originFree[p] + Cardinality(OriginHolders(p)) = PerOriginLimit)'
    <3>1. Recount(OriginHolders(p), OriginHolders(p)', c)
      BY <1>1, Counts
    <3>. QED BY <1>1, <1>2, <3>1, RouterAssumption
      DEF RouterInv, PermitsConserved, Recount, One, TypeOK, OriginHolders, HoldsOrigin,
          HoldsGlobal, permits, AcquireOrigin, Goto
  <2>2. (globalFree + Cardinality(GlobalHolders) = GlobalLimit)'
    BY <1>1, <1>2, <1>4, RouterAssumption
    DEF RouterInv, PermitsConserved, Recount, One, TypeOK, GlobalHolders, HoldsGlobal,
        permits, AcquireOrigin, Goto
  <2>. QED BY <2>1, <2>2 DEF PermitsConserved
<1>9. InFlightCovers'
  BY <1>1, <1>2, <1>5
  DEF RouterInv, InFlightCovers, Recount, One, TypeOK, Exchanging, AcquireOrigin, Goto
<1>10. (metrics["attempts"] + Cardinality(Owed)
         <= metrics["requests"] + metrics["retries"])'
  BY <1>1, <1>2, <1>6
  DEF RouterInv, Recount, One, TypeOK, Owed, AcquireOrigin, Goto, Metrics
<1>11. ASSUME NEW d \in Calls PROVE AttemptsOK(d)'
  BY <1>1, <1>2 DEF RouterInv, AttemptsOK, Owed, TypeOK, AcquireOrigin, Goto
<1>12. ASSUME NEW p \in Origins PROVE EarlyOK(p)'
  <2>1. Recount(Senders(p), Senders(p)', c)
    BY <1>1, Counts
  <2>. QED BY <1>1, <1>2, <2>1
    DEF RouterInv, EarlyOK, Recount, One, TypeOK, Senders, AcquireOrigin, Goto
<1>. QED BY <1>7, <1>8, <1>9, <1>10, <1>11, <1>12 DEF RouterInv

LEMMA AcquireGlobalKeeps ==
  ASSUME RouterInv, NEW c \in Calls, AcquireGlobal(c)
  PROVE  RouterInv'
<1>1. TypeOK /\ \A d \in Calls \ {c} : pc'[d] = pc[d]
  BY DEF RouterInv, TypeOK, AcquireGlobal, Goto
<1>. DEFINE o == OriginOf[c]
<1>2. o \in Origins /\ pc[c] \in Steps /\ Cardinality(Exchanging) \in Nat
  BY <1>1, Counts, RouterAssumption DEF TypeOK, Recount
<1>3. c \in Exchanging => inFlight > 0
  BY ExchangeCounted
<1>4. Recount(GlobalHolders, GlobalHolders', c)
  BY <1>1, Counts
<1>5. Recount(Exchanging, Exchanging', c)
  BY <1>1, Counts
<1>6. Recount(Owed, Owed', c)
  BY <1>1, Counts
<1>7. TypeOK'
  BY <1>1, <1>2, <1>3, RouterAssumption
  DEF TypeOK, Steps, permits, HoldsOrigin, HoldsGlobal, Exchanging, AcquireGlobal, Goto
<1>8. PermitsConserved'
  <2>1. ASSUME NEW p \in Origins
        PROVE  (originFree[p] + Cardinality(OriginHolders(p)) = PerOriginLimit)'
    <3>1. Recount(OriginHolders(p), OriginHolders(p)', c)
      BY <1>1, Counts
    <3>. QED BY <1>1, <1>2, <3>1, RouterAssumption
      DEF RouterInv, PermitsConserved, Recount, One, TypeOK, OriginHolders, HoldsOrigin,
          HoldsGlobal, permits, AcquireGlobal, Goto
  <2>2. (globalFree + Cardinality(GlobalHolders) = GlobalLimit)'
    BY <1>1, <1>2, <1>4, RouterAssumption
    DEF RouterInv, PermitsConserved, Recount, One, TypeOK, GlobalHolders, HoldsGlobal,
        permits, AcquireGlobal, Goto
  <2>. QED BY <2>1, <2>2 DEF PermitsConserved
<1>9. InFlightCovers'
  BY <1>1, <1>2, <1>5
  DEF RouterInv, InFlightCovers, Recount, One, TypeOK, Exchanging, AcquireGlobal, Goto
<1>10. (metrics["attempts"] + Cardinality(Owed)
         <= metrics["requests"] + metrics["retries"])'
  BY <1>1, <1>2, <1>6
  DEF RouterInv, Recount, One, TypeOK, Owed, AcquireGlobal, Goto, Metrics
<1>11. ASSUME NEW d \in Calls PROVE AttemptsOK(d)'
  BY <1>1, <1>2 DEF RouterInv, AttemptsOK, Owed, TypeOK, AcquireGlobal, Goto
<1>12. ASSUME NEW p \in Origins PROVE EarlyOK(p)'
  <2>1. Recount(Senders(p), Senders(p)', c)
    BY <1>1, Counts
  <2>. QED BY <1>1, <1>2, <2>1
    DEF RouterInv, EarlyOK, Recount, One, TypeOK, Senders, AcquireGlobal, Goto
<1>. QED BY <1>7, <1>8, <1>9, <1>10, <1>11, <1>12 DEF RouterInv

LEMMA RecheckKeeps ==
  ASSUME RouterInv, NEW c \in Calls, Recheck(c)
  PROVE  RouterInv'
<1>1. TypeOK /\ \A d \in Calls \ {c} : pc'[d] = pc[d]
  BY DEF RouterInv, TypeOK, Recheck, Goto
<1>. DEFINE o == OriginOf[c]
<1>2. o \in Origins /\ pc[c] \in Steps /\ Cardinality(Exchanging) \in Nat
  BY <1>1, Counts, RouterAssumption DEF TypeOK, Recount
<1>3. c \in Exchanging => inFlight > 0
  BY ExchangeCounted
<1>4. Recount(GlobalHolders, GlobalHolders', c)
  BY <1>1, Counts
<1>5. Recount(Exchanging, Exchanging', c)
  BY <1>1, Counts
<1>6. Recount(Owed, Owed', c)
  BY <1>1, Counts
<1>7. TypeOK'
  BY <1>1, <1>2, <1>3, RouterAssumption
  DEF TypeOK, Steps, permits, HoldsOrigin, HoldsGlobal, Exchanging, Recheck, Goto, Release
<1>8. PermitsConserved'
  <2>1. ASSUME NEW p \in Origins
        PROVE  (originFree[p] + Cardinality(OriginHolders(p)) = PerOriginLimit)'
    <3>1. Recount(OriginHolders(p), OriginHolders(p)', c)
      BY <1>1, Counts
    <3>. QED BY <1>1, <1>2, <3>1, RouterAssumption
      DEF RouterInv, PermitsConserved, Recount, One, TypeOK, OriginHolders, HoldsOrigin,
          HoldsGlobal, permits, Recheck, Goto, Release
  <2>2. (globalFree + Cardinality(GlobalHolders) = GlobalLimit)'
    BY <1>1, <1>2, <1>4, RouterAssumption
    DEF RouterInv, PermitsConserved, Recount, One, TypeOK, GlobalHolders, HoldsGlobal,
        permits, Recheck, Goto, Release
  <2>. QED BY <2>1, <2>2 DEF PermitsConserved
<1>9. InFlightCovers'
  BY <1>1, <1>2, <1>5
  DEF RouterInv, InFlightCovers, Recount, One, TypeOK, Exchanging, Recheck, Goto, Release
<1>10. (metrics["attempts"] + Cardinality(Owed)
         <= metrics["requests"] + metrics["retries"])'
  BY <1>1, <1>2, <1>6
  DEF RouterInv, Recount, One, TypeOK, Owed, Recheck, Goto, Release, Metrics
<1>11. ASSUME NEW d \in Calls PROVE AttemptsOK(d)'
  BY <1>1, <1>2 DEF RouterInv, AttemptsOK, Owed, TypeOK, Recheck, Goto, Release
<1>12. ASSUME NEW p \in Origins PROVE EarlyOK(p)'
  <2>1. Recount(Senders(p), Senders(p)', c)
    BY <1>1, Counts
  <2>. QED BY <1>1, <1>2, <2>1
    DEF RouterInv, EarlyOK, Recount, One, TypeOK, Senders, Recheck, Goto, Release
<1>. QED BY <1>7, <1>8, <1>9, <1>10, <1>11, <1>12 DEF RouterInv

LEMMA SendKeeps ==
  ASSUME RouterInv, NEW c \in Calls, Send(c)
  PROVE  RouterInv'
<1>1. TypeOK /\ \A d \in Calls \ {c} : pc'[d] = pc[d]
  BY DEF RouterInv, TypeOK, Send, Goto
<1>. DEFINE o == OriginOf[c]
<1>2. o \in Origins /\ pc[c] \in Steps /\ Cardinality(Exchanging) \in Nat
  BY <1>1, Counts, RouterAssumption DEF TypeOK, Recount
<1>3. c \in Exchanging => inFlight > 0
  BY ExchangeCounted
<1>4. Recount(GlobalHolders, GlobalHolders', c)
  BY <1>1, Counts
<1>5. Recount(Exchanging, Exchanging', c)
  BY <1>1, Counts
<1>6. Recount(Owed, Owed', c)
  BY <1>1, Counts
<1>7. TypeOK'
  BY <1>1, <1>2, <1>3, RouterAssumption
  DEF TypeOK, Steps, permits, HoldsOrigin, HoldsGlobal, Exchanging, Send, Goto, Bump, Metrics
<1>8. PermitsConserved'
  <2>1. ASSUME NEW p \in Origins
        PROVE  (originFree[p] + Cardinality(OriginHolders(p)) = PerOriginLimit)'
    <3>1. Recount(OriginHolders(p), OriginHolders(p)', c)
      BY <1>1, Counts
    <3>. QED BY <1>1, <1>2, <3>1, RouterAssumption
      DEF RouterInv, PermitsConserved, Recount, One, TypeOK, OriginHolders, HoldsOrigin,
          HoldsGlobal, permits, Send, Goto, Bump, Metrics
  <2>2. (globalFree + Cardinality(GlobalHolders) = GlobalLimit)'
    BY <1>1, <1>2, <1>4, RouterAssumption
    DEF RouterInv, PermitsConserved, Recount, One, TypeOK, GlobalHolders, HoldsGlobal,
        permits, Send, Goto, Bump, Metrics
  <2>. QED BY <2>1, <2>2 DEF PermitsConserved
<1>9. InFlightCovers'
  BY <1>1, <1>2, <1>5
  DEF RouterInv, InFlightCovers, Recount, One, TypeOK, Exchanging, Send, Goto, Bump, Metrics
<1>10. (metrics["attempts"] + Cardinality(Owed)
         <= metrics["requests"] + metrics["retries"])'
  BY <1>1, <1>2, <1>6
  DEF RouterInv, Recount, One, TypeOK, Owed, Send, Goto, Bump, Metrics
<1>11. ASSUME NEW d \in Calls PROVE AttemptsOK(d)'
  BY <1>1, <1>2 DEF RouterInv, AttemptsOK, Owed, TypeOK, Send, Goto, Bump, Metrics
<1>12. ASSUME NEW p \in Origins PROVE EarlyOK(p)'
  <2>1. Recount(Senders(p), Senders(p)', c)
    BY <1>1, Counts
  <2>. QED BY <1>1, <1>2, <2>1
    DEF RouterInv, EarlyOK, Recount, One, TypeOK, Senders, Send, Goto, Bump, Metrics
<1>. QED BY <1>7, <1>8, <1>9, <1>10, <1>11, <1>12 DEF RouterInv

LEMMA TransportFailsKeeps ==
  ASSUME RouterInv, NEW c \in Calls, TransportFails(c)
  PROVE  RouterInv'
<1>1. TypeOK /\ \A d \in Calls \ {c} : pc'[d] = pc[d]
  BY DEF RouterInv, TypeOK, TransportFails, Goto
<1>. DEFINE o == OriginOf[c]
<1>2. o \in Origins /\ pc[c] \in Steps /\ Cardinality(Exchanging) \in Nat
  BY <1>1, Counts, RouterAssumption DEF TypeOK, Recount
<1>3. c \in Exchanging => inFlight > 0
  BY ExchangeCounted
<1>4. Recount(GlobalHolders, GlobalHolders', c)
  BY <1>1, Counts
<1>5. Recount(Exchanging, Exchanging', c)
  BY <1>1, Counts
<1>6. Recount(Owed, Owed', c)
  BY <1>1, Counts
<1>7. TypeOK'
  BY <1>1, <1>2, <1>3, RouterAssumption
  DEF TypeOK, Steps, permits, HoldsOrigin, HoldsGlobal, Exchanging, TransportFails, Goto, Bump, Metrics, Release
<1>8. PermitsConserved'
  <2>1. ASSUME NEW p \in Origins
        PROVE  (originFree[p] + Cardinality(OriginHolders(p)) = PerOriginLimit)'
    <3>1. Recount(OriginHolders(p), OriginHolders(p)', c)
      BY <1>1, Counts
    <3>. QED BY <1>1, <1>2, <3>1, RouterAssumption
      DEF RouterInv, PermitsConserved, Recount, One, TypeOK, OriginHolders, HoldsOrigin,
          HoldsGlobal, permits, TransportFails, Goto, Bump, Metrics, Release
  <2>2. (globalFree + Cardinality(GlobalHolders) = GlobalLimit)'
    BY <1>1, <1>2, <1>4, RouterAssumption
    DEF RouterInv, PermitsConserved, Recount, One, TypeOK, GlobalHolders, HoldsGlobal,
        permits, TransportFails, Goto, Bump, Metrics, Release
  <2>. QED BY <2>1, <2>2 DEF PermitsConserved
<1>9. InFlightCovers'
  BY <1>1, <1>2, <1>5
  DEF RouterInv, InFlightCovers, Recount, One, TypeOK, Exchanging, TransportFails, Goto, Bump, Metrics, Release
<1>10. (metrics["attempts"] + Cardinality(Owed)
         <= metrics["requests"] + metrics["retries"])'
  BY <1>1, <1>2, <1>6
  DEF RouterInv, Recount, One, TypeOK, Owed, TransportFails, Goto, Bump, Metrics, Release
<1>11. ASSUME NEW d \in Calls PROVE AttemptsOK(d)'
  BY <1>1, <1>2 DEF RouterInv, AttemptsOK, Owed, TypeOK, TransportFails, Goto, Bump, Metrics, Release
<1>12. ASSUME NEW p \in Origins PROVE EarlyOK(p)'
  <2>1. Recount(Senders(p), Senders(p)', c)
    BY <1>1, Counts
  <2>. QED BY <1>1, <1>2, <2>1
    DEF RouterInv, EarlyOK, Recount, One, TypeOK, Senders, TransportFails, Goto, Bump, Metrics, Release
<1>. QED BY <1>7, <1>8, <1>9, <1>10, <1>11, <1>12 DEF RouterInv

LEMMA AnsweredKeeps ==
  ASSUME RouterInv, NEW c \in Calls, Answered(c)
  PROVE  RouterInv'
<1>1. TypeOK /\ \A d \in Calls \ {c} : pc'[d] = pc[d]
  BY DEF RouterInv, TypeOK, Answered, Goto
<1>. DEFINE o == OriginOf[c]
<1>2. o \in Origins /\ pc[c] \in Steps /\ Cardinality(Exchanging) \in Nat
  BY <1>1, Counts, RouterAssumption DEF TypeOK, Recount
<1>3. c \in Exchanging => inFlight > 0
  BY ExchangeCounted
<1>4. Recount(GlobalHolders, GlobalHolders', c)
  BY <1>1, Counts
<1>5. Recount(Exchanging, Exchanging', c)
  BY <1>1, Counts
<1>6. Recount(Owed, Owed', c)
  BY <1>1, Counts
<1>7. TypeOK'
  BY <1>1, <1>2, <1>3, RouterAssumption
  DEF TypeOK, Steps, permits, HoldsOrigin, HoldsGlobal, Exchanging, Answered, Goto
<1>8. PermitsConserved'
  <2>1. ASSUME NEW p \in Origins
        PROVE  (originFree[p] + Cardinality(OriginHolders(p)) = PerOriginLimit)'
    <3>1. Recount(OriginHolders(p), OriginHolders(p)', c)
      BY <1>1, Counts
    <3>. QED BY <1>1, <1>2, <3>1, RouterAssumption
      DEF RouterInv, PermitsConserved, Recount, One, TypeOK, OriginHolders, HoldsOrigin,
          HoldsGlobal, permits, Answered, Goto
  <2>2. (globalFree + Cardinality(GlobalHolders) = GlobalLimit)'
    BY <1>1, <1>2, <1>4, RouterAssumption
    DEF RouterInv, PermitsConserved, Recount, One, TypeOK, GlobalHolders, HoldsGlobal,
        permits, Answered, Goto
  <2>. QED BY <2>1, <2>2 DEF PermitsConserved
<1>9. InFlightCovers'
  BY <1>1, <1>2, <1>5
  DEF RouterInv, InFlightCovers, Recount, One, TypeOK, Exchanging, Answered, Goto
<1>10. (metrics["attempts"] + Cardinality(Owed)
         <= metrics["requests"] + metrics["retries"])'
  BY <1>1, <1>2, <1>6
  DEF RouterInv, Recount, One, TypeOK, Owed, Answered, Goto, Metrics
<1>11. ASSUME NEW d \in Calls PROVE AttemptsOK(d)'
  BY <1>1, <1>2 DEF RouterInv, AttemptsOK, Owed, TypeOK, Answered, Goto
<1>12. ASSUME NEW p \in Origins PROVE EarlyOK(p)'
  <2>1. Recount(Senders(p), Senders(p)', c)
    BY <1>1, Counts
  <2>. QED BY <1>1, <1>2, <2>1
    DEF RouterInv, EarlyOK, Recount, One, TypeOK, Senders, Answered, Goto
<1>. QED BY <1>7, <1>8, <1>9, <1>10, <1>11, <1>12 DEF RouterInv

LEMMA RateLimitedKeeps ==
  ASSUME RouterInv, NEW c \in Calls, RateLimited(c)
  PROVE  RouterInv'
<1>1. TypeOK /\ \A d \in Calls \ {c} : pc'[d] = pc[d]
  BY DEF RouterInv, TypeOK, RateLimited, RetryDelays, Goto
<1>. DEFINE o == OriginOf[c]
<1>2. o \in Origins /\ pc[c] \in Steps /\ Cardinality(Exchanging) \in Nat
  BY <1>1, Counts, RouterAssumption DEF TypeOK, Recount
<1>3. c \in Exchanging => inFlight > 0
  BY ExchangeCounted
<1>4. Recount(GlobalHolders, GlobalHolders', c)
  BY <1>1, Counts
<1>5. Recount(Exchanging, Exchanging', c)
  BY <1>1, Counts
<1>6. Recount(Owed, Owed', c)
  BY <1>1, Counts
<1>7. TypeOK'
  BY <1>1, <1>2, <1>3, RouterAssumption
  DEF TypeOK, Steps, permits, HoldsOrigin, HoldsGlobal, Exchanging, RateLimited, RetryDelays, Goto, Bump, Metrics
<1>8. PermitsConserved'
  <2>1. ASSUME NEW p \in Origins
        PROVE  (originFree[p] + Cardinality(OriginHolders(p)) = PerOriginLimit)'
    <3>1. Recount(OriginHolders(p), OriginHolders(p)', c)
      BY <1>1, Counts
    <3>. QED BY <1>1, <1>2, <3>1, RouterAssumption
      DEF RouterInv, PermitsConserved, Recount, One, TypeOK, OriginHolders, HoldsOrigin,
          HoldsGlobal, permits, RateLimited, RetryDelays, Goto, Bump, Metrics
  <2>2. (globalFree + Cardinality(GlobalHolders) = GlobalLimit)'
    BY <1>1, <1>2, <1>4, RouterAssumption
    DEF RouterInv, PermitsConserved, Recount, One, TypeOK, GlobalHolders, HoldsGlobal,
        permits, RateLimited, RetryDelays, Goto, Bump, Metrics
  <2>. QED BY <2>1, <2>2 DEF PermitsConserved
<1>9. InFlightCovers'
  BY <1>1, <1>2, <1>5
  DEF RouterInv, InFlightCovers, Recount, One, TypeOK, Exchanging, RateLimited, RetryDelays, Goto, Bump, Metrics
<1>10. (metrics["attempts"] + Cardinality(Owed)
         <= metrics["requests"] + metrics["retries"])'
  BY <1>1, <1>2, <1>6
  DEF RouterInv, Recount, One, TypeOK, Owed, RateLimited, RetryDelays, Goto, Bump, Metrics
<1>11. ASSUME NEW d \in Calls PROVE AttemptsOK(d)'
  BY <1>1, <1>2 DEF RouterInv, AttemptsOK, Owed, TypeOK, RateLimited, RetryDelays, Goto, Bump, Metrics
<1>12. ASSUME NEW p \in Origins PROVE EarlyOK(p)'
  <2>1. Recount(Senders(p), Senders(p)', c)
    BY <1>1, Counts
  <2>. QED BY <1>1, <1>2, <2>1
    DEF RouterInv, EarlyOK, Recount, One, TypeOK, Senders, RateLimited, RetryDelays, Goto, Bump, Metrics
<1>. QED BY <1>7, <1>8, <1>9, <1>10, <1>11, <1>12 DEF RouterInv

LEMMA ExtendCooldownKeeps ==
  ASSUME RouterInv, NEW c \in Calls, ExtendCooldown(c)
  PROVE  RouterInv'
<1>1. TypeOK /\ \A d \in Calls \ {c} : pc'[d] = pc[d]
  BY DEF RouterInv, TypeOK, ExtendCooldown, Goto
<1>. DEFINE o == OriginOf[c]
<1>2. o \in Origins /\ pc[c] \in Steps /\ Cardinality(Exchanging) \in Nat
  BY <1>1, Counts, RouterAssumption DEF TypeOK, Recount
<1>3. c \in Exchanging => inFlight > 0
  BY ExchangeCounted
<1>4. Recount(GlobalHolders, GlobalHolders', c)
  BY <1>1, Counts
<1>5. Recount(Exchanging, Exchanging', c)
  BY <1>1, Counts
<1>6. Recount(Owed, Owed', c)
  BY <1>1, Counts
<1>7. TypeOK'
  BY <1>1, <1>2, <1>3, RouterAssumption
  DEF TypeOK, Steps, permits, HoldsOrigin, HoldsGlobal, Exchanging, ExtendCooldown, Goto, Bump, Metrics, Release, Retries, Longer
<1>8. PermitsConserved'
  <2>1. ASSUME NEW p \in Origins
        PROVE  (originFree[p] + Cardinality(OriginHolders(p)) = PerOriginLimit)'
    <3>1. Recount(OriginHolders(p), OriginHolders(p)', c)
      BY <1>1, Counts
    <3>2. originFree[p] + Cardinality(OriginHolders(p)) = PerOriginLimit
      BY DEF RouterInv, PermitsConserved
    <3>3. originFree'[p] = originFree[p] + One(Retries(c) /\ p = o)
      BY <1>1, <1>2
      DEF TypeOK, One, HoldsOrigin, HoldsGlobal, permits, ExtendCooldown, Release, Retries
    <3>4. /\ c \in OriginHolders(p) <=> p = o
          /\ c \in OriginHolders(p)' <=> p = o /\ ~Retries(c)
      BY <1>1, <1>2
      DEF TypeOK, OriginHolders, HoldsOrigin, HoldsGlobal, ExtendCooldown, Goto, Retries
    <3>5. originFree[p] \in Nat
      BY <1>1 DEF TypeOK
    <3>. QED BY <3>1, <3>2, <3>3, <3>4, <3>5, RouterAssumption DEF Recount, One
  <2>2. (globalFree + Cardinality(GlobalHolders) = GlobalLimit)'
    BY <1>1, <1>2, <1>4, RouterAssumption
    DEF RouterInv, PermitsConserved, Recount, One, TypeOK, GlobalHolders, HoldsGlobal,
        permits, ExtendCooldown, Goto, Bump, Metrics, Release, Retries, Longer
  <2>. QED BY <2>1, <2>2 DEF PermitsConserved
<1>9. InFlightCovers'
  BY <1>1, <1>2, <1>5
  DEF RouterInv, InFlightCovers, Recount, One, TypeOK, Exchanging, ExtendCooldown, Goto, Bump, Metrics, Release, Retries, Longer
<1>10. (metrics["attempts"] + Cardinality(Owed)
         <= metrics["requests"] + metrics["retries"])'
  BY <1>1, <1>2, <1>6
  DEF RouterInv, Recount, One, TypeOK, Owed, ExtendCooldown, Goto, Bump, Metrics, Release, Retries, Longer
<1>11. ASSUME NEW d \in Calls PROVE AttemptsOK(d)'
  BY <1>1, <1>2 DEF RouterInv, AttemptsOK, Owed, TypeOK, ExtendCooldown, Goto, Bump, Metrics, Release, Retries, Longer
<1>12. ASSUME NEW p \in Origins PROVE EarlyOK(p)'
  <2>1. Recount(Senders(p), Senders(p)', c)
    BY <1>1, Counts
  <2>2. earlySends' = earlySends /\ c \notin Senders(p) /\ c \notin Senders(p)'
    BY <1>1, <1>2 DEF ExtendCooldown, Goto, Senders, TypeOK
  <2>3. /\ Cardinality(Senders(p)') = Cardinality(Senders(p))
        /\ Cardinality(Senders(p)) \in Nat
    BY <2>1, <2>2 DEF Recount, One
  <2>4. CASE p = o
    <3>1. Cardinality(Senders(o)) < PerOriginLimit
      BY <1>2, <2>2, <2>4, SendersBelowLimit
      DEF ExtendCooldown, OriginHolders, HoldsOrigin, HoldsGlobal
    <3>2. cooldown'[o] >= cooldown[o] /\ cooldown[o] \in Nat /\ cooldown'[o] \in Nat
      BY <1>1, <1>2, RouterAssumption DEF ExtendCooldown, Longer, TypeOK
    <3>3. CASE cooldown[o] = 0
      BY <1>2, <2>2, <2>3, <2>4, <3>1, <3>3 DEF RouterInv, EarlyOK
    <3>4. CASE cooldown[o] # 0
      BY <1>2, <2>2, <2>3, <2>4, <3>2, <3>4 DEF RouterInv, EarlyOK
    <3>. QED BY <3>3, <3>4
  <2>5. CASE p # o
    <3>1. cooldown'[p] = cooldown[p]
      BY <1>1, <2>5 DEF ExtendCooldown, TypeOK
    <3>. QED BY <2>2, <2>3, <3>1 DEF RouterInv, EarlyOK
  <2>. QED BY <2>4, <2>5
<1>. QED BY <1>7, <1>8, <1>9, <1>10, <1>11, <1>12 DEF RouterInv

LEMMA FinishKeeps ==
  ASSUME RouterInv, NEW c \in Calls, Finish(c)
  PROVE  RouterInv'
<1>1. TypeOK /\ \A d \in Calls \ {c} : pc'[d] = pc[d]
  BY DEF RouterInv, TypeOK, Finish, Goto
<1>. DEFINE o == OriginOf[c]
<1>2. o \in Origins /\ pc[c] \in Steps /\ Cardinality(Exchanging) \in Nat
  BY <1>1, Counts, RouterAssumption DEF TypeOK, Recount
<1>3. c \in Exchanging => inFlight > 0
  BY ExchangeCounted
<1>4. Recount(GlobalHolders, GlobalHolders', c)
  BY <1>1, Counts
<1>5. Recount(Exchanging, Exchanging', c)
  BY <1>1, Counts
<1>6. Recount(Owed, Owed', c)
  BY <1>1, Counts
<1>7. TypeOK'
  BY <1>1, <1>2, <1>3, RouterAssumption
  DEF TypeOK, Steps, permits, HoldsOrigin, HoldsGlobal, Exchanging, Finish, Goto, Release
<1>8. PermitsConserved'
  <2>1. ASSUME NEW p \in Origins
        PROVE  (originFree[p] + Cardinality(OriginHolders(p)) = PerOriginLimit)'
    <3>1. Recount(OriginHolders(p), OriginHolders(p)', c)
      BY <1>1, Counts
    <3>. QED BY <1>1, <1>2, <3>1, RouterAssumption
      DEF RouterInv, PermitsConserved, Recount, One, TypeOK, OriginHolders, HoldsOrigin,
          HoldsGlobal, permits, Finish, Goto, Release
  <2>2. (globalFree + Cardinality(GlobalHolders) = GlobalLimit)'
    BY <1>1, <1>2, <1>4, RouterAssumption
    DEF RouterInv, PermitsConserved, Recount, One, TypeOK, GlobalHolders, HoldsGlobal,
        permits, Finish, Goto, Release
  <2>. QED BY <2>1, <2>2 DEF PermitsConserved
<1>9. InFlightCovers'
  BY <1>1, <1>2, <1>5
  DEF RouterInv, InFlightCovers, Recount, One, TypeOK, Exchanging, Finish, Goto, Release
<1>10. (metrics["attempts"] + Cardinality(Owed)
         <= metrics["requests"] + metrics["retries"])'
  BY <1>1, <1>2, <1>6
  DEF RouterInv, Recount, One, TypeOK, Owed, Finish, Goto, Release, Metrics
<1>11. ASSUME NEW d \in Calls PROVE AttemptsOK(d)'
  BY <1>1, <1>2 DEF RouterInv, AttemptsOK, Owed, TypeOK, Finish, Goto, Release
<1>12. ASSUME NEW p \in Origins PROVE EarlyOK(p)'
  <2>1. Recount(Senders(p), Senders(p)', c)
    BY <1>1, Counts
  <2>. QED BY <1>1, <1>2, <2>1
    DEF RouterInv, EarlyOK, Recount, One, TypeOK, Senders, Finish, Goto, Release
<1>. QED BY <1>7, <1>8, <1>9, <1>10, <1>11, <1>12 DEF RouterInv

LEMMA CancelKeeps ==
  ASSUME RouterInv, NEW c \in Calls, Cancel(c)
  PROVE  RouterInv'
<1>1. TypeOK /\ \A d \in Calls \ {c} : pc'[d] = pc[d]
  BY DEF RouterInv, TypeOK, Cancel, Goto
<1>. DEFINE o == OriginOf[c]
<1>2. o \in Origins /\ pc[c] \in Steps /\ Cardinality(Exchanging) \in Nat
  BY <1>1, Counts, RouterAssumption DEF TypeOK, Recount
<1>3. c \in Exchanging => inFlight > 0
  BY ExchangeCounted
<1>4. Recount(GlobalHolders, GlobalHolders', c)
  BY <1>1, Counts
<1>5. Recount(Exchanging, Exchanging', c)
  BY <1>1, Counts
<1>6. Recount(Owed, Owed', c)
  BY <1>1, Counts
<1>7. TypeOK'
  BY <1>1, <1>2, <1>3, RouterAssumption
  DEF TypeOK, Steps, permits, HoldsOrigin, HoldsGlobal, Exchanging, Cancel, Goto, Release
<1>8. PermitsConserved'
  <2>1. ASSUME NEW p \in Origins
        PROVE  (originFree[p] + Cardinality(OriginHolders(p)) = PerOriginLimit)'
    <3>1. Recount(OriginHolders(p), OriginHolders(p)', c)
      BY <1>1, Counts
    <3>. QED BY <1>1, <1>2, <3>1, RouterAssumption
      DEF RouterInv, PermitsConserved, Recount, One, TypeOK, OriginHolders, HoldsOrigin,
          HoldsGlobal, permits, Cancel, Goto, Release
  <2>2. (globalFree + Cardinality(GlobalHolders) = GlobalLimit)'
    BY <1>1, <1>2, <1>4, RouterAssumption
    DEF RouterInv, PermitsConserved, Recount, One, TypeOK, GlobalHolders, HoldsGlobal,
        permits, Cancel, Goto, Release
  <2>. QED BY <2>1, <2>2 DEF PermitsConserved
<1>9. InFlightCovers'
  BY <1>1, <1>2, <1>5
  DEF RouterInv, InFlightCovers, Recount, One, TypeOK, Exchanging, Cancel, Goto, Release
<1>10. (metrics["attempts"] + Cardinality(Owed)
         <= metrics["requests"] + metrics["retries"])'
  BY <1>1, <1>2, <1>6
  DEF RouterInv, Recount, One, TypeOK, Owed, Cancel, Goto, Release, Metrics
<1>11. ASSUME NEW d \in Calls PROVE AttemptsOK(d)'
  BY <1>1, <1>2 DEF RouterInv, AttemptsOK, Owed, TypeOK, Cancel, Goto, Release
<1>12. ASSUME NEW p \in Origins PROVE EarlyOK(p)'
  <2>1. Recount(Senders(p), Senders(p)', c)
    BY <1>1, Counts
  <2>. QED BY <1>1, <1>2, <2>1
    DEF RouterInv, EarlyOK, Recount, One, TypeOK, Senders, Cancel, Goto, Release
<1>. QED BY <1>7, <1>8, <1>9, <1>10, <1>11, <1>12 DEF RouterInv

LEMMA TickKeeps ==
  ASSUME RouterInv, Tick
  PROVE  RouterInv'
<1>1. TypeOK'
  BY RouterAssumption DEF RouterInv, TypeOK, Tick, Left, permits
<1>2. /\ UNCHANGED <<originFree, globalFree, inFlight, metrics, attempt, Exchanging, Owed>>
      /\ GlobalHolders' = GlobalHolders
      /\ \A o \in Origins :
           OriginHolders(o)' = OriginHolders(o) /\ Senders(o)' = Senders(o)
  BY DEF Tick, permits, Exchanging, Owed, GlobalHolders, OriginHolders, Senders,
         HoldsOrigin, HoldsGlobal
<1>3. PermitsConserved' /\ InFlightCovers'
  BY <1>2 DEF RouterInv, PermitsConserved, InFlightCovers
<1>4. \A c \in Calls : AttemptsOK(c)'
  BY DEF RouterInv, AttemptsOK, Owed, Tick
<1>5. ASSUME NEW o \in Origins
      PROVE  EarlyOK(o)'
  <2>1. cooldown[o] \in Nat /\ cooldown'[o] = Left(cooldown[o])
    BY RouterAssumption DEF RouterInv, TypeOK, Tick
  <2>2. earlySends'[o] = IF cooldown[o] <= 1 THEN 0 ELSE earlySends[o]
    BY DEF Tick
  <2>3. Cardinality(Senders(o)') = Cardinality(Senders(o))
    BY <1>2
  <2>. QED BY <2>1, <2>2, <2>3 DEF RouterInv, EarlyOK, Left
<1>. QED BY <1>1, <1>2, <1>3, <1>4, <1>5 DEF RouterInv

LEMMA NextRouterInv ==
  ASSUME RouterInv, [Next]_vars
  PROVE  RouterInv'
<1>1. ASSUME NEW c \in Calls, Step(c)
      PROVE  RouterInv'
  BY <1>1, ReadCooldownKeeps, WakeKeeps, AcquireOriginKeeps, AcquireGlobalKeeps,
     RecheckKeeps, SendKeeps, TransportFailsKeeps, AnsweredKeeps, RateLimitedKeeps,
     ExtendCooldownKeeps, FinishKeeps
  DEF Step, Queue, Exchange
<1>2. ASSUME NEW c \in Calls, Call(c) \/ Cancel(c)
      PROVE  RouterInv'
  BY <1>2, CallKeeps, CancelKeeps
<1>3. CASE Tick
  BY <1>3, TickKeeps
<1>4. CASE UNCHANGED vars
  <2>1. /\ UNCHANGED <<Exchanging, Owed, GlobalHolders>>
        /\ \A o \in Origins :
             OriginHolders(o)' = OriginHolders(o) /\ Senders(o)' = Senders(o)
    BY <1>4 DEF vars, Exchanging, Owed, GlobalHolders, OriginHolders, Senders,
                HoldsOrigin, HoldsGlobal
  <2>2. TypeOK' /\ PermitsConserved' /\ InFlightCovers'
    BY <1>4, <2>1 DEF vars, permits, RouterInv, TypeOK, PermitsConserved, InFlightCovers
  <2>3. /\ \A c \in Calls : AttemptsOK(c)'
        /\ \A o \in Origins : EarlyOK(o)'
    BY <1>4, <2>1 DEF vars, RouterInv, AttemptsOK, EarlyOK
  <2>. QED BY <1>4, <2>1, <2>2, <2>3 DEF vars, RouterInv
<1>. QED BY <1>1, <1>2, <1>3, <1>4 DEF Next

LEMMA RouterInvAlways == Spec => []RouterInv
<1>1. Init => RouterInv
  BY InitRouterInv
<1>2. RouterInv /\ [Next]_vars => RouterInv'
  BY NextRouterInv
<1>. QED BY <1>1, <1>2, PTL DEF Spec

-----------------------------------------------------------------------------
(* What follows                                                            *)

(* Every variable keeps a value of its kind; no counter goes below zero.   *)
THEOREM TypeCorrect == Spec => []TypeOK
<1>1. RouterInv => TypeOK
  BY DEF RouterInv
<1>. QED BY <1>1, RouterInvAlways, PTL

(* Retries, errors and dropped calls neither lose nor make a permit.       *)
THEOREM NoPermitLost == Spec => []PermitsConserved
<1>1. RouterInv => PermitsConserved
  BY DEF RouterInv
<1>. QED BY <1>1, RouterInvAlways, PTL

(* No call is sent more than twice, and no attempt goes uncounted.         *)
THEOREM AtMostOneRetry == Spec => []OneRetry
<1>1. RouterInv => OneRetry
  <2>. SUFFICES ASSUME RouterInv PROVE OneRetry
    OBVIOUS
  <2>1. Cardinality(Owed) \in Nat
    BY RouterAssumption, FS_Subset, FS_CardinalityType DEF Owed
  <2>2. metrics["attempts"] <= metrics["requests"] + metrics["retries"]
    BY <2>1 DEF RouterInv, TypeOK, Metrics
  <2>. QED BY <2>2 DEF RouterInv, AttemptsOK, OneRetry
<1>. QED BY <1>1, RouterInvAlways, PTL

(* Fewer calls than the limit of an origin are sent to it while it cools   *)
(* down.                                                                   *)
THEOREM CooldownIsKept == Spec => []CooldownHolds
<1>1. RouterInv => CooldownHolds
  <2>. SUFFICES ASSUME RouterInv, NEW o \in Origins
                PROVE  earlySends[o] < PerOriginLimit
    BY DEF CooldownHolds
  <2>1. IsFiniteSet(Senders(o))
    BY RouterAssumption, FS_Subset DEF Senders
  <2>2. Cardinality(Senders(o)) \in Nat
    BY <2>1, FS_CardinalityType
  <2>. QED BY <2>2, RouterAssumption DEF RouterInv, EarlyOK, TypeOK
<1>. QED BY <1>1, RouterInvAlways, PTL

(* in_flight is never lowered below the exchanges under way.               *)
THEOREM InFlightNeverWraps == Spec => []InFlightCovers
<1>1. RouterInv => InFlightCovers
  BY DEF RouterInv
<1>. QED BY <1>1, RouterInvAlways, PTL

(* Both counters are right, whichever calls fail or are dropped.           *)
THEOREM CountersAlwaysHold == Spec => []CountersHold
<1>1. PermitsConserved /\ InFlightCovers => CountersHold
  BY DEF CountersHold
<1>. QED BY <1>1, NoPermitLost, InFlightNeverWraps, PTL

-----------------------------------------------------------------------------
(* Refinement                                                              *)

LEMMA StepKeepsPool ==
  ASSUME RouterInv, [Next]_vars
  PROVE  [Pool!Next]_GlobalHolders
<1>1. ASSUME NEW c \in Calls, AcquireGlobal(c)
      PROVE  Pool!Next
  <2>1. /\ c \notin GlobalHolders /\ GlobalHolders' = GlobalHolders \cup {c}
        /\ c \in OriginHolders(OriginOf[c]) /\ OriginOf[c] \in Origins
    BY <1>1, RouterAssumption
    DEF AcquireGlobal, Goto, GlobalHolders, OriginHolders, HoldsOrigin, HoldsGlobal,
        RouterInv, TypeOK
  <2>2. Cardinality(GlobalHolders) < GlobalLimit
    <3>1. globalFree > 0 /\ globalFree \in Nat
      BY <1>1 DEF AcquireGlobal, RouterInv, TypeOK
    <3>2. Cardinality(GlobalHolders) \in Nat
      BY RouterAssumption, FS_Subset, FS_CardinalityType DEF GlobalHolders
    <3>. QED BY <3>1, <3>2, RouterAssumption DEF RouterInv, PermitsConserved
  <2>3. Cardinality(Pool!At(OriginOf[c])) < PerOriginLimit
    <3>. DEFINE o == OriginOf[c]
                H == OriginHolders(o)
    <3>1. Recount(H \ {c}, H, c)
      BY RecountLemma DEF OriginHolders
    <3>2. Pool!At(o) \subseteq H \ {c}
      BY <2>1 DEF Pool!At, OriginHolders, GlobalHolders, HoldsOrigin
    <3>3. IsFiniteSet(H \ {c})
      BY RouterAssumption, FS_Subset DEF OriginHolders
    <3>4. /\ Cardinality(Pool!At(o)) <= Cardinality(H \ {c})
          /\ Cardinality(Pool!At(o)) \in Nat
      BY <3>2, <3>3, FS_Subset, FS_CardinalityType
    <3>5. Cardinality(H) <= PerOriginLimit /\ Cardinality(H) \in Nat
      BY <2>1, <3>1, RouterAssumption DEF RouterInv, PermitsConserved, TypeOK, Recount
    <3>6. Cardinality(H) = Cardinality(H \ {c}) + 1 /\ Cardinality(H \ {c}) \in Nat
      BY <2>1, <3>1 DEF Recount, One
    <3>. HIDE DEF H
    <3>. QED BY <3>4, <3>5, <3>6, RouterAssumption
  <2>4. \A S : Pool!Cardinality(S) = Cardinality(S)
    BY DEF Cardinality, Pool!Cardinality
  <2>. QED BY <2>1, <2>2, <2>3, <2>4 DEF Pool!Enter, Pool!Next
<1>2. ASSUME NEW c \in Calls, Call(c) \/ Step(c) \/ Cancel(c), ~AcquireGlobal(c)
      PROVE  GlobalHolders' = GlobalHolders \/ Pool!Leave(c)
  <2>1. \/ c \notin GlobalHolders /\ c \notin GlobalHolders'
        \/ c \in GlobalHolders
    BY <1>2 DEF Call, Step, Queue, Exchange, Cancel, ReadCooldown, Wake, AcquireOrigin,
                Recheck, Send, TransportFails, Answered, RateLimited, ExtendCooldown,
                Finish, Goto, GlobalHolders, HoldsGlobal, RouterInv, TypeOK
  <2>2. \A d \in Calls \ {c} : pc'[d] = pc[d]
    BY <1>2 DEF Call, Step, Queue, Exchange, Cancel, ReadCooldown, Wake, AcquireOrigin,
                Recheck, Send, TransportFails, Answered, RateLimited, ExtendCooldown,
                Finish, Goto, RouterInv, TypeOK
  <2>. QED BY <2>1, <2>2 DEF GlobalHolders, HoldsGlobal, Pool!Leave
<1>3. CASE Tick \/ UNCHANGED vars
  BY <1>3 DEF Tick, vars, GlobalHolders, HoldsGlobal
<1>. QED BY <1>1, <1>2, <1>3 DEF Next, Pool!Next

(* The router implements the bounded pool, for any limits.                 *)
THEOREM ImplementsPool == Spec => PoolSpec
<1>1. Init => Pool!Init
  BY DEF Init, Pool!Init, GlobalHolders, HoldsGlobal
<1>2. RouterInv /\ [Next]_vars => [Pool!Next]_GlobalHolders
  BY StepKeepsPool
<1>. QED BY <1>1, <1>2, RouterInvAlways, PTL DEF Spec, PoolSpec, Pool!Spec

=============================================================================
