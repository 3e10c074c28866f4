-------------------------- MODULE IndexFile_proofs --------------------------
(* Proofs about the index file and the decoded copy that the searches of a *)
(* process share, for any threads, papers, texts and failures: no search   *)
(* answers from a replaced index, and the index in place mirrors the       *)
(* corpus but for the papers that are behind.                              *)
EXTENDS IndexFile, FiniteSetTheorems, WellFoundedInduction, TLAPS

(* A search holds a stamp of a version that is no older than the search,   *)
(* or, having read the file, an index no older than the stamp it holds.    *)
Stamped(x) == \/ x.stamp = Nil
              \/ \E i \in 1..Version : i >= x.since /\ x.stamp = stamps[i]

Read(x) ==
  /\ x.answering.at = "answer"
  /\ x.answering.version \in 0..Version /\ x.answering.since \in 0..Version
  /\ x.answering.version >= x.answering.since
  /\ \/ x.stamp = Nil
     \/ \E i \in 1..Version : i <= x.answering.version /\ x.stamp = stamps[i]

LookingFields == {"at", "papers", "since", "stamp"}

ThreadOK(x) ==
  /\ x.at \in {"stamp", "look up", "read"} \cup Saving => x.since \in 0..Version
  /\ x.at \in {"look up", "read"} => Stamped(x)
  /\ x.at = "look up" => x = [f \in LookingFields |-> x[f]]
  /\ x.at = "fill" => Read(x)
  /\ x.at = "answer" => x.version >= x.since \/ Repeated

(* The cached index is no older than the version whose stamp it bears.     *)
CacheOK ==
  cache # Nil =>
    /\ cache.version \in Nat
    /\ \E i \in 1..Version : cache.stamp = stamps[i] /\ i <= cache.version

StampsOK == \E S : stamps \in Seq(S)
FileOK == file # Nil => Version > 0

IndexInv ==
  /\ StampsOK /\ FileOK /\ CacheOK
  /\ threads = [t \in Threads |-> threads[t]]
  /\ \A t \in Threads : ThreadOK(threads[t])

(* Versions are only added.                                                *)
Grows ==
  /\ StampsOK' /\ Version' \in Nat /\ Version' >= Version
  /\ \A i \in 1..Version : stamps'[i] = stamps[i]

LEMMA GrowsOrStays ==
  ASSUME StampsOK, stamps' = stamps \/ \E s : stamps' = Append(stamps, s)
  PROVE  Grows
<1>1. PICK S : stamps \in Seq(S)
  BY DEF StampsOK
<1>2. CASE stamps' = stamps
  BY <1>1, <1>2 DEF Grows, StampsOK, Version
<1>3. CASE \E s : stamps' = Append(stamps, s)
  <2>1. PICK s : stamps' = Append(stamps, s)
    BY <1>3
  <2> DEFINE R == S \cup {s}
  <2>2. stamps \in Seq(R) /\ s \in R
    BY <1>1
  <2>3. stamps' \in Seq(R) /\ Len(stamps') = Len(stamps) + 1 /\ Len(stamps) \in Nat
    BY <2>1, <2>2
  <2>4. \A i \in 1..Len(stamps) : stamps'[i] = stamps[i]
    BY <2>1, <2>2
  <2>5. StampsOK'
    BY <2>3 DEF StampsOK
  <2> QED BY <2>3, <2>4, <2>5 DEF Grows, Version
<1> QED BY <1>2, <1>3

LEMMA RepeatedStays ==
  ASSUME StampsOK, Grows, Repeated
  PROVE  Repeated'
<1>1. PICK S : stamps \in Seq(S)
  BY DEF StampsOK
<1>2. PICK i, j \in DOMAIN stamps : i # j /\ stamps[i] = stamps[j]
  BY DEF Repeated
<1>3. DOMAIN stamps = 1..Len(stamps) /\ Len(stamps) \in Nat
  BY <1>1
<1>4. PICK R : stamps' \in Seq(R)
  BY DEF Grows, StampsOK
<1>5. DOMAIN stamps' = 1..Len(stamps') /\ Len(stamps') \in Nat
  BY <1>4
<1>6. i \in DOMAIN stamps' /\ j \in DOMAIN stamps'
  BY <1>2, <1>3, <1>5 DEF Grows, Version
<1>7. stamps'[i] = stamps'[j]
  BY <1>2, <1>3 DEF Grows, Version
<1> QED BY <1>2, <1>6, <1>7 DEF Repeated

(* What held of a thread still holds when versions are added.              *)
LEMMA ThreadStays ==
  ASSUME NEW x, StampsOK, Grows, ThreadOK(x)
  PROVE  ThreadOK(x)'
<1>1. Version \in Nat /\ Version' \in Nat /\ Version' >= Version
  BY DEF Grows, StampsOK, Version
<1>2. \A n : n \in 0..Version => n \in 0..Version'
  BY <1>1
<1>3. \A i : i \in 1..Version => i \in 1..Version' /\ stamps'[i] = stamps[i]
  BY <1>1 DEF Grows
<1>4. Stamped(x) => Stamped(x)'
  BY <1>3 DEF Stamped
<1>5. Read(x) => Read(x)'
  BY <1>2, <1>3 DEF Read
<1> QED BY <1>2, <1>4, <1>5, RepeatedStays DEF ThreadOK

LEMMA CacheStays ==
  ASSUME StampsOK, Grows, CacheOK, UNCHANGED cache
  PROVE  CacheOK'
<1>1. Version \in Nat /\ Version' \in Nat /\ Version' >= Version
  BY DEF Grows, StampsOK, Version
<1>2. \A i : i \in 1..Version => i \in 1..Version' /\ stamps'[i] = stamps[i]
  BY <1>1 DEF Grows
<1> QED BY <1>2 DEF CacheOK

(* A thread that becomes what it may be.                                   *)
LEMMA ThreadSteps ==
  ASSUME IndexInv, NEW t \in Threads, NEW next, Becomes(t, next),
         stamps' = stamps \/ \E s : stamps' = Append(stamps, s),
         FileOK', ThreadOK(next)', CacheOK'
  PROVE  IndexInv'
<1>1. Grows
  BY GrowsOrStays DEF IndexInv
<1>2. \A u \in Threads : threads'[u] = IF u = t THEN next ELSE threads[u]
  BY DEF IndexInv, Becomes
<1>3. threads' = [u \in Threads |-> threads'[u]]
  BY DEF IndexInv, Becomes
<1>4. ASSUME NEW u \in Threads PROVE ThreadOK(threads[u])'
  <2>1. CASE u = t
    BY <1>2, <2>1 DEF ThreadOK, Stamped, Read
  <2>2. CASE u # t
    <3>1. PICK x : x = threads[u]
      OBVIOUS
    <3>2. ThreadOK(x)
      BY <3>1 DEF IndexInv
    <3>3. ThreadOK(x)'
      BY <1>1, <3>2, ThreadStays DEF IndexInv
    <3>4. threads'[u] = x
      BY <1>2, <2>2, <3>1
    <3> QED BY <3>3, <3>4 DEF ThreadOK, Stamped, Read
  <2> QED BY <2>1, <2>2
<1> QED BY <1>1, <1>3, <1>4 DEF IndexInv, Grows

(* A step that leaves the file and the cache alone and brings the thread   *)
(* where nothing is asked of it.                                           *)
LEMMA PlainStep ==
  ASSUME IndexInv, NEW t \in Threads, NEW next, Becomes(t, next),
         next.at \notin {"stamp", "look up", "read", "fill", "answer"},
         next.at \in Saving => next.since \in 0..Version,
         UNCHANGED <<file, cache, stamps>>
  PROVE  IndexInv'
<1>1. ThreadOK(next)'
  BY DEF ThreadOK, Saving, Version
<1>2. FileOK' /\ CacheOK'
  BY DEF IndexInv, FileOK, CacheOK, Version
<1> QED BY <1>1, <1>2, ThreadSteps

(* A thread goes on with an index that it saves.                           *)
LEMMA SaverStep ==
  ASSUME IndexInv, NEW t \in Threads, NEW step \in Saving, NEW by, NEW papers,
         NEW since \in 0..Version, NEW index, NEW late,
         Becomes(t, Saver(step, by, papers, since, index, late)),
         stamps' = stamps \/ \E s : stamps' = Append(stamps, s),
         FileOK', UNCHANGED cache
  PROVE  IndexInv'
<1>1. PICK next : next = Saver(step, by, papers, since, index, late)
  OBVIOUS
<1>2. next.at \in Saving /\ next.since = since
  BY <1>1 DEF Saver
<1>3. Grows
  BY GrowsOrStays DEF IndexInv
<1>4. CacheOK'
  BY <1>3, CacheStays DEF IndexInv
<1>5. since \in 0..Version'
  BY <1>3 DEF Grows, IndexInv, StampsOK, Version
<1>6. ThreadOK(next)'
  BY <1>2, <1>5 DEF ThreadOK, Saving
<1> QED BY <1>1, <1>4, <1>6, ThreadSteps

LEMMA IndexInvInit == Init => IndexInv
<1> SUFFICES ASSUME Init PROVE IndexInv
  OBVIOUS
<1>1. stamps \in Seq({}) /\ StampsOK
  BY DEF Init, StampsOK
<1>2. \A t \in Threads : threads[t].at = "idle"
  BY DEF Init, Idle
<1> QED BY <1>1, <1>2 DEF Init, IndexInv, FileOK, CacheOK, ThreadOK, Saving

LEMMA WriterSteps ==
  ASSUME IndexInv, NEW t \in Threads,
         \/ \E id \in Ids, text \in Texts : Import(t, [id |-> id, text |-> text])
         \/ \E id \in Ids : RemoveEntry(t, id)
         \/ Reindex(t) \/ LoadBase(t) \/ SaveFails(t) \/ Answer(t)
  PROVE  IndexInv'
<1>1. UNCHANGED <<file, cache, stamps>>
  BY DEF Import, RemoveEntry, Reindex, LoadBase, SaveFails, Answer, disk
<1>0. 0 \in 0..Version /\ FileOK'
  BY <1>1 DEF IndexInv, StampsOK, FileOK, Version
<1>2. CASE \E id \in Ids, text \in Texts : Import(t, [id |-> id, text |-> text])
  <2>1. PICK document : Import(t, document)
    BY <1>2
  <2>2. PICK next : next = [at |-> "load", document |-> document]
    OBVIOUS
  <2>3. Becomes(t, next) /\ next.at = "load"
    BY <2>1, <2>2 DEF Import
  <2> QED BY <1>1, <2>3, PlainStep DEF Saving
<1>3. CASE \E id \in Ids : RemoveEntry(t, id)
  <2>1. PICK left : Becomes(t, Saver("save", "writer", left, 0, Build(left), {}))
    BY <1>3 DEF RemoveEntry
  <2> QED BY <1>0, <1>1, <2>1, SaverStep DEF Saving
<1>4. CASE Reindex(t)
  <2>1. Becomes(t, Saver("save", "reindex", corpus, 0, Build(corpus), {}))
    BY <1>4 DEF Reindex
  <2> QED BY <1>0, <1>1, <2>1, SaverStep DEF Saving
<1>5. CASE LoadBase(t)
  <2>1. PICK index, late : Becomes(t, Saver("save", "writer", corpus, 0, index, late))
    BY <1>5 DEF LoadBase
  <2> QED BY <1>0, <1>1, <2>1, SaverStep DEF Saving
<1>6. CASE SaveFails(t) \/ Answer(t)
  <2>1. PICK next : next = Idle
    OBVIOUS
  <2>2. Becomes(t, next) /\ next.at = "idle"
    BY <1>6, <2>1 DEF SaveFails, Answer, Idle
  <2> QED BY <1>1, <2>2, PlainStep DEF Saving
<1> QED BY <1>2, <1>3, <1>4, <1>5, <1>6

(* The steps of a search, which read what writers may replace meanwhile.   *)
LEMMA SearchSteps ==
  ASSUME IndexInv, NEW t \in Threads,
         Ask(t) \/ TakeStamp(t) \/ LookUp(t) \/ Load(t) \/ LoadFails(t) \/ Fill(t)
  PROVE  IndexInv'
<1>0. /\ stamps' = stamps /\ FileOK' /\ Version \in Nat /\ Version' = Version
      /\ ThreadOK(threads[t])
  <2>1. UNCHANGED <<stamps, file>>
    BY DEF Ask, TakeStamp, LookUp, Load, LoadFails, Fill, disk
  <2> QED BY <2>1 DEF IndexInv, StampsOK, FileOK, Version
<1>1. CASE Ask(t)
  <2>1. PICK next : next = [at |-> "stamp", papers |-> corpus, since |-> Version]
    OBVIOUS
  <2>2. Becomes(t, next) /\ UNCHANGED cache
    BY <1>1, <2>1 DEF Ask
  <2>3. next.at = "stamp" /\ next.since \in 0..Version'
    BY <1>0, <2>1
  <2>4. ThreadOK(next)'
    BY <2>3 DEF ThreadOK
  <2>5. CacheOK'
    BY <1>0, <2>2 DEF IndexInv, CacheOK
  <2> QED BY <1>0, <2>2, <2>4, <2>5, ThreadSteps
<1>2. CASE TakeStamp(t)
  <2>1. PICK next : next = [at |-> "look up", papers |-> threads[t].papers,
                            since |-> threads[t].since,
                            stamp |-> IF file = Nil THEN Nil ELSE stamps[Version]]
    OBVIOUS
  <2>2. Becomes(t, next) /\ UNCHANGED cache /\ threads[t].since \in 0..Version
    BY <1>0, <1>2, <2>1 DEF TakeStamp, At, ThreadOK
  <2>3. next = [f \in LookingFields |-> next[f]]
    BY <2>1 DEF LookingFields
  <2>4. Stamped(next)'
    <3>1. next.since = threads[t].since /\ next.stamp = IF file = Nil THEN Nil ELSE stamps[Version]
      BY <2>1
    <3>2. CASE file = Nil
      BY <3>1, <3>2 DEF Stamped
    <3>3. CASE file # Nil
      <4>1. Version \in 1..Version'
        BY <1>0, <3>3 DEF IndexInv, FileOK
      <4>2. Version >= next.since /\ next.stamp = stamps'[Version]
        BY <1>0, <2>2, <3>1, <3>3
      <4> QED BY <4>1, <4>2 DEF Stamped
    <3> QED BY <3>2, <3>3
  <2>5. ThreadOK(next)' /\ CacheOK'
    BY <1>0, <2>1, <2>2, <2>3, <2>4 DEF ThreadOK, IndexInv, CacheOK
  <2> QED BY <1>0, <2>2, <2>5, ThreadSteps
<1>3. CASE LookUp(t)
  <2>0. UNCHANGED cache /\ threads[t].since \in 0..Version /\ Stamped(threads[t])
        /\ threads[t] = [f \in LookingFields |-> threads[t][f]] /\ CacheOK
    BY <1>0, <1>3 DEF LookUp, At, ThreadOK, IndexInv
  <2>1. CacheOK'
    BY <1>0, <2>0 DEF CacheOK
  <2>2. CASE /\ threads[t].stamp # Nil /\ cache # Nil /\ SameFile(cache, threads[t].stamp)
             /\ Becomes(t, Answering(t, cache.index, cache.version))
    <3>1. PICK next : next = Answering(t, cache.index, cache.version)
      OBVIOUS
    <3>2. next.at = "answer" /\ next.version = cache.version /\ next.since = threads[t].since
      BY <3>1 DEF Answering
    <3>3. PICK i \in 1..Version : i >= threads[t].since /\ threads[t].stamp = stamps[i]
      BY <2>0, <2>2 DEF Stamped
    <3>4. PICK j \in 1..Version : cache.stamp = stamps[j] /\ j <= cache.version
      BY <2>0, <2>2 DEF CacheOK
    <3>5. stamps[i] = stamps[j]
      BY <2>2, <3>3, <3>4 DEF SameFile
    <3>6. i \in DOMAIN stamps /\ j \in DOMAIN stamps
      BY DEF IndexInv, StampsOK, Version
    <3>7. i = j \/ Repeated
      BY <3>5, <3>6 DEF Repeated
    <3>8. cache.version \in Nat
      BY <2>0, <2>2 DEF CacheOK
    <3>9. next.version >= next.since \/ Repeated
      BY <1>0, <2>0, <3>2, <3>3, <3>4, <3>7, <3>8
    <3>10. Repeated' = Repeated
      BY <1>0 DEF Repeated
    <3>11. ThreadOK(next)'
      BY <3>2, <3>9, <3>10 DEF ThreadOK, Saving
    <3> QED BY <1>0, <2>1, <2>2, <3>1, <3>11, ThreadSteps
  <2>3. CASE Becomes(t, [threads[t] EXCEPT !.at = "read"])
    <3>1. PICK next : next = [threads[t] EXCEPT !.at = "read"]
      OBVIOUS
    <3>2. next.at = "read" /\ next.since = threads[t].since /\ next.stamp = threads[t].stamp
      BY <2>0, <3>1 DEF LookingFields
    <3>3. Stamped(next)'
      BY <1>0, <2>0, <3>2 DEF Stamped
    <3>4. ThreadOK(next)'
      BY <1>0, <2>0, <3>2, <3>3 DEF ThreadOK
    <3> QED BY <1>0, <2>1, <2>3, <3>1, <3>4, ThreadSteps
  <2> QED BY <1>3, <2>2, <2>3 DEF LookUp
<1>4. CASE Load(t)
  <2>0. /\ threads[t].since \in 0..Version /\ Stamped(threads[t]) /\ CacheOK /\ UNCHANGED cache
    BY <1>0, <1>4 DEF Load, At, ThreadOK, IndexInv
  <2>1. PICK answer : answer = Answering(t, file, Version)
    OBVIOUS
  <2>2. /\ answer.at = "answer" /\ answer.version = Version /\ answer.since = threads[t].since
    BY <2>1 DEF Answering
  <2>3. PICK next : next = [at |-> "fill", stamp |-> threads[t].stamp, answering |-> answer]
    OBVIOUS
  <2>4. Becomes(t, next)
    BY <1>4, <2>1, <2>3 DEF Load
  <2>5. Read(next)'
    BY <1>0, <2>0, <2>2, <2>3 DEF Read, Stamped
  <2>6. ThreadOK(next)' /\ CacheOK'
    BY <1>0, <2>0, <2>3, <2>5 DEF ThreadOK, CacheOK, Saving
  <2> QED BY <1>0, <2>4, <2>6, ThreadSteps
<1>5. CASE LoadFails(t)
  <2>0. threads[t].since \in 0..Version /\ CacheOK /\ UNCHANGED cache
    BY <1>0, <1>5 DEF LoadFails, At, ThreadOK, IndexInv
  <2>1. Becomes(t, Saver("save", "search", threads[t].papers, threads[t].since,
                         Build(threads[t].papers), {}))
    BY <1>5 DEF LoadFails
  <2> QED BY <1>0, <2>0, <2>1, SaverStep DEF Saving
<1>6. CASE Fill(t)
  <2>0. Read(threads[t]) /\ CacheOK
    BY <1>0, <1>6 DEF Fill, At, ThreadOK, IndexInv
  <2>1. PICK next : next = threads[t].answering
    OBVIOUS
  <2>2. Becomes(t, next)
    BY <1>6, <2>1 DEF Fill
  <2>3. ThreadOK(next)'
    BY <1>0, <2>0, <2>1 DEF Read, ThreadOK
  <2>4. CASE threads[t].stamp = Nil
    <3>1. UNCHANGED cache
      BY <1>6, <2>4 DEF Fill
    <3>2. CacheOK'
      BY <1>0, <2>0, <3>1 DEF CacheOK
    <3> QED BY <1>0, <2>2, <2>3, <3>2, ThreadSteps
  <2>5. CASE threads[t].stamp # Nil
    <3>1. /\ cache'.stamp = threads[t].stamp
          /\ cache'.version = threads[t].answering.version
      BY <1>6, <2>5 DEF Fill
    <3>2. CacheOK'
      BY <1>0, <2>0, <2>5, <3>1 DEF Read, CacheOK
    <3> QED BY <1>0, <2>2, <2>3, <3>2, ThreadSteps
  <2> QED BY <2>4, <2>5
<1> QED BY <1>1, <1>2, <1>3, <1>4, <1>5, <1>6

(* A save, by a writer or by a search that found no index.                 *)
LEMMA SaveSteps ==
  ASSUME IndexInv, NEW t \in Threads,
         OpenTmp(t) \/ Write(t) \/ Rename(t) \/ RenameFails(t)
  PROVE  IndexInv'
<1>0. UNCHANGED cache /\ ThreadOK(threads[t])
  BY DEF OpenTmp, Write, Rename, RenameFails, IndexInv, disk
<1>1. ASSUME NEW s, stamps' = Append(stamps, s)
      PROVE  Version' = Version + 1 /\ Version \in Nat /\ FileOK'
  <2>1. PICK S : stamps \in Seq(S)
    BY DEF IndexInv, StampsOK
  <2>2. stamps \in Seq(S \cup {s}) /\ s \in S \cup {s}
    BY <2>1
  <2> QED BY <1>1, <2>2 DEF Version, FileOK
<1>2. ASSUME UNCHANGED <<file, stamps>> PROVE FileOK'
  BY <1>2 DEF IndexInv, FileOK, Version
<1>3. CASE OpenTmp(t)
  <2>1. UNCHANGED <<file, stamps>> /\ threads[t].since \in 0..Version
    BY <1>0, <1>3 DEF OpenTmp, At, ThreadOK, Saving
  <2>2. PICK x : x = threads[t]
    OBVIOUS
  <2>3. Becomes(t, Saver("write", x.by, x.papers, x.since, x.index, x.behind))
    BY <1>3, <2>2 DEF OpenTmp
  <2> QED BY <1>0, <1>2, <2>1, <2>2, <2>3, SaverStep DEF Saving
<1>4. CASE Write(t)
  <2>1. threads[t].since \in 0..Version
    BY <1>0, <1>4 DEF Write, At, ThreadOK, Saving
  <2>2. PICK x : x = threads[t]
    OBVIOUS
  <2>3. Becomes(t, Saver("rename", x.by, x.papers, x.since, x.index, x.behind))
    BY <1>4, <2>2 DEF Write
  <2>4. UNCHANGED <<file, stamps>> \/ \E s : stamps' = Append(stamps, s)
    BY <1>4 DEF Write, Put
  <2>5. FileOK'
    BY <1>1, <1>2, <2>4
  <2> QED BY <1>0, <2>1, <2>2, <2>3, <2>4, <2>5, SaverStep DEF Saving
<1>5. CASE Rename(t)
  <2>0. PICK s : stamps' = Append(stamps, s)
    BY <1>5 DEF Rename, Put
  <2>1. Grows /\ CacheOK'
    BY <1>0, <2>0, GrowsOrStays, CacheStays DEF IndexInv
  <2>2. Version' = Version + 1 /\ Version \in Nat /\ FileOK'
    BY <1>1, <2>0
  <2>3. CASE threads[t].by = "search"
    <3>1. PICK next : next = [at |-> "answer", papers |-> threads[t].papers,
                              since |-> threads[t].since, index |-> threads[t].index,
                              version |-> Version + 1]
      OBVIOUS
    <3>2. Becomes(t, next)
      BY <1>5, <2>3, <3>1 DEF Rename
    <3>3. threads[t].since \in 0..Version
      BY <1>0, <1>5 DEF Rename, At, ThreadOK, Saving
    <3>4. ThreadOK(next)'
      BY <2>2, <3>1, <3>3 DEF ThreadOK, Saving
    <3> QED BY <2>0, <2>1, <2>2, <3>2, <3>4, ThreadSteps
  <2>4. CASE threads[t].by # "search"
    <3>1. PICK next : next = Idle
      OBVIOUS
    <3>2. Becomes(t, next)
      BY <1>5, <2>4, <3>1 DEF Rename
    <3>3. ThreadOK(next)'
      BY <3>1 DEF ThreadOK, Idle, Saving
    <3> QED BY <2>0, <2>1, <2>2, <3>2, <3>3, ThreadSteps
  <2> QED BY <2>3, <2>4
<1>6. CASE RenameFails(t)
  <2>1. PICK next : next = Idle
    OBVIOUS
  <2>2. Becomes(t, next) /\ next.at = "idle" /\ UNCHANGED <<file, cache, stamps>>
    BY <1>6, <2>1 DEF RenameFails, Idle, disk
  <2> QED BY <2>2, PlainStep DEF Saving
<1> QED BY <1>3, <1>4, <1>5, <1>6

LEMMA IndexInvNext == IndexInv /\ [Next]_vars => IndexInv'
<1> SUFFICES ASSUME IndexInv, [Next]_vars PROVE IndexInv'
  OBVIOUS
<1>1. CASE UNCHANGED <<file, cache, threads, stamps>>
  BY <1>1 DEF IndexInv, StampsOK, FileOK, CacheOK, ThreadOK, Stamped, Read, Repeated, Version,
              Saving
<1>2. CASE Damage
  <2>1. UNCHANGED <<cache, threads>> /\ file # Nil
    BY <1>2 DEF Damage
  <2>2. stamps' = stamps \/ \E s : stamps' = Append(stamps, s)
    BY <1>2 DEF Damage
  <2>3. Grows
    BY <2>2, GrowsOrStays DEF IndexInv
  <2>4. FileOK'
    BY <2>1, <2>3 DEF IndexInv, FileOK, Grows, StampsOK, Version
  <2>5. CacheOK'
    BY <2>1, <2>3, CacheStays DEF IndexInv
  <2>6. ASSUME NEW u \in Threads PROVE ThreadOK(threads[u])'
    <3>1. PICK x : x = threads[u]
      OBVIOUS
    <3>2. ThreadOK(x)'
      BY <2>3, <3>1, ThreadStays DEF IndexInv
    <3>3. threads'[u] = x
      BY <2>1, <3>1
    <3> QED BY <3>2, <3>3 DEF ThreadOK, Stamped, Read
  <2> QED BY <2>1, <2>3, <2>4, <2>5, <2>6 DEF IndexInv, Grows
<1> QED BY <1>1, <1>2, WriterSteps, SearchSteps, SaveSteps DEF Next, Tick, vars, disk

(* A search never answers from an index that was replaced before it began, *)
(* whatever the other threads of the process read, cache and save          *)
(* meanwhile, as long as the stamps of the file's versions differ.         *)
THEOREM CachedIndexIsCurrent == Spec => []AnswersCurrent
<1>1. IndexInv => AnswersCurrent
  BY DEF IndexInv, ThreadOK, AnswersCurrent, At
<1> QED BY <1>1, IndexInvInit, IndexInvNext, PTL DEF Spec

-----------------------------------------------------------------------------
(* Sets that a relation orders.                                             *)

Orders(R, S) ==
  /\ \A x \in S : <<x, x>> \notin R
  /\ \A x, y \in S : x # y => <<x, y>> \in R \/ <<y, x>> \in R
  /\ \A x, y, z \in S : <<x, y>> \in R /\ <<y, z>> \in R => <<x, z>> \in R

Below(S, R, x) == {y \in S : <<y, x>> \in R}

LEMMA BelowCounts ==
  ASSUME NEW S, NEW R, IsFiniteSet(S), Orders(R, S), NEW x \in S
  PROVE  /\ Cardinality(Below(S, R, x)) \in 0..Cardinality(S) - 1
         /\ \A y \in S : <<x, y>> \in R =>
              Cardinality(Below(S, R, x)) < Cardinality(Below(S, R, y))
<1>1. \A y \in S : /\ IsFiniteSet(Below(S, R, y))
                   /\ Cardinality(Below(S, R, y)) \in Nat
  <2>. SUFFICES ASSUME NEW y \in S
                PROVE  /\ IsFiniteSet(Below(S, R, y))
                       /\ Cardinality(Below(S, R, y)) \in Nat
    OBVIOUS
  <2>1. Below(S, R, y) \in SUBSET S
    BY DEF Below
  <2>2. IsFiniteSet(Below(S, R, y))
    BY <2>1, FS_Subset, Zenon
  <2>. QED BY <2>2, FS_CardinalityType, Zenon
<1>2. Cardinality(Below(S, R, x)) =< Cardinality(S \ {x})
  <2>1. Below(S, R, x) \in SUBSET (S \ {x})
    BY DEF Below, Orders
  <2>2. IsFiniteSet(S \ {x})
    BY FS_RemoveElement, Zenon
  <2>. QED BY <2>1, <2>2, FS_Subset, Zenon
<1>3. Cardinality(S \ {x}) = Cardinality(S) - 1
  BY FS_RemoveElement
<1>4. Cardinality(S) \in Nat
  BY FS_CardinalityType, Zenon
<1>5. ASSUME NEW y \in S, <<x, y>> \in R
      PROVE  Cardinality(Below(S, R, x)) < Cardinality(Below(S, R, y))
  <2>1. x \notin Below(S, R, x)
    BY DEF Below, Orders
  <2>2. Below(S, R, x) \cup {x} \in SUBSET Below(S, R, y)
    BY <1>5 DEF Below, Orders
  <2>3. Cardinality(Below(S, R, x) \cup {x}) = Cardinality(Below(S, R, x)) + 1
    BY <1>1, <2>1, FS_AddElement, Zenon
  <2>4. Cardinality(Below(S, R, x) \cup {x}) =< Cardinality(Below(S, R, y))
    BY <1>1, <2>2, FS_Subset, Zenon
  <2>5. Cardinality(Below(S, R, x)) \in Nat /\ Cardinality(Below(S, R, y)) \in Nat
    BY <1>1
  <2>. QED BY <2>3, <2>4, <2>5
<1>. QED BY <1>1, <1>2, <1>3, <1>4, <1>5

(* Sorted is an enumeration of the set, in order.                           *)
LEMMA SortedProperties ==
  ASSUME NEW S, NEW R, IsFiniteSet(S), Orders(R, S)
  PROVE  /\ Cardinality(S) \in Nat
         /\ Sorted(S, R) \in [1..Cardinality(S) -> S]
         /\ \A x \in S : \E i \in 1..Cardinality(S) : Sorted(S, R)[i] = x
         /\ \A i, j \in 1..Cardinality(S) :
              i < j => <<Sorted(S, R)[i], Sorted(S, R)[j]>> \in R
<1>. DEFINE n == Cardinality(S)
            Rank(x) == Cardinality(Below(S, R, x))
            C(i) == CHOOSE x \in S : Rank(x) = i - 1
            place == [x \in S |-> Rank(x) + 1]
<1>1. n \in Nat
  BY FS_CardinalityType, Zenon
<1>2. /\ \A x \in S : Rank(x) \in 0..n - 1
      /\ \A x, y \in S : <<x, y>> \in R => Rank(x) < Rank(y)
  BY BelowCounts, Zenon
<1>3. \A x, y \in S : x # y => Rank(x) # Rank(y)
  <2>. SUFFICES ASSUME NEW x \in S, NEW y \in S, x # y PROVE Rank(x) # Rank(y)
    OBVIOUS
  <2>1. <<x, y>> \in R \/ <<y, x>> \in R
    BY DEF Orders
  <2>2. Rank(x) < Rank(y) \/ Rank(y) < Rank(x)
    BY <1>2, <2>1, Zenon
  <2>3. Rank(x) \in Nat /\ Rank(y) \in Nat
    BY <1>1, <1>2
  <2>. HIDE DEF Rank
  <2>. QED BY <2>2, <2>3
<1>. HIDE DEF Rank
<1>4. place \in Injection(S, 1..n)
  <2>1. place \in [S -> 1..n]
    BY <1>1, <1>2
  <2>2. \A x, y \in S : place[x] = place[y] => x = y
    BY <1>1, <1>2, <1>3
  <2>. QED BY <2>1, <2>2 DEF Injection, IsInjective
<1>5. place \in Surjection(S, 1..n)
  <2>1. IsFiniteSet(1..n) /\ Cardinality(1..n) = n
    BY <1>1, FS_Interval
  <2>. QED BY <1>4, <2>1, FS_Injection, Zenon
<1>6. \A i \in 1..n : C(i) \in S /\ Rank(C(i)) = i - 1
  <2>. SUFFICES ASSUME NEW i \in 1..n PROVE C(i) \in S /\ Rank(C(i)) = i - 1
    OBVIOUS
  <2>1. PICK x \in S : place[x] = i
    BY <1>5 DEF Surjection
  <2>2. Rank(x) = i - 1
    BY <1>1, <1>2, <2>1
  <2>. QED BY <2>2, Zenon
<1>7. Sorted(S, R) = [i \in 1..n |-> C(i)]
  BY DEF Sorted, Rank, Below
<1>. HIDE DEF C
<1>8. Sorted(S, R) \in [1..n -> S]
  BY <1>6, <1>7
<1>9. ASSUME NEW x \in S PROVE \E i \in 1..n : Sorted(S, R)[i] = x
  <2>1. place[x] \in 1..n /\ place[x] - 1 = Rank(x)
    BY <1>1, <1>2
  <2>2. C(place[x]) = x
    BY <1>3, <1>6, <2>1
  <2>. QED BY <1>7, <2>1, <2>2
<1>10. ASSUME NEW i \in 1..n, NEW j \in 1..n, i < j
       PROVE  <<Sorted(S, R)[i], Sorted(S, R)[j]>> \in R
  <2>1. C(i) \in S /\ C(j) \in S /\ Rank(C(i)) = i - 1 /\ Rank(C(j)) = j - 1
    BY <1>6
  <2>2. C(i) # C(j) /\ ~(Rank(C(j)) < Rank(C(i)))
    BY <1>10, <2>1
  <2>3. <<C(i), C(j)>> \in R
    BY <1>2, <2>1, <2>2, Zenon DEF Orders
  <2>. QED BY <1>7, <2>3
<1>. QED BY <1>1, <1>8, <1>9, <1>10

LEMMA AscendingProperties ==
  ASSUME NEW S \in SUBSET Nat, IsFiniteSet(S)
  PROVE  /\ Cardinality(S) \in Nat
         /\ Ascending(S) \in [1..Cardinality(S) -> S]
         /\ \A x \in S : \E i \in 1..Cardinality(S) : Ascending(S)[i] = x
         /\ \A i, j \in 1..Cardinality(S) : i < j => Ascending(S)[i] < Ascending(S)[j]
<1>. DEFINE R == {p \in S \X S : p[1] < p[2]}
<1>1. \A x, y \in S : <<x, y>> \in R <=> x < y
  OBVIOUS
<1>2. Ascending(S) = Sorted(S, R)
  BY Zenon DEF Ascending
<1>. HIDE DEF R
<1>3. Orders(R, S)
  BY <1>1 DEF Orders
<1>. DEFINE f == Ascending(S)
            g == Sorted(S, R)
<1>4. /\ Cardinality(S) \in Nat
      /\ g \in [1..Cardinality(S) -> S]
      /\ \A x \in S : \E i \in 1..Cardinality(S) : g[i] = x
      /\ \A i, j \in 1..Cardinality(S) : i < j => <<g[i], g[j]>> \in R
  BY <1>3, SortedProperties
<1>5. f = g
  BY <1>2
<1>. HIDE DEF f, g
<1>6. \A i \in 1..Cardinality(S) : g[i] \in S
  BY <1>4
<1>7. \A i, j \in 1..Cardinality(S) : i < j => g[i] < g[j]
  BY <1>1, <1>4, <1>6, Zenon
<1>. QED BY <1>4, <1>5, <1>7 DEF f

-----------------------------------------------------------------------------
(* Posting lists.                                                           *)

Counts == UNION {[G -> Nat] : G \in SUBSET Fields}
Posting == [doc : Nat, fields : Counts]

LEMMA TermsAreCounted ==
  ASSUME NEW text \in Texts, NEW t
  PROVE  /\ Lens(text) \in [Fields -> Nat]
         /\ FieldTerms(text, t) \in Counts
         /\ DOMAIN FieldTerms(text, t) \subseteq Fields
         /\ t \in Terms(text) <=> DOMAIN FieldTerms(text, t) # {}
         /\ \A f \in DOMAIN FieldTerms(text, t) :
              FieldTerms(text, t)[f] >= 1 /\ Lens(text)[f] >= 1
<1>1. text \in [Fields -> Seq(Tokens)]
  BY TextsAssumption
<1>2. \A f \in Fields : Len(text[f]) \in Nat /\ DOMAIN text[f] = 1..Len(text[f])
  BY <1>1
<1>. DEFINE G == {g \in Fields : t \in ToSet(text[g])}
            Places(f) == {i \in DOMAIN text[f] : text[f][i] = t}
<1>3. FieldTerms(text, t) = [f \in G |-> Cardinality(Places(f))]
  BY DEF FieldTerms
<1>4. \A f \in Fields : IsFiniteSet(Places(f)) /\ Cardinality(Places(f)) \in Nat
  <2>. SUFFICES ASSUME NEW f \in Fields
                PROVE  IsFiniteSet(Places(f)) /\ Cardinality(Places(f)) \in Nat
    OBVIOUS
  <2>1. IsFiniteSet(1..Len(text[f]))
    BY <1>2, FS_Interval
  <2>2. Places(f) \in SUBSET (1..Len(text[f]))
    BY <1>2
  <2>3. IsFiniteSet(Places(f))
    BY <2>1, <2>2, FS_Subset, Zenon
  <2>. QED BY <2>3, FS_CardinalityType, Zenon
<1>5. \A f \in G : Cardinality(Places(f)) # 0 /\ Len(text[f]) >= 1
  <2>. SUFFICES ASSUME NEW f \in G
                PROVE  Cardinality(Places(f)) # 0 /\ Len(text[f]) >= 1
    OBVIOUS
  <2>1. PICK i \in DOMAIN text[f] : text[f][i] = t
    BY DEF ToSet
  <2>2. Places(f) # {}
    BY <2>1
  <2>3. Cardinality(Places(f)) # 0
    BY <1>4, <2>2, FS_EmptySet
  <2>. QED BY <1>2, <2>1, <2>3
<1>6. Lens(text) = [f \in Fields |-> Len(text[f])]
  BY DEF Lens
<1>7. t \in Terms(text) <=> G # {}
  BY DEF Terms
<1>. HIDE DEF Places
<1>8. FieldTerms(text, t) \in [G -> Nat] /\ G \in SUBSET Fields
  BY <1>3, <1>4
<1>9. FieldTerms(text, t) \in Counts
  BY <1>8 DEF Counts
<1>. QED BY <1>2, <1>3, <1>4, <1>5, <1>6, <1>7, <1>8, <1>9

(* list holds the postings of a term in the texts of these documents.       *)
PostingsOf(list, docs, t, T) ==
  /\ list \in Seq(Posting)
  /\ \A i, j \in DOMAIN list : i < j => list[i].doc < list[j].doc
  /\ \A i \in DOMAIN list : /\ list[i].doc \in docs
                            /\ list[i].fields = FieldTerms(T[list[i].doc], t)
  /\ \A d \in docs : \E i \in DOMAIN list : list[i].doc = d

LEMMA ListOfFunction ==
  ASSUME NEW P, NEW n \in Nat, NEW f \in [1..n -> P]
  PROVE  f \in Seq(P) /\ Len(f) = n /\ DOMAIN f = 1..n
OBVIOUS

LEMMA EnumeratedPostings ==
  ASSUME NEW n \in Nat, NEW docs \in SUBSET (1..n), NEW t, NEW T, NEW byDoc,
         \A d \in docs : T[d] \in Texts /\ byDoc[d] = FieldTerms(T[d], t)
  PROVE  PostingsOf([i \in DOMAIN Ascending(docs) |->
                       [doc |-> Ascending(docs)[i], fields |-> byDoc[Ascending(docs)[i]]]],
                    docs, t, T)
<1>. DEFINE at == Ascending(docs)
            m == Cardinality(docs)
            list == [i \in DOMAIN at |-> [doc |-> at[i], fields |-> byDoc[at[i]]]]
<1>1. IsFiniteSet(1..n)
  BY FS_Interval
<1>2. IsFiniteSet(docs) /\ docs \in SUBSET Nat
  <2>1. IsFiniteSet(docs)
    BY <1>1, FS_Subset, Zenon
  <2>. QED BY <2>1
<1>3. /\ m \in Nat /\ at \in [1..m -> docs]
      /\ \A x \in docs : \E i \in 1..m : at[i] = x
      /\ \A i, j \in 1..m : i < j => at[i] < at[j]
  BY <1>2, AscendingProperties
<1>. HIDE DEF at, m
<1>4. /\ DOMAIN list = 1..m
      /\ \A i \in 1..m : list[i] = [doc |-> at[i], fields |-> byDoc[at[i]]]
  BY <1>3
<1>5. \A d \in docs : byDoc[d] \in Counts
  BY TermsAreCounted
<1>6. \A i \in 1..m : list[i] \in Posting
  BY <1>2, <1>3, <1>4, <1>5 DEF Posting
<1>7. list \in [1..m -> Posting]
  BY <1>4, <1>6
<1>. HIDE DEF list
<1>8. list \in Seq(Posting)
  BY <1>3, <1>7, ListOfFunction
<1>9. \A i \in 1..m : /\ list[i].doc = at[i] /\ at[i] \in docs
                      /\ list[i].fields = FieldTerms(T[list[i].doc], t)
  <2>. SUFFICES ASSUME NEW i \in 1..m
                PROVE  /\ list[i].doc = at[i] /\ at[i] \in docs
                       /\ list[i].fields = FieldTerms(T[list[i].doc], t)
    OBVIOUS
  <2>1. list[i].doc = at[i] /\ list[i].fields = byDoc[at[i]] /\ at[i] \in docs
    BY <1>3, <1>4
  <2>. QED BY <2>1
<1>10. PostingsOf(list, docs, t, T)
  BY <1>3, <1>4, <1>8, <1>9 DEF PostingsOf
<1>. QED BY <1>10 DEF list, at

(* Forgetting a document leaves the postings of the others.                 *)
LEMMA RetainedPostings ==
  ASSUME NEW list, NEW docs, NEW t, NEW T, PostingsOf(list, docs, t, T), NEW d
  PROVE  LET left == Retained(list, {i \in DOMAIN list : list[i].doc # d})
         IN  PostingsOf(left, docs \ {d}, t, T)
<1>. DEFINE S == {i \in DOMAIN list : list[i].doc # d}
            at == Ascending(S)
            m == Cardinality(S)
            left == Retained(list, S)
<1>1. list \in Seq(Posting) /\ Len(list) \in Nat /\ DOMAIN list = 1..Len(list)
  BY DEF PostingsOf
<1>2. IsFiniteSet(S) /\ S \in SUBSET Nat
  <2>1. IsFiniteSet(1..Len(list))
    BY <1>1, FS_Interval
  <2>2. S \in SUBSET (1..Len(list))
    BY <1>1
  <2>3. IsFiniteSet(S)
    BY <2>1, <2>2, FS_Subset, Zenon
  <2>. QED BY <2>2, <2>3
<1>3. /\ m \in Nat /\ at \in [1..m -> S]
      /\ \A x \in S : \E i \in 1..m : at[i] = x
      /\ \A i, j \in 1..m : i < j => at[i] < at[j]
  BY <1>2, AscendingProperties
<1>4. left = [n \in DOMAIN at |-> list[at[n]]]
  BY DEF Retained
<1>5. \A i \in S : i \in DOMAIN list /\ list[i].doc # d
  OBVIOUS
<1>6. \A i \in DOMAIN list : list[i].doc # d => i \in S
  OBVIOUS
<1>. HIDE DEF S, at, m, left
<1>7. DOMAIN left = 1..m /\ \A i \in 1..m : left[i] = list[at[i]] /\ at[i] \in DOMAIN list
  BY <1>3, <1>4, <1>5
<1>8. left \in Seq(Posting)
  <2>1. \A i \in DOMAIN list : list[i] \in Posting
    BY <1>1
  <2>2. left \in [1..m -> Posting]
    BY <1>3, <1>4, <1>7, <2>1
  <2>. QED BY <1>3, <2>2, ListOfFunction
<1>9. \A i, j \in DOMAIN left : i < j => left[i].doc < left[j].doc
  BY <1>3, <1>7 DEF PostingsOf
<1>10. \A i \in DOMAIN left : /\ left[i].doc \in docs \ {d}
                              /\ left[i].fields = FieldTerms(T[left[i].doc], t)
  BY <1>3, <1>5, <1>7 DEF PostingsOf
<1>11. ASSUME NEW e \in docs \ {d} PROVE \E i \in DOMAIN left : left[i].doc = e
  <2>1. PICK j \in DOMAIN list : list[j].doc = e
    BY DEF PostingsOf
  <2>2. PICK i \in 1..m : at[i] = j
    BY <1>3, <1>6, <2>1
  <2>. QED BY <1>7, <2>1, <2>2
<1>12. PostingsOf(left, docs \ {d}, t, T)
  BY <1>8, <1>9, <1>10, <1>11 DEF PostingsOf
<1>. QED BY <1>12 DEF left, S

(* Sorting keeps the postings and puts them in order.                       *)
LEMMA ByDocProperties ==
  ASSUME NEW list \in Seq(Posting),
         \A i, j \in DOMAIN list : i # j => list[i].doc # list[j].doc
  PROVE  /\ ByDoc(list) \in Seq(Posting)
         /\ DOMAIN ByDoc(list) = DOMAIN list
         /\ \A i, j \in DOMAIN list : i < j => ByDoc(list)[i].doc < ByDoc(list)[j].doc
         /\ \A i \in DOMAIN list : \E j \in DOMAIN list : ByDoc(list)[i] = list[j]
         /\ \A j \in DOMAIN list : \E i \in DOMAIN list : ByDoc(list)[i] = list[j]
<1>. DEFINE n == Len(list)
            places == DOMAIN list
            R == {p \in places \X places :
                    \/ list[p[1]].doc < list[p[2]].doc
                    \/ list[p[1]].doc = list[p[2]].doc /\ p[1] < p[2]}
            at == Sorted(places, R)
            b == ByDoc(list)
<1>1. n \in Nat /\ places = 1..n
  OBVIOUS
<1>2. \A i \in places : list[i] \in Posting /\ list[i].doc \in Nat
  <2>1. \A i \in places : list[i] \in Posting
    OBVIOUS
  <2>2. \A p \in Posting : p.doc \in Nat
    BY DEF Posting
  <2>. QED BY <2>1, <2>2
<1>3. IsFiniteSet(places) /\ Cardinality(places) = n
  BY <1>1, FS_Interval
<1>4. \A i, j \in places : <<i, j>> \in R <=> list[i].doc < list[j].doc
  BY <1>1, <1>2
<1>5. b = [i \in places |-> list[at[i]]]
  BY DEF ByDoc
<1>. HIDE DEF R, n, b
<1>6. Orders(R, places)
  <2>1. \A i \in places : <<i, i>> \notin R
    BY <1>2, <1>4
  <2>2. ASSUME NEW i \in places, NEW j \in places, i # j
        PROVE  <<i, j>> \in R \/ <<j, i>> \in R
    <3>1. list[i].doc # list[j].doc /\ list[i].doc \in Nat /\ list[j].doc \in Nat
      BY <1>2, <2>2
    <3>2. list[i].doc < list[j].doc \/ list[j].doc < list[i].doc
      BY <3>1
    <3>. QED BY <1>4, <3>2
  <2>3. ASSUME NEW i \in places, NEW j \in places, NEW k \in places,
               <<i, j>> \in R, <<j, k>> \in R
        PROVE  <<i, k>> \in R
    <3>1. list[i].doc < list[j].doc /\ list[j].doc < list[k].doc
      BY <1>4, <2>3
    <3>2. list[i].doc < list[k].doc
      BY <1>2, <3>1
    <3>. QED BY <1>4, <3>2
  <2>. QED BY <2>1, <2>2, <2>3 DEF Orders
<1>7. /\ at \in [1..n -> places]
      /\ \A x \in places : \E i \in 1..n : at[i] = x
      /\ \A i, j \in 1..n : i < j => <<at[i], at[j]>> \in R
  <2>1. /\ at \in [1..Cardinality(places) -> places]
        /\ \A x \in places : \E i \in 1..Cardinality(places) : at[i] = x
        /\ \A i, j \in 1..Cardinality(places) : i < j => <<at[i], at[j]>> \in R
    BY <1>3, <1>6, SortedProperties
  <2>. QED BY <1>3, <2>1
<1>. HIDE DEF at
<1>8. \A i \in places : at[i] \in places /\ b[i] = list[at[i]]
  BY <1>1, <1>5, <1>7
<1>9. DOMAIN b = places /\ b \in [1..n -> Posting]
  BY <1>1, <1>2, <1>5, <1>8
<1>10. b \in Seq(Posting)
  BY <1>1, <1>9, ListOfFunction
<1>11. \A i, j \in places : i < j => b[i].doc < b[j].doc
  <2>. SUFFICES ASSUME NEW i \in places, NEW j \in places, i < j
                PROVE  b[i].doc < b[j].doc
    OBVIOUS
  <2>1. <<at[i], at[j]>> \in R
    BY <1>1, <1>7
  <2>2. list[at[i]].doc < list[at[j]].doc
    BY <1>4, <1>8, <2>1, Zenon
  <2>. QED BY <1>8, <2>2
<1>12. \A i \in places : \E j \in places : b[i] = list[j]
  BY <1>8
<1>13. ASSUME NEW j \in places PROVE \E i \in places : b[i] = list[j]
  <2>1. PICK i \in 1..n : at[i] = j
    BY <1>7
  <2>. QED BY <1>1, <1>8, <2>1
<1>. QED BY <1>9, <1>10, <1>11, <1>12, <1>13 DEF b

LEMMA AddedPosting ==
  ASSUME NEW list, NEW docs \in SUBSET Nat, NEW t, NEW T, PostingsOf(list, docs, t, T),
         NEW d \in Nat \ docs, T[d] \in Texts
  PROVE  PostingsOf(ByDoc(Append(list, [doc |-> d, fields |-> FieldTerms(T[d], t)])),
                    docs \cup {d}, t, T)
<1>. DEFINE new == [doc |-> d, fields |-> FieldTerms(T[d], t)]
            n == Len(list)
            more == Append(list, new)
            b == ByDoc(more)
<1>1. list \in Seq(Posting) /\ n \in Nat /\ DOMAIN list = 1..n
  BY DEF PostingsOf
<1>2. new \in Posting
  BY TermsAreCounted DEF Posting
<1>3. new.doc = d /\ new.fields = FieldTerms(T[d], t)
  OBVIOUS
<1>. HIDE DEF new
<1>4. /\ more \in Seq(Posting) /\ DOMAIN more = 1..n + 1
      /\ \A i \in 1..n : more[i] = list[i]
      /\ more[n + 1] = new
  BY <1>1, <1>2
<1>. HIDE DEF more
<1>5. \A i \in DOMAIN list : list[i].doc \in docs
  BY DEF PostingsOf
<1>6. ASSUME NEW i \in DOMAIN more, NEW j \in DOMAIN more, i # j
      PROVE  more[i].doc # more[j].doc
  <2>1. ASSUME NEW k \in 1..n, NEW l \in 1..n, k # l PROVE list[k].doc # list[l].doc
    <3>1. list[k].doc < list[l].doc \/ list[l].doc < list[k].doc
      BY <1>1, <2>1 DEF PostingsOf
    <3>2. list[k].doc \in Nat /\ list[l].doc \in Nat
      BY <1>1, <1>5
    <3>. QED BY <3>1, <3>2
  <2>2. \A k \in 1..n : list[k].doc # d
    BY <1>1, <1>5
  <2>3. (i \in 1..n \/ i = n + 1) /\ (j \in 1..n \/ j = n + 1)
    BY <1>1, <1>4
  <2>. QED BY <1>3, <1>4, <1>6, <2>1, <2>2, <2>3
<1>7. /\ b \in Seq(Posting) /\ DOMAIN b = DOMAIN more
      /\ \A i, j \in DOMAIN more : i < j => b[i].doc < b[j].doc
      /\ \A i \in DOMAIN more : \E j \in DOMAIN more : b[i] = more[j]
      /\ \A j \in DOMAIN more : \E i \in DOMAIN more : b[i] = more[j]
  BY <1>4, <1>6, ByDocProperties
<1>. HIDE DEF b
<1>8. ASSUME NEW i \in DOMAIN b
      PROVE  /\ b[i].doc \in docs \cup {d}
             /\ b[i].fields = FieldTerms(T[b[i].doc], t)
  <2>1. PICK j \in DOMAIN more : b[i] = more[j]
    BY <1>7
  <2>2. CASE j = n + 1
    BY <1>3, <1>4, <2>1, <2>2
  <2>3. CASE j \in 1..n
    BY <1>1, <1>4, <2>1, <2>3 DEF PostingsOf
  <2>. QED BY <1>1, <1>4, <2>2, <2>3
<1>9. ASSUME NEW e \in docs \cup {d} PROVE \E i \in DOMAIN b : b[i].doc = e
  <2>1. PICK j \in DOMAIN more : more[j].doc = e
    <3>1. CASE e = d
      BY <1>1, <1>3, <1>4, <3>1
    <3>2. CASE e # d
      <4>1. PICK j \in DOMAIN list : list[j].doc = e
        BY <3>2 DEF PostingsOf
      <4>2. j \in DOMAIN more /\ more[j].doc = e
        BY <1>1, <1>4, <4>1
      <4>. QED BY <4>2
    <3>. QED BY <3>1, <3>2
  <2>. QED BY <1>7, <2>1
<1>10. PostingsOf(b, docs \cup {d}, t, T)
  BY <1>7, <1>8, <1>9 DEF PostingsOf
<1>. QED BY <1>10 DEF b, more, new

LEMMA NoPostings == \A t, T : PostingsOf(<<>>, {}, t, T)
<1>1. <<>> \in Seq(Posting) /\ DOMAIN <<>> = {}
  OBVIOUS
<1>. QED BY <1>1 DEF PostingsOf

LEMMA PostingsElsewhere ==
  ASSUME NEW list, NEW docs, NEW t, NEW T, NEW U, PostingsOf(list, docs, t, T),
         \A d \in docs : U[d] = T[d]
  PROVE  PostingsOf(list, docs, t, U)
BY DEF PostingsOf

-----------------------------------------------------------------------------
(* Indexes. An index holds texts: those of its documents, in their order.   *)

DocsOf(T, t) == {d \in DOMAIN T : t \in Terms(T[d])}

Rows(index, T) ==
  /\ T \in Seq(Texts)
  /\ index.ids \in Seq(Ids) /\ Len(index.ids) = Len(T)
  /\ \A i, j \in DOMAIN T : index.ids[i] = index.ids[j] => i = j
  /\ index.lens = [i \in DOMAIN T |-> Lens(T[i])]

Holds(index, T) ==
  /\ Rows(index, T)
  /\ index.averages = Averages(index.lens)
  /\ \A t : t \in DOMAIN index.postings <=> DocsOf(T, t) # {}
  /\ \A t \in DOMAIN index.postings : PostingsOf(index.postings[t], DocsOf(T, t), t, T)

(* A document with this id and text.                                        *)
Tells(ids, T, id, text) == \E i \in DOMAIN T : ids[i] = id /\ T[i] = text

LEMMA PositionIs ==
  ASSUME NEW ids \in Seq(Ids), NEW id,
         \A i, j \in DOMAIN ids : ids[i] = ids[j] => i = j
  PROVE  /\ Position(ids, id) = 0 => \A i \in DOMAIN ids : ids[i] # id
         /\ Position(ids, id) # 0 =>
              Position(ids, id) \in DOMAIN ids /\ ids[Position(ids, id)] = id
         /\ \A i \in DOMAIN ids : ids[i] = id => Position(ids, id) = i
<1>. DEFINE at == {i \in DOMAIN ids : ids[i] = id}
<1>1. Position(ids, id) = IF at = {} THEN 0 ELSE Min(at)
  BY DEF Position
<1>2. DOMAIN ids \subseteq Nat \ {0}
  OBVIOUS
<1>3. CASE at = {}
  BY <1>1, <1>3
<1>4. ASSUME NEW i \in at PROVE Position(ids, id) = i
  <2>1. at = {i}
    OBVIOUS
  <2>2. i \in Nat
    BY <1>2
  <2>. HIDE DEF at
  <2>3. Min({i}) = i
    <3>1. i \in {i} /\ \A y \in {i} : i =< y
      BY <2>2
    <3>2. \E x \in {i} : \A y \in {i} : x =< y
      BY <3>1, Zenon
    <3>. DEFINE m == CHOOSE x \in {i} : \A y \in {i} : x =< y
    <3>3. m \in {i}
      BY <3>2, Zenon
    <3>. QED BY <3>3 DEF Min
  <2>. QED BY <1>1, <2>1, <2>3
<1>. QED BY <1>1, <1>2, <1>3, <1>4

LEMMA AppendedTo ==
  ASSUME NEW P, NEW s \in Seq(P), NEW x \in P
  PROVE  /\ Append(s, x) \in Seq(P)
         /\ Len(Append(s, x)) = Len(s) + 1 /\ DOMAIN Append(s, x) = 1..Len(s) + 1
         /\ Append(s, x)[Len(s) + 1] = x
         /\ \A i \in 1..Len(s) : Append(s, x)[i] = s[i]
OBVIOUS

(* One document is written, at its place or behind all: how, and the rows   *)
(* that are left.                                                           *)
IsWritten(index, T, id, text, found, doc, after, U) ==
  /\ Rows(index, T) /\ id \in Ids /\ text \in Texts
  /\ found = Position(index.ids, id)
  /\ doc = IF found = 0 THEN Len(index.ids) + 1 ELSE found
  /\ after.ids = IF found = 0 THEN Append(index.ids, id) ELSE index.ids
  /\ after.lens = IF found = 0 THEN Append(index.lens, Lens(text))
                  ELSE [index.lens EXCEPT ![doc] = Lens(text)]
  /\ U = IF found = 0 THEN Append(T, text) ELSE [T EXCEPT ![doc] = text]

WrittenRows(index, T, id, text, found, doc, after, U) ==
  /\ Rows(after, U)
  /\ doc \in Nat /\ DOMAIN U = DOMAIN T \cup {doc} /\ DOMAIN T \subseteq Nat
  /\ found = 0 => doc \notin DOMAIN T
  /\ found # 0 => index.ids[doc] = id
  /\ U[doc] = text /\ after.ids[doc] = id
  /\ \A i \in DOMAIN T \ {doc} :
       U[i] = T[i] /\ after.ids[i] = index.ids[i] /\ index.ids[i] # id

LEMMA RowsWritten ==
  ASSUME NEW index, NEW T, NEW id, NEW text, NEW found, NEW doc, NEW after, NEW U,
         IsWritten(index, T, id, text, found, doc, after, U)
  PROVE  WrittenRows(index, T, id, text, found, doc, after, U)
<1>. /\ Rows(index, T) /\ id \in Ids /\ text \in Texts
     /\ found = Position(index.ids, id)
     /\ doc = IF found = 0 THEN Len(index.ids) + 1 ELSE found
     /\ after.ids = IF found = 0 THEN Append(index.ids, id) ELSE index.ids
     /\ after.lens = IF found = 0 THEN Append(index.lens, Lens(text))
                     ELSE [index.lens EXCEPT ![doc] = Lens(text)]
     /\ U = IF found = 0 THEN Append(T, text) ELSE [T EXCEPT ![doc] = text]
  BY DEF IsWritten
<1>. DEFINE n == Len(T)
<1>1. /\ T \in Seq(Texts) /\ n \in Nat /\ DOMAIN T = 1..n
      /\ index.ids \in Seq(Ids) /\ Len(index.ids) = n /\ DOMAIN index.ids = 1..n
      /\ \A i, j \in 1..n : index.ids[i] = index.ids[j] => i = j
      /\ index.lens = [i \in 1..n |-> Lens(T[i])]
  BY DEF Rows
<1>2. /\ found = 0 => \A i \in 1..n : index.ids[i] # id
      /\ found # 0 => found \in 1..n /\ index.ids[found] = id
  <2>1. \A i, j \in DOMAIN index.ids : index.ids[i] = index.ids[j] => i = j
    BY <1>1
  <2>2. /\ found = 0 => \A i \in DOMAIN index.ids : index.ids[i] # id
        /\ found # 0 => found \in DOMAIN index.ids /\ index.ids[found] = id
    BY <1>1, <2>1, PositionIs, Zenon
  <2>. QED BY <1>1, <2>2
<1>3. \A i \in 1..n : T[i] \in Texts /\ index.ids[i] \in Ids
  BY <1>1
<1>4. \A x \in Texts : Lens(x) \in [Fields -> Nat]
  BY TermsAreCounted
<1>5. index.lens \in Seq([Fields -> Nat]) /\ Len(index.lens) = n
  <2>1. index.lens \in [1..n -> [Fields -> Nat]]
    BY <1>1, <1>3, <1>4
  <2>. QED BY <1>1, <2>1, ListOfFunction
<1>6. CASE found = 0
  <2>. HIDE DEF n
  <2>1. doc = n + 1
    BY <1>1, <1>6
  <2>2. /\ U = Append(T, text) /\ after.ids = Append(index.ids, id)
        /\ after.lens = Append(index.lens, Lens(text))
    BY <1>6
  <2>3. /\ U \in Seq(Texts) /\ Len(U) = n + 1 /\ DOMAIN U = 1..n + 1
        /\ U[n + 1] = text /\ \A i \in 1..n : U[i] = T[i]
    <3>1. /\ U \in Seq(Texts) /\ Len(U) = Len(T) + 1 /\ DOMAIN U = 1..Len(T) + 1
          /\ U[Len(T) + 1] = text /\ \A i \in 1..Len(T) : U[i] = T[i]
      BY <1>1, <2>2, AppendedTo
    <3>. QED BY <3>1 DEF n
  <2>4. /\ after.ids \in Seq(Ids) /\ Len(after.ids) = n + 1
        /\ after.ids[n + 1] = id /\ \A i \in 1..n : after.ids[i] = index.ids[i]
    BY <1>1, <2>2, AppendedTo
  <2>5. /\ DOMAIN after.lens = 1..n + 1
        /\ after.lens[n + 1] = Lens(text)
        /\ \A i \in 1..n : after.lens[i] = index.lens[i]
        /\ after.lens \in Seq([Fields -> Nat])
    BY <1>1, <1>4, <1>5, <2>2, AppendedTo
  <2>6. after.lens = [i \in DOMAIN U |-> Lens(U[i])]
    <3>1. \A i \in 1..n + 1 : after.lens[i] = Lens(U[i])
      <4>. SUFFICES ASSUME NEW i \in 1..n + 1 PROVE after.lens[i] = Lens(U[i])
        OBVIOUS
      <4>1. i \in 1..n \/ i = n + 1
        BY <1>1
      <4>. QED BY <1>1, <2>3, <2>5, <4>1
    <3>2. after.lens = [i \in 1..n + 1 |-> after.lens[i]]
      <4>. DEFINE l == after.lens
      <4>1. DOMAIN l = 1..n + 1 /\ l \in Seq([Fields -> Nat])
        BY <2>5
      <4>. HIDE DEF l
      <4>2. l = [i \in DOMAIN l |-> l[i]]
        BY <4>1
      <4>3. l = [i \in 1..n + 1 |-> l[i]]
        BY <4>1, <4>2
      <4>. QED BY <4>3 DEF l
    <3>. QED BY <2>3, <3>1, <3>2
  <2>7. ASSUME NEW i \in 1..n + 1, NEW j \in 1..n + 1, after.ids[i] = after.ids[j]
        PROVE  i = j
    <3>1. \A k \in 1..n + 1 : k \in 1..n \/ k = n + 1
      <4>1. n \in Nat
        BY <1>1
      <4>. QED BY <4>1
    <3>2. CASE i \in 1..n /\ j \in 1..n
      <4>1. index.ids[i] = index.ids[j]
        BY <2>4, <2>7, <3>2
      <4>. QED BY <1>1, <3>2, <4>1
    <3>3. ASSUME NEW k \in 1..n PROVE after.ids[k] # after.ids[n + 1]
      BY <1>2, <1>6, <2>4
    <3>. QED BY <2>7, <3>1, <3>2, <3>3
  <2>8. Rows(after, U)
    <3>1. Len(after.ids) = Len(U)
      BY <2>3, <2>4
    <3>2. \A i, j \in DOMAIN U : after.ids[i] = after.ids[j] => i = j
      BY <2>3, <2>7
    <3>. QED BY <2>3, <2>4, <2>6, <3>1, <3>2 DEF Rows
  <2>. QED BY <1>1, <1>2, <1>6, <2>1, <2>3, <2>4, <2>8 DEF WrittenRows
<1>7. CASE found # 0
  <2>1. doc = found /\ doc \in 1..n /\ index.ids[doc] = id
    BY <1>2, <1>7
  <2>. HIDE DEF n
  <2>2. /\ U = [T EXCEPT ![doc] = text] /\ after.ids = index.ids
        /\ after.lens = [index.lens EXCEPT ![doc] = Lens(text)]
    BY <1>7
  <2>3. /\ U \in Seq(Texts) /\ Len(U) = n /\ DOMAIN U = 1..n
        /\ U[doc] = text /\ \A i \in 1..n \ {doc} : U[i] = T[i]
    <3>1. T \in [1..n -> Texts]
      BY <1>1, <1>3
    <3>2. U \in [1..n -> Texts]
      BY <2>2, <3>1
    <3>3. U \in Seq(Texts) /\ Len(U) = n /\ DOMAIN U = 1..n
      BY <1>1, <3>2, ListOfFunction
    <3>. QED BY <2>1, <2>2, <3>1, <3>3
  <2>4. after.lens = [i \in DOMAIN U |-> Lens(U[i])]
    BY <1>1, <2>1, <2>2, <2>3
  <2>5. Rows(after, U)
    <3>1. Len(after.ids) = Len(U) /\ after.ids \in Seq(Ids)
      BY <1>1, <2>2, <2>3
    <3>2. \A i, j \in DOMAIN U : after.ids[i] = after.ids[j] => i = j
      BY <1>1, <2>2, <2>3
    <3>. QED BY <2>3, <2>4, <3>1, <3>2 DEF Rows
  <2>. QED BY <1>1, <1>7, <2>1, <2>2, <2>3, <2>5 DEF WrittenRows
<1>. QED BY <1>6, <1>7

(* What a write does to the texts that an index holds.                    *)
Writes(ids, T, more, U, id, text) ==
  /\ Tells(more, U, id, text) /\ \A x : Tells(more, U, id, x) => x = text
  /\ \A other, x : other # id =>
       (Tells(more, U, other, x) <=> Tells(ids, T, other, x))

LEMMA RowsTell ==
  ASSUME NEW index, NEW T, NEW id, NEW text, NEW found, NEW doc, NEW after, NEW U,
         WrittenRows(index, T, id, text, found, doc, after, U)
  PROVE  Writes(index.ids, T, after.ids, U, id, text)
<1>1. /\ found = 0 => doc \notin DOMAIN T
      /\ found # 0 => index.ids[doc] = id
      /\ DOMAIN U = DOMAIN T \cup {doc} /\ U[doc] = text /\ after.ids[doc] = id
      /\ \A i \in DOMAIN T \ {doc} :
           U[i] = T[i] /\ after.ids[i] = index.ids[i] /\ index.ids[i] # id
      /\ \A i, j \in DOMAIN U : after.ids[i] = after.ids[j] => i = j
  BY DEF WrittenRows, Rows
<1>2. Tells(after.ids, U, id, text)
  BY <1>1 DEF Tells
<1>3. \A x : Tells(after.ids, U, id, x) => x = text
  BY <1>1 DEF Tells
<1>4. ASSUME NEW other, NEW x, other # id
      PROVE  Tells(after.ids, U, other, x) <=> Tells(index.ids, T, other, x)
  <2>1. ASSUME NEW i \in DOMAIN U, after.ids[i] = other, U[i] = x
        PROVE  i \in DOMAIN T /\ index.ids[i] = other /\ T[i] = x
    BY <1>1, <1>4, <2>1
  <2>2. ASSUME NEW i \in DOMAIN T, index.ids[i] = other, T[i] = x
        PROVE  i \in DOMAIN U /\ after.ids[i] = other /\ U[i] = x
    BY <1>1, <1>4, <2>2
  <2>. QED BY <2>1, <2>2 DEF Tells
<1>. QED BY <1>2, <1>3, <1>4 DEF Writes

LEMMA DocsWritten ==
  ASSUME NEW T, NEW U, NEW doc, NEW text, DOMAIN U = DOMAIN T \cup {doc}, U[doc] = text,
         \A i \in DOMAIN T \ {doc} : U[i] = T[i], NEW t
  PROVE  DocsOf(U, t) = (DocsOf(T, t) \ {doc}) \cup
                        (IF t \in Terms(text) THEN {doc} ELSE {})
BY DEF DocsOf

(* The postings of the other documents, when one is about to be written.    *)
LEMMA KeptPostings ==
  ASSUME NEW index, NEW T, Holds(index, T), NEW doc
  PROVE  LET kept == WithoutPostings(index.postings, doc)
         IN  /\ \A t : t \in DOMAIN kept <=> DocsOf(T, t) \ {doc} # {}
             /\ \A t \in DOMAIN kept : PostingsOf(kept[t], DocsOf(T, t) \ {doc}, t, T)
<1>. DEFINE postings == index.postings
            left(t) == Retained(postings[t], {i \in DOMAIN postings[t] : postings[t][i].doc # doc})
            all == [t \in DOMAIN postings |-> left(t)]
            kept == WithoutPostings(postings, doc)
<1>1. kept = [t \in {u \in DOMAIN all : all[u] # <<>>} |-> all[t]]
  BY Zenon DEF WithoutPostings
<1>2. \A t \in DOMAIN postings : PostingsOf(left(t), DocsOf(T, t) \ {doc}, t, T)
  <2>. SUFFICES ASSUME NEW t \in DOMAIN postings
                PROVE  PostingsOf(left(t), DocsOf(T, t) \ {doc}, t, T)
    OBVIOUS
  <2>1. PostingsOf(postings[t], DocsOf(T, t), t, T)
    BY DEF Holds
  <2>. QED BY <2>1, RetainedPostings, Zenon
<1>. HIDE DEF left
<1>3. DOMAIN all = DOMAIN postings /\ \A t \in DOMAIN postings : all[t] = left(t)
  OBVIOUS
<1>. HIDE DEF all, kept
<1>4. DOMAIN kept = {u \in DOMAIN postings : left(u) # <<>>}
  BY <1>1, <1>3
<1>5. \A t \in DOMAIN kept : kept[t] = left(t) /\ t \in DOMAIN postings
  BY <1>1, <1>3, <1>4
<1>6. \A t \in DOMAIN postings : left(t) # <<>> <=> DocsOf(T, t) \ {doc} # {}
  <2>. SUFFICES ASSUME NEW t \in DOMAIN postings
                PROVE  left(t) # <<>> <=> DocsOf(T, t) \ {doc} # {}
    OBVIOUS
  <2>. DEFINE l == left(t)
  <2>1. PostingsOf(l, DocsOf(T, t) \ {doc}, t, T)
    BY <1>2
  <2>. HIDE DEF l
  <2>2. l \in Seq(Posting)
    BY <2>1 DEF PostingsOf
  <2>3. l # <<>> <=> DOMAIN l # {}
    <3>1. Len(l) \in Nat /\ DOMAIN l = 1..Len(l)
      BY <2>2
    <3>2. Len(l) = 0 => l = <<>>
      BY <2>2
    <3>3. DOMAIN <<>> = {}
      OBVIOUS
    <3>4. DOMAIN l = {} => Len(l) = 0
      BY <3>1
    <3>. QED BY <3>2, <3>3, <3>4, Zenon
  <2>. QED BY <2>1, <2>3 DEF PostingsOf, l
<1>7. \A t : t \in DOMAIN postings <=> DocsOf(T, t) # {}
  BY DEF Holds
<1>8. \A t : t \in DOMAIN kept <=> DocsOf(T, t) \ {doc} # {}
  BY <1>4, <1>6, <1>7
<1>9. \A t \in DOMAIN kept : PostingsOf(kept[t], DocsOf(T, t) \ {doc}, t, T)
  BY <1>2, <1>5
<1>. QED BY <1>8, <1>9 DEF kept, postings

LEMMA UpsertHolds ==
  ASSUME NEW index, NEW T, Holds(index, T), NEW document,
         document.id \in Ids, document.text \in Texts
  PROVE  LET after == UpsertDocument(index, document)
         IN  \E U : /\ Holds(after, U)
                    /\ Writes(index.ids, T, after.ids, U, document.id, document.text)
<1>. DEFINE id == document.id
            text == document.text
            found == Position(index.ids, id)
            doc == IF found = 0 THEN Len(index.ids) + 1 ELSE found
            kept == IF found = 0 THEN index.postings ELSE WithoutPostings(index.postings, doc)
            lens == IF found = 0 THEN Append(index.lens, Lens(text))
                    ELSE [index.lens EXCEPT ![doc] = Lens(text)]
            before(t) == IF t \in DOMAIN kept THEN kept[t] ELSE <<>>
            posting(t) == [doc |-> doc, fields |-> FieldTerms(text, t)]
            written(t) == IF t \in Terms(text) THEN ByDoc(Append(before(t), posting(t)))
                          ELSE kept[t]
            after == UpsertDocument(index, document)
            U == IF found = 0 THEN Append(T, text) ELSE [T EXCEPT ![doc] = text]
<1>1. /\ after.ids = IF found = 0 THEN Append(index.ids, id) ELSE index.ids
      /\ after.lens = lens /\ after.averages = Averages(lens)
      /\ after.postings = [t \in DOMAIN kept \cup Terms(text) |-> written(t)]
  BY DEF UpsertDocument
<1>. HIDE DEF after
<1>0. WrittenRows(index, T, id, text, found, doc, after, U)
  <2>1. IsWritten(index, T, id, text, found, doc, after, U)
    BY <1>1, Zenon DEF IsWritten, Holds
  <2>. HIDE DEF found, doc, U, id, text
  <2>. QED BY <2>1, RowsWritten, Zenon
<1>2. /\ Rows(after, U)
      /\ found # 0 => index.ids[doc] = id
      /\ doc \in Nat /\ DOMAIN U = DOMAIN T \cup {doc} /\ DOMAIN T \subseteq Nat
      /\ found = 0 => doc \notin DOMAIN T
      /\ U[doc] = text /\ after.ids[doc] = id
      /\ \A i \in DOMAIN T \ {doc} :
           U[i] = T[i] /\ after.ids[i] = index.ids[i] /\ index.ids[i] # id
  BY <1>0, Zenon DEF WrittenRows
<1>3. /\ \A t : t \in DOMAIN kept <=> DocsOf(T, t) \ {doc} # {}
      /\ \A t \in DOMAIN kept : PostingsOf(kept[t], DocsOf(T, t) \ {doc}, t, T)
  <2>1. CASE found = 0
    <3>1. \A t : DocsOf(T, t) \ {doc} = DocsOf(T, t)
      BY <1>2, <2>1 DEF DocsOf
    <3>2. kept = index.postings
      BY <2>1
    <3>. QED BY <3>1, <3>2, Zenon DEF Holds
  <2>2. CASE found # 0
    <3>1. kept = WithoutPostings(index.postings, doc)
      BY <2>2
    <3>. QED BY <3>1, KeptPostings, Zenon
  <2>. QED BY <2>1, <2>2
<1>. HIDE DEF kept, lens, found, doc, U
<1>4. \A t : DocsOf(U, t) = (DocsOf(T, t) \ {doc}) \cup
                            (IF t \in Terms(text) THEN {doc} ELSE {})
  BY <1>2, DocsWritten
<1>5. \A t : \A d \in DocsOf(T, t) \ {doc} : U[d] = T[d] /\ d \in Nat
  BY <1>2 DEF DocsOf
<1>6. ASSUME NEW t PROVE PostingsOf(before(t), DocsOf(T, t) \ {doc}, t, U)
  <2>1. CASE t \in DOMAIN kept
    <3>1. PostingsOf(kept[t], DocsOf(T, t) \ {doc}, t, T)
      BY <1>3, <2>1, Zenon
    <3>2. PostingsOf(kept[t], DocsOf(T, t) \ {doc}, t, U)
      BY <1>5, <3>1, PostingsElsewhere, Zenon
    <3>. QED BY <2>1, <3>2
  <2>2. CASE t \notin DOMAIN kept
    <3>1. DocsOf(T, t) \ {doc} = {}
      BY <1>3, <2>2
    <3>2. before(t) = <<>>
      BY <2>2
    <3>. QED BY <3>1, <3>2, NoPostings, Zenon
  <2>. QED BY <2>1, <2>2
<1>7. ASSUME NEW t \in DOMAIN kept \cup Terms(text)
      PROVE  PostingsOf(written(t), DocsOf(U, t), t, U)
  <2>1. CASE t \in Terms(text)
    <3>1. written(t) = ByDoc(Append(before(t), [doc |-> doc, fields |-> FieldTerms(U[doc], t)]))
      BY <1>2, <2>1
    <3>2. doc \in Nat \ (DocsOf(T, t) \ {doc}) /\ U[doc] \in Texts
      BY <1>2
    <3>3. DocsOf(T, t) \ {doc} \in SUBSET Nat
      BY <1>5
    <3>. DEFINE list == before(t)
                D == DocsOf(T, t) \ {doc}
    <3>6. PostingsOf(list, D, t, U)
      BY <1>6
    <3>. HIDE DEF before, written, list, D
    <3>7. PostingsOf(ByDoc(Append(list, [doc |-> doc, fields |-> FieldTerms(U[doc], t)])),
                     D \cup {doc}, t, U)
      BY <3>2, <3>3, <3>6, AddedPosting, Zenon DEF D
    <3>4. PostingsOf(written(t), (DocsOf(T, t) \ {doc}) \cup {doc}, t, U)
      BY <3>1, <3>7 DEF D, list
    <3>5. DocsOf(U, t) = (DocsOf(T, t) \ {doc}) \cup {doc}
      BY <1>4, <2>1
    <3>. QED BY <3>4, <3>5
  <2>2. CASE t \notin Terms(text)
    <3>1. t \in DOMAIN kept
      BY <2>2
    <3>2. written(t) = before(t)
      BY <2>2, <3>1
    <3>3. DocsOf(U, t) = DocsOf(T, t) \ {doc}
      BY <1>4, <2>2
    <3>. HIDE DEF before, written
    <3>. QED BY <1>6, <3>2, <3>3
  <2>. QED BY <2>1, <2>2
<1>. HIDE DEF written, before
<1>8. DOMAIN after.postings = DOMAIN kept \cup Terms(text)
  BY <1>1
<1>9. \A t \in DOMAIN after.postings : after.postings[t] = written(t)
  BY <1>1
<1>10. \A t : t \in DOMAIN after.postings <=> DocsOf(U, t) # {}
  BY <1>3, <1>4, <1>8
<1>11. Holds(after, U)
  BY <1>1, <1>2, <1>7, <1>8, <1>9, <1>10 DEF Holds
<1>12. Writes(index.ids, T, after.ids, U, id, text)
  BY <1>0, RowsTell, Zenon
<1>. QED BY <1>11, <1>12 DEF after

-----------------------------------------------------------------------------
(* The builder.                                                             *)

BuilderHolds(b, T) ==
  /\ Rows(b, T)
  /\ \A t : t \in DOMAIN b.termDocs <=> DocsOf(T, t) # {}
  /\ \A t \in DOMAIN b.termDocs :
       /\ DOMAIN b.termDocs[t] = DocsOf(T, t)
       /\ \A d \in DocsOf(T, t) : b.termDocs[t][d] = FieldTerms(T[d], t)

LEMMA NewBuilderHolds == BuilderHolds(NewBuilder, <<>>)
<1>1. /\ NewBuilder.ids = <<>> /\ NewBuilder.lens = <<>> /\ NewBuilder.termDocs = <<>>
  BY DEF NewBuilder
<1>2. /\ <<>> \in Seq(Texts) /\ <<>> \in Seq(Ids) /\ DOMAIN <<>> = {} /\ Len(<<>>) = 0
  OBVIOUS
<1>3. <<>> = [i \in {} |-> Lens(<<>>[i])]
  OBVIOUS
<1>4. Rows(NewBuilder, <<>>)
  BY <1>1, <1>2, <1>3 DEF Rows
<1>5. \A t : DocsOf(<<>>, t) = {}
  BY <1>2 DEF DocsOf
<1>. QED BY <1>1, <1>2, <1>4, <1>5 DEF BuilderHolds

(* What a document's earlier text said is forgotten.                        *)
LeavesOut(kept, T, doc) ==
  /\ \A t : t \in DOMAIN kept <=> DocsOf(T, t) \ {doc} # {}
  /\ \A t \in DOMAIN kept :
       /\ DOMAIN kept[t] = DocsOf(T, t) \ {doc}
       /\ \A d \in DocsOf(T, t) \ {doc} : kept[t][d] = FieldTerms(T[d], t)

LEMMA ForgottenDocs ==
  ASSUME NEW b, NEW T, BuilderHolds(b, T), NEW doc
  PROVE  LeavesOut(Forgotten(b.termDocs, doc), T, doc)
<1>. DEFINE termDocs == b.termDocs
            row(t) == [d \in DOMAIN termDocs[t] \ {doc} |-> termDocs[t][d]]
            all == [t \in DOMAIN termDocs |-> row(t)]
            kept == Forgotten(termDocs, doc)
<1>1. kept = [t \in {u \in DOMAIN all : DOMAIN all[u] # {}} |-> all[t]]
  BY Zenon DEF Forgotten
<1>2. \A t \in DOMAIN termDocs :
        /\ DOMAIN row(t) = DocsOf(T, t) \ {doc}
        /\ \A d \in DocsOf(T, t) \ {doc} : row(t)[d] = FieldTerms(T[d], t)
  BY DEF BuilderHolds
<1>. HIDE DEF row
<1>3. DOMAIN all = DOMAIN termDocs /\ \A t \in DOMAIN termDocs : all[t] = row(t)
  OBVIOUS
<1>. HIDE DEF all, kept
<1>4. DOMAIN kept = {t \in DOMAIN termDocs : DocsOf(T, t) \ {doc} # {}}
  BY <1>1, <1>2, <1>3
<1>5. \A t \in DOMAIN kept : kept[t] = row(t) /\ t \in DOMAIN termDocs
  BY <1>1, <1>3, <1>4
<1>6. \A t : t \in DOMAIN termDocs <=> DocsOf(T, t) # {}
  BY DEF BuilderHolds
<1>7. \A t : t \in DOMAIN kept <=> DocsOf(T, t) \ {doc} # {}
  BY <1>4, <1>6
<1>8. LeavesOut(kept, T, doc)
  BY <1>2, <1>5, <1>7 DEF LeavesOut
<1>. QED BY <1>8 DEF kept, termDocs

LEMMA AddHolds ==
  ASSUME NEW b, NEW T, BuilderHolds(b, T), NEW document,
         document.id \in Ids, document.text \in Texts
  PROVE  LET after == AddDocument(b, document)
         IN  \E U : /\ BuilderHolds(after, U)
                    /\ Writes(b.ids, T, after.ids, U, document.id, document.text)
<1>. DEFINE id == document.id
            text == document.text
            found == Position(b.ids, id)
            doc == IF found = 0 THEN Len(b.ids) + 1 ELSE found
            kept == Forgotten(b.termDocs, doc)
            before(t) == IF t \in DOMAIN kept THEN DOMAIN kept[t] ELSE {}
            here(t) == IF t \in Terms(text) THEN {doc} ELSE {}
            row(t) == [d \in before(t) \cup here(t) |->
                         IF d = doc THEN FieldTerms(text, t) ELSE kept[t][d]]
            after == AddDocument(b, document)
            U == IF found = 0 THEN Append(T, text) ELSE [T EXCEPT ![doc] = text]
<1>1. /\ after.ids = IF found = 0 THEN Append(b.ids, id) ELSE b.ids
      /\ after.lens = IF found = 0 THEN Append(b.lens, Lens(text))
                      ELSE [b.lens EXCEPT ![doc] = Lens(text)]
      /\ after.termDocs = [t \in DOMAIN kept \cup Terms(text) |-> row(t)]
  BY DEF AddDocument
<1>. HIDE DEF after
<1>2. WrittenRows(b, T, id, text, found, doc, after, U)
  <2>1. IsWritten(b, T, id, text, found, doc, after, U)
    BY <1>1, Zenon DEF IsWritten, BuilderHolds
  <2>. HIDE DEF found, doc, U, id, text
  <2>. QED BY <2>1, RowsWritten, Zenon
<1>3. /\ \A t : t \in DOMAIN kept <=> DocsOf(T, t) \ {doc} # {}
      /\ \A t \in DOMAIN kept :
           /\ DOMAIN kept[t] = DocsOf(T, t) \ {doc}
           /\ \A d \in DocsOf(T, t) \ {doc} : kept[t][d] = FieldTerms(T[d], t)
  <2>1. LeavesOut(kept, T, doc)
    BY ForgottenDocs, Zenon
  <2>. HIDE DEF kept
  <2>. QED BY <2>1, Zenon DEF LeavesOut
<1>. HIDE DEF kept, found, doc, U, id, text
<1>4. \A t : DocsOf(U, t) = (DocsOf(T, t) \ {doc}) \cup
                            (IF t \in Terms(text) THEN {doc} ELSE {})
  BY <1>2, DocsWritten DEF WrittenRows
<1>5. \A t : before(t) = DocsOf(T, t) \ {doc}
  BY <1>3
<1>6. \A t : DocsOf(U, t) = before(t) \cup here(t)
  BY <1>4, <1>5
<1>7. ASSUME NEW t \in DOMAIN kept \cup Terms(text)
      PROVE  /\ DOMAIN row(t) = DocsOf(U, t)
             /\ \A d \in DocsOf(U, t) : row(t)[d] = FieldTerms(U[d], t)
  <2>. DEFINE r == row(t)
  <2>1. /\ DOMAIN r = before(t) \cup here(t)
        /\ \A d \in before(t) \cup here(t) :
             r[d] = IF d = doc THEN FieldTerms(text, t) ELSE kept[t][d]
    OBVIOUS
  <2>. HIDE DEF r
  <2>2. ASSUME NEW d \in DocsOf(U, t) PROVE r[d] = FieldTerms(U[d], t)
    <3>1. CASE d = doc
      <4>1. r[d] = FieldTerms(text, t)
        BY <1>6, <2>1, <3>1
      <4>2. U[d] = text
        BY <1>2, <3>1 DEF WrittenRows
      <4>. QED BY <4>1, <4>2
    <3>2. CASE d # doc
      <4>1. d \in DocsOf(T, t) \ {doc}
        BY <1>4, <3>2
      <4>2. t \in DOMAIN kept
        BY <1>3, <4>1
      <4>3. r[d] = kept[t][d] /\ kept[t][d] = FieldTerms(T[d], t)
        BY <1>3, <1>6, <2>1, <3>2, <4>1, <4>2
      <4>4. U[d] = T[d]
        BY <1>2, <4>1 DEF WrittenRows, DocsOf
      <4>. QED BY <4>3, <4>4
    <3>. QED BY <3>1, <3>2
  <2>. QED BY <1>6, <2>1, <2>2 DEF r
<1>. HIDE DEF row, before, here
<1>8. DOMAIN after.termDocs = DOMAIN kept \cup Terms(text)
  BY <1>1
<1>9. \A t \in DOMAIN after.termDocs : after.termDocs[t] = row(t)
  BY <1>1
<1>10. \A t : t \in DOMAIN after.termDocs <=> DocsOf(U, t) # {}
  BY <1>3, <1>4, <1>8
<1>11. BuilderHolds(after, U)
  <2>1. Rows(after, U)
    BY <1>2 DEF WrittenRows
  <2>. QED BY <1>7, <1>8, <1>9, <1>10, <2>1 DEF BuilderHolds
<1>12. Writes(b.ids, T, after.ids, U, id, text)
  BY <1>2, RowsTell, Zenon
<1>. QED BY <1>11, <1>12 DEF after, id, text

LEMMA FinishedHolds ==
  ASSUME NEW b, NEW T, BuilderHolds(b, T)
  PROVE  Holds(Finished(b), T) /\ Finished(b).ids = b.ids
<1>. DEFINE list(t) == LET docs == Ascending(DOMAIN b.termDocs[t])
                       IN [i \in DOMAIN docs |->
                             [doc |-> docs[i], fields |-> b.termDocs[t][docs[i]]]]
            done == Finished(b)
<1>1. /\ done.ids = b.ids /\ done.lens = b.lens /\ done.averages = Averages(b.lens)
      /\ done.postings = [t \in DOMAIN b.termDocs |-> list(t)]
  BY DEF Finished
<1>. HIDE DEF done
<1>2. Rows(b, T)
  BY DEF BuilderHolds
<1>3. Rows(done, T)
  BY <1>1, <1>2 DEF Rows
<1>4. ASSUME NEW t \in DOMAIN b.termDocs PROVE PostingsOf(list(t), DocsOf(T, t), t, T)
  <2>. DEFINE docs == DocsOf(T, t)
              byDoc == b.termDocs[t]
  <2>1. DOMAIN byDoc = docs /\ \A d \in docs : byDoc[d] = FieldTerms(T[d], t)
    BY DEF BuilderHolds
  <2>2. /\ Len(T) \in Nat /\ docs \in SUBSET (1..Len(T))
        /\ \A d \in docs : T[d] \in Texts
    BY <1>2 DEF Rows, DocsOf
  <2>3. list(t) = [i \in DOMAIN Ascending(docs) |->
                     [doc |-> Ascending(docs)[i], fields |-> byDoc[Ascending(docs)[i]]]]
    BY <2>1
  <2>. HIDE DEF docs, byDoc, list
  <2>4. PostingsOf([i \in DOMAIN Ascending(docs) |->
                      [doc |-> Ascending(docs)[i], fields |-> byDoc[Ascending(docs)[i]]]],
                   docs, t, T)
    BY <2>1, <2>2, EnumeratedPostings
  <2>. QED BY <2>3, <2>4 DEF docs
<1>. HIDE DEF list
<1>5. /\ DOMAIN done.postings = DOMAIN b.termDocs
      /\ \A t \in DOMAIN done.postings : done.postings[t] = list(t)
  BY <1>1
<1>6. \A t : t \in DOMAIN done.postings <=> DocsOf(T, t) # {}
  BY <1>5 DEF BuilderHolds
<1>7. \A t \in DOMAIN done.postings : PostingsOf(done.postings[t], DocsOf(T, t), t, T)
  BY <1>4, <1>5
<1>8. done.averages = Averages(done.lens)
  BY <1>1
<1>. QED BY <1>1, <1>3, <1>6, <1>7, <1>8 DEF Holds, done

(* A set of numbers has a least element.                                    *)
LEMMA LeastNumber ==
  ASSUME NEW S \in SUBSET Nat, S # {}
  PROVE  \E x \in S : \A y \in S : x =< y
<1>. DEFINE R == {p \in Nat \X Nat : p[1] < p[2]}
<1>1. IsWellFoundedOn(R, Nat)
  BY NatLessThanWellFounded, Zenon DEF OpToRel
<1>2. \A x, y \in Nat : <<y, x>> \in R <=> y < x
  OBVIOUS
<1>. HIDE DEF R
<1>3. PICK x \in S : \A y \in S : ~(<<y, x>> \in R)
  BY <1>1, WFMin
<1>4. ASSUME NEW y \in S PROVE x =< y
  <2>1. x \in Nat /\ y \in Nat /\ ~(y < x)
    BY <1>2, <1>3
  <2>. QED BY <2>1
<1>. QED BY <1>4

(* The builder after the first n documents, for every n up to m.            *)
Adds(after, documents, m) ==
  after = [n \in 0..m |-> IF n = 0 THEN NewBuilder
                          ELSE AddDocument(after[n - 1], documents[n])]

LEMMA BuilderExists ==
  ASSUME NEW documents, NEW m \in Nat
  PROVE  \E after : Adds(after, documents, m)
<1>. DEFINE Bad == {n \in Nat : ~\E after : Adds(after, documents, n)}
<1>1. SUFFICES ASSUME Bad # {} PROVE FALSE
  OBVIOUS
<1>2. PICK n \in Bad : \A k \in Bad : n =< k
  BY <1>1, LeastNumber, Bad \in SUBSET Nat
<1>3. n \in Nat /\ ~\E after : Adds(after, documents, n)
  OBVIOUS
<1>4. CASE n = 0
  <2>. DEFINE f == [k \in 0..0 |-> NewBuilder]
              h == [k \in 0..0 |-> IF k = 0 THEN NewBuilder
                                   ELSE AddDocument(f[k - 1], documents[k])]
  <2>1. \A k \in 0..0 : k = 0
    OBVIOUS
  <2>2. f = h
    BY <2>1
  <2>3. h = [k \in 0..0 |-> IF k = 0 THEN NewBuilder
                            ELSE AddDocument(f[k - 1], documents[k])]
    OBVIOUS
  <2>. HIDE DEF f, h
  <2>4. Adds(f, documents, 0)
    BY <2>2, <2>3 DEF Adds
  <2>. QED BY <1>3, <1>4, <2>4
<1>5. CASE n # 0
  <2>1. n - 1 \in Nat /\ n - 1 \notin Bad
    BY <1>2, <1>3, <1>5
  <2>2. PICK g : Adds(g, documents, n - 1)
    BY <2>1
  <2>. DEFINE last == AddDocument(g[n - 1], documents[n])
              f == [k \in 0..n |-> IF k = n THEN last ELSE g[k]]
              h == [k \in 0..n |-> IF k = 0 THEN NewBuilder
                                   ELSE AddDocument(f[k - 1], documents[k])]
  <2>3. \A k \in 0..n : h[k] = IF k = 0 THEN NewBuilder
                               ELSE AddDocument(f[k - 1], documents[k])
    OBVIOUS
  <2>4. \A k \in 0..n : f[k] = IF k = n THEN last ELSE g[k]
    OBVIOUS
  <2>5. f = [k \in 0..n |-> f[k]] /\ h = [k \in 0..n |-> h[k]]
    OBVIOUS
  <2>6. h = [k \in 0..n |-> IF k = 0 THEN NewBuilder
                            ELSE AddDocument(f[k - 1], documents[k])]
    OBVIOUS
  <2>. HIDE DEF f, h
  <2>7. ASSUME NEW k \in 0..n PROVE f[k] = h[k]
    <3>1. CASE k = n
      <4>1. n \in 0..n /\ n - 1 \in 0..n /\ n - 1 # n
        BY <1>3, <2>1
      <4>2. f[n - 1] = g[n - 1] /\ f[n] = last
        BY <2>4, <4>1
      <4>3. h[n] = AddDocument(f[n - 1], documents[n])
        BY <1>5, <2>3, <4>1
      <4>. QED BY <3>1, <4>2, <4>3
    <3>2. CASE k # n /\ k = 0
      <4>1. g[0] = NewBuilder
        BY <2>1, <2>2 DEF Adds
      <4>. QED BY <1>3, <2>3, <2>4, <3>2, <4>1
    <3>3. CASE k # n /\ k # 0
      <4>1. k \in 0..n - 1 /\ k - 1 \in 0..n /\ k - 1 # n
        BY <1>3, <3>3
      <4>2. g[k] = AddDocument(g[k - 1], documents[k])
        BY <2>2, <3>3, <4>1 DEF Adds
      <4>3. f[k] = g[k] /\ f[k - 1] = g[k - 1]
        BY <2>4, <3>3, <4>1
      <4>4. h[k] = AddDocument(f[k - 1], documents[k])
        BY <2>3, <3>3
      <4>. QED BY <4>2, <4>3, <4>4
    <3>. QED BY <3>1, <3>2, <3>3
  <2>8. f = h
    BY <2>5, <2>7
  <2>9. Adds(f, documents, n)
    BY <2>6, <2>8 DEF Adds
  <2>. QED BY <1>3, <2>9
<1>. QED BY <1>4, <1>5

(* The corpus lists papers, each once.                                      *)
Library == Seq([id : Ids, text : Texts])
Lists(documents, id, text) ==
  \E i \in DOMAIN documents : documents[i].id = id /\ documents[i].text = text
IsLibrary(documents) ==
  /\ documents \in Library
  /\ \A i, j \in DOMAIN documents : documents[i].id = documents[j].id => i = j

(* A built index holds what the documents say.                              *)
LEMMA BuildHolds ==
  ASSUME NEW documents, IsLibrary(documents)
  PROVE  \E T : /\ Holds(Build(documents), T)
                /\ \A id, text : Tells(Build(documents).ids, T, id, text)
                                   <=> Lists(documents, id, text)
<1>. DEFINE m == Len(documents)
            f == CHOOSE after : Adds(after, documents, m)
            Said(n, id, text) ==
              \E i \in 1..n : documents[i].id = id /\ documents[i].text = text
            Good(n) == \E T : /\ BuilderHolds(f[n], T)
                              /\ \A id, text : Tells(f[n].ids, T, id, text) <=> Said(n, id, text)
            Bad == {n \in 0..m : ~Good(n)}
<1>1. /\ m \in Nat /\ DOMAIN documents = 1..m
      /\ \A i \in 1..m : documents[i].id \in Ids /\ documents[i].text \in Texts
      /\ \A i, j \in 1..m : documents[i].id = documents[j].id => i = j
  <2>1. /\ documents \in Seq([id : Ids, text : Texts])
        /\ \A i, j \in DOMAIN documents : documents[i].id = documents[j].id => i = j
    BY DEF IsLibrary, Library
  <2>2. \A p \in [id : Ids, text : Texts] : p.id \in Ids /\ p.text \in Texts
    OBVIOUS
  <2>3. /\ m \in Nat /\ DOMAIN documents = 1..m
        /\ \A i \in 1..m : documents[i] \in [id : Ids, text : Texts]
    <3>. DEFINE P == [id : Ids, text : Texts]
    <3>1. documents \in Seq(P)
      BY <2>1
    <3>. HIDE DEF P
    <3>2. m \in Nat /\ DOMAIN documents = 1..m /\ \A i \in 1..m : documents[i] \in P
      BY <3>1
    <3>. QED BY <3>2 DEF P
  <2>4. \A i \in 1..m : documents[i].id \in Ids /\ documents[i].text \in Texts
    BY <2>2, <2>3, Zenon
  <2>. HIDE DEF m
  <2>. QED BY <2>1, <2>3, <2>4
<1>2. Build(documents) = Finished(f[m])
  BY Zenon DEF Build, Adds
<1>3. Adds(f, documents, m)
  BY <1>1, BuilderExists, Zenon
<1>. HIDE DEF m, f
<1>4. f[0] = NewBuilder /\ \A n \in 1..m : f[n] = AddDocument(f[n - 1], documents[n])
  <2>1. \A n \in 0..m : f[n] = IF n = 0 THEN NewBuilder
                               ELSE AddDocument(f[n - 1], documents[n])
    BY <1>3 DEF Adds
  <2>2. 0 \in 0..m /\ \A n \in 1..m : n \in 0..m /\ n # 0
    BY <1>1
  <2>. QED BY <2>1, <2>2
<1>5. Good(0)
  <2>1. BuilderHolds(f[0], <<>>)
    BY <1>4, NewBuilderHolds
  <2>2. \A id, text : ~Tells(f[0].ids, <<>>, id, text)
    BY DEF Tells
  <2>3. \A id, text : ~Said(0, id, text)
    OBVIOUS
  <2>. QED BY <2>1, <2>2, <2>3
<1>6. ASSUME NEW n \in 1..m, Good(n - 1) PROVE Good(n)
  <2>1. PICK T : /\ BuilderHolds(f[n - 1], T)
                 /\ \A id, text : Tells(f[n - 1].ids, T, id, text) <=> Said(n - 1, id, text)
    BY <1>6
  <2>. DEFINE d == documents[n]
              b == f[n - 1]
              c == f[n]
  <2>2. d.id \in Ids /\ d.text \in Texts
    BY <1>1
  <2>3. c = AddDocument(b, d)
    BY <1>4
  <2>4. \A id, text : Said(n, id, text) <=> (Said(n - 1, id, text) \/ (d.id = id /\ d.text = text))
    <3>1. \A i : i \in 1..n <=> i \in 1..n - 1 \/ i = n
      BY <1>1
    <3>. QED BY <3>1
  <2>5. \A text : ~Said(n - 1, d.id, text)
    <3>1. \A i \in 1..n - 1 : i \in 1..m /\ i # n
      BY <1>1
    <3>. QED BY <1>1, <3>1
  <2>. HIDE DEF d, b, c, Said
  <2>6. PICK U : BuilderHolds(c, U) /\ Writes(b.ids, T, c.ids, U, d.id, d.text)
    <3>1. BuilderHolds(b, T)
      BY <2>1 DEF b
    <3>. QED BY <2>2, <2>3, <3>1, AddHolds
  <2>7. \A id, text : Tells(b.ids, T, id, text) <=> Said(n - 1, id, text)
    BY <2>1 DEF b
  <2>8. ASSUME NEW id, NEW text PROVE Tells(c.ids, U, id, text) <=> Said(n, id, text)
    <3>1. CASE id = d.id
      <4>1. Tells(c.ids, U, id, text) <=> text = d.text
        BY <2>6, <3>1 DEF Writes
      <4>. QED BY <2>4, <2>5, <3>1, <4>1
    <3>2. CASE id # d.id
      <4>1. Tells(c.ids, U, id, text) <=> Tells(b.ids, T, id, text)
        BY <2>6, <3>2 DEF Writes
      <4>. QED BY <2>4, <2>7, <3>2, <4>1
    <3>. QED BY <3>1, <3>2
  <2>. QED BY <2>6, <2>8 DEF c
<1>7. Good(m)
  <2>. SUFFICES ASSUME ~Good(m) PROVE FALSE
    OBVIOUS
  <2>. HIDE DEF Good
  <2>1. Bad \in SUBSET Nat /\ m \in Bad
    BY <1>1
  <2>2. PICK n \in Bad : \A k \in Bad : n =< k
    BY <2>1, LeastNumber
  <2>3. n \in 0..m /\ ~Good(n)
    OBVIOUS
  <2>4. n # 0
    BY <1>5, <2>3
  <2>5. n \in 1..m /\ n - 1 \in 0..m /\ ~(n =< n - 1)
    BY <1>1, <2>3, <2>4
  <2>6. n - 1 \notin Bad
    BY <2>2, <2>5
  <2>7. Good(n - 1)
    BY <2>5, <2>6
  <2>. QED BY <1>6, <2>3, <2>5, <2>7
<1>8. PICK T : /\ BuilderHolds(f[m], T)
               /\ \A id, text : Tells(f[m].ids, T, id, text) <=> Said(m, id, text)
  BY <1>7
<1>9. Holds(Build(documents), T) /\ Build(documents).ids = f[m].ids
  BY <1>2, <1>8, FinishedHolds
<1>10. \A id, text : Said(m, id, text) <=> Lists(documents, id, text)
  BY <1>1 DEF Lists
<1>. HIDE DEF Said, Good
<1>. QED BY <1>8, <1>9, <1>10

-----------------------------------------------------------------------------
(* Averages. A total counts the pairs of a document and one of its units.   *)

Units(lens, f) == UNION {{i} \X (1..lens[i][f]) : i \in DOMAIN lens}

LEMMA UnitsAre ==
  ASSUME NEW n \in Nat, NEW lens \in [1..n -> [Fields -> Nat]], NEW f \in Fields
  PROVE  /\ \A p : p \in Units(lens, f) <=>
                     \E i \in 1..n, k \in Nat : p = <<i, k>> /\ k \in 1..lens[i][f]
         /\ IsFiniteSet(Units(lens, f))
         /\ Total(lens, f) \in Nat
<1>. DEFINE G == [i \in 1..n |-> {i} \X (1..lens[i][f])]
            S == {G[i] : i \in 1..n}
<1>1. \A i \in 1..n : lens[i][f] \in Nat
  OBVIOUS
<1>2. Units(lens, f) = UNION S
  <2>1. \A i \in 1..n : G[i] = {i} \X (1..lens[i][f])
    OBVIOUS
  <2>2. DOMAIN lens = 1..n
    OBVIOUS
  <2>3. S = {{i} \X (1..lens[i][f]) : i \in 1..n}
    BY <2>1
  <2>. HIDE DEF S, G
  <2>. QED BY <2>2, <2>3 DEF Units
<1>3. IsFiniteSet(S)
  <2>1. G \in Surjection(1..n, S)
    BY DEF Surjection
  <2>2. IsFiniteSet(1..n)
    BY FS_Interval
  <2>. HIDE DEF S, G
  <2>. QED BY <2>1, <2>2, FS_Surjection, Zenon
<1>4. \A i \in 1..n : IsFiniteSet(G[i])
  <2>. SUFFICES ASSUME NEW i \in 1..n PROVE IsFiniteSet(G[i])
    OBVIOUS
  <2>1. IsFiniteSet({i})
    BY FS_Singleton, Zenon
  <2>2. IsFiniteSet(1..lens[i][f])
    BY <1>1, FS_Interval
  <2>3. IsFiniteSet({i} \X (1..lens[i][f]))
    BY <2>1, <2>2, FS_Product, Zenon
  <2>. QED BY <2>3
<1>5. IsFiniteSet(Units(lens, f))
  <2>1. \A X \in S : IsFiniteSet(X)
    BY <1>4
  <2>. HIDE DEF S
  <2>. QED BY <1>2, <1>3, <2>1, FS_UNION
<1>6. Total(lens, f) \in Nat
  <2>1. Total(lens, f) = Cardinality(Units(lens, f))
    BY Zenon DEF Total, Units
  <2>. QED BY <1>5, <2>1, FS_CardinalityType
<1>7. ASSUME NEW p
      PROVE  p \in Units(lens, f) <=>
               \E i \in 1..n, k \in Nat : p = <<i, k>> /\ k \in 1..lens[i][f]
  <2>1. \A i \in 1..n : p \in G[i] <=> \E k \in Nat : p = <<i, k>> /\ k \in 1..lens[i][f]
    BY <1>1
  <2>2. p \in UNION S <=> \E i \in 1..n : p \in G[i]
    OBVIOUS
  <2>. HIDE DEF S, G
  <2>. QED BY <1>2, <2>1, <2>2
<1>. QED BY <1>5, <1>6, <1>7

LEMMA RowsHaveLens ==
  ASSUME NEW index, NEW T, Rows(index, T)
  PROVE  /\ Len(T) \in Nat /\ DOMAIN T = 1..Len(T)
         /\ \A i \in 1..Len(T) : T[i] \in Texts
         /\ Len(index.ids) = Len(T) /\ DOMAIN index.ids = 1..Len(T)
         /\ index.lens \in [1..Len(T) -> [Fields -> Nat]]
         /\ index.lens \in Seq([Fields -> Nat]) /\ Len(index.lens) = Len(T)
         /\ \A i \in 1..Len(T) : index.lens[i] = Lens(T[i])
<1>1. /\ T \in Seq(Texts) /\ Len(T) \in Nat /\ DOMAIN T = 1..Len(T)
      /\ Len(index.ids) = Len(T) /\ DOMAIN index.ids = 1..Len(T)
      /\ index.lens = [i \in 1..Len(T) |-> Lens(T[i])]
  BY DEF Rows
<1>2. \A i \in 1..Len(T) : T[i] \in Texts
  BY <1>1
<1>3. \A x \in Texts : Lens(x) \in [Fields -> Nat]
  BY TermsAreCounted
<1>4. index.lens \in [1..Len(T) -> [Fields -> Nat]]
  BY <1>1, <1>2, <1>3
<1>5. index.lens \in Seq([Fields -> Nat]) /\ Len(index.lens) = Len(T)
  BY <1>1, <1>4, ListOfFunction
<1>. QED BY <1>1, <1>2, <1>4, <1>5

(* The same papers in another order have the same averages.                 *)
LEMMA SameAverages ==
  ASSUME NEW a, NEW b, NEW T, NEW U, Rows(a, T), Rows(b, U),
         \A id, text : Tells(a.ids, T, id, text) <=> Tells(b.ids, U, id, text)
  PROVE  Averages(a.lens) = Averages(b.lens)
<1>. DEFINE n == Len(T)
            m == Len(U)
            h == [i \in 1..n |-> CHOOSE j \in 1..m : b.ids[j] = a.ids[i]]
<1>1. /\ n \in Nat /\ DOMAIN T = 1..n
      /\ a.lens \in [1..n -> [Fields -> Nat]] /\ Len(a.lens) = n
      /\ \A i \in 1..n : a.lens[i] = Lens(T[i])
      /\ \A i, j \in 1..n : a.ids[i] = a.ids[j] => i = j
  <2>1. /\ n \in Nat /\ DOMAIN T = 1..n
        /\ a.lens \in [1..n -> [Fields -> Nat]] /\ Len(a.lens) = n
        /\ \A i \in 1..n : a.lens[i] = Lens(T[i])
    BY RowsHaveLens, Zenon
  <2>2. \A i, j \in DOMAIN T : a.ids[i] = a.ids[j] => i = j
    BY DEF Rows
  <2>. QED BY <2>1, <2>2
<1>2. /\ m \in Nat /\ DOMAIN U = 1..m
      /\ b.lens \in [1..m -> [Fields -> Nat]] /\ Len(b.lens) = m
      /\ \A i \in 1..m : b.lens[i] = Lens(U[i])
      /\ \A i, j \in 1..m : b.ids[i] = b.ids[j] => i = j
  <2>1. /\ m \in Nat /\ DOMAIN U = 1..m
        /\ b.lens \in [1..m -> [Fields -> Nat]] /\ Len(b.lens) = m
        /\ \A i \in 1..m : b.lens[i] = Lens(U[i])
    BY RowsHaveLens, Zenon
  <2>2. \A i, j \in DOMAIN U : b.ids[i] = b.ids[j] => i = j
    BY DEF Rows
  <2>. QED BY <2>1, <2>2
<1>. HIDE DEF n, m
<1>3. ASSUME NEW i \in 1..n
      PROVE  h[i] \in 1..m /\ b.ids[h[i]] = a.ids[i] /\ U[h[i]] = T[i]
  <2>1. Tells(a.ids, T, a.ids[i], T[i])
    BY <1>1 DEF Tells
  <2>2. PICK j \in 1..m : b.ids[j] = a.ids[i] /\ U[j] = T[i]
    <3>1. Tells(b.ids, U, a.ids[i], T[i])
      BY <2>1, Zenon
    <3>. QED BY <1>2, <3>1 DEF Tells
  <2>3. h[i] = CHOOSE k \in 1..m : b.ids[k] = a.ids[i]
    OBVIOUS
  <2>4. h[i] \in 1..m /\ b.ids[h[i]] = a.ids[i]
    BY <2>2, <2>3
  <2>. HIDE DEF h
  <2>5. h[i] = j
    BY <1>2, <2>2, <2>4
  <2>. QED BY <2>2, <2>4, <2>5
<1>4. ASSUME NEW j \in 1..m PROVE \E i \in 1..n : h[i] = j
  <2>1. Tells(b.ids, U, b.ids[j], U[j])
    BY <1>2 DEF Tells
  <2>2. PICK i \in 1..n : a.ids[i] = b.ids[j]
    <3>1. Tells(a.ids, T, b.ids[j], U[j])
      BY <2>1, Zenon
    <3>. QED BY <1>1, <3>1 DEF Tells
  <2>3. h[i] \in 1..m /\ b.ids[h[i]] = b.ids[j]
    BY <1>3, <2>2
  <2>. HIDE DEF h
  <2>. QED BY <1>2, <2>2, <2>3
<1>5. \A i, j \in 1..n : h[i] = h[j] => i = j
  <2>. HIDE DEF h
  <2>. QED BY <1>1, <1>3
<1>6. DOMAIN h = 1..n /\ h \in [1..n -> 1..m]
  <2>1. DOMAIN h = 1..n
    OBVIOUS
  <2>. QED BY <1>3, <2>1
<1>. HIDE DEF h
<1>7. n = m
  <2>1. h \in Bijection(1..n, 1..m)
    BY <1>4, <1>5, <1>6 DEF Bijection, Injection, IsInjective, Surjection
  <2>2. ExistsBijection(1..n, 1..m)
    BY <2>1, Zenon DEF ExistsBijection
  <2>3. IsFiniteSet(1..n) /\ Cardinality(1..n) = n
    BY <1>1, FS_Interval
  <2>4. Cardinality(1..m) = m
    BY <1>2, FS_Interval
  <2>5. Cardinality(1..m) = Cardinality(1..n)
    BY <2>2, <2>3, FS_Bijection, Zenon
  <2>. QED BY <2>3, <2>4, <2>5
<1>8. ASSUME NEW f \in Fields PROVE Total(a.lens, f) = Total(b.lens, f)
  <2>. DEFINE A == Units(a.lens, f)
              C == Units(b.lens, f)
              g == [p \in A |-> <<h[p[1]], p[2]>>]
  <2>1. /\ \A p : p \in A <=> \E i \in 1..n, k \in Nat : p = <<i, k>> /\ k \in 1..a.lens[i][f]
        /\ IsFiniteSet(A)
    BY <1>1, UnitsAre, Zenon
  <2>2. \A p : p \in C <=> \E i \in 1..m, k \in Nat : p = <<i, k>> /\ k \in 1..b.lens[i][f]
    BY <1>2, UnitsAre, Zenon
  <2>3. \A i \in 1..n : h[i] \in 1..m /\ b.lens[h[i]] = a.lens[i]
    BY <1>1, <1>2, <1>3
  <2>. HIDE DEF A, C
  <2>4. \A i \in 1..n, k \in Nat : k \in 1..a.lens[i][f] => <<i, k>> \in A /\ g[<<i, k>>] = <<h[i], k>>
    BY <2>1
  <2>5. \A p \in A : \E i \in 1..n, k \in Nat :
          p = <<i, k>> /\ k \in 1..a.lens[i][f] /\ g[p] = <<h[i], k>>
    BY <2>1, <2>4
  <2>6. \A i \in 1..n, k \in Nat : k \in 1..a.lens[i][f] => <<h[i], k>> \in C
    BY <2>2, <2>3
  <2>7. DOMAIN g = A
    OBVIOUS
  <2>8. g \in [A -> C]
    BY <2>5, <2>6, <2>7
  <2>. HIDE DEF g
  <2>9. \A p, q \in A : g[p] = g[q] => p = q
    BY <1>5, <2>5
  <2>10. ASSUME NEW q \in C PROVE \E p \in A : g[p] = q
    <3>1. PICK j \in 1..m, k \in Nat : q = <<j, k>> /\ k \in 1..b.lens[j][f]
      BY <2>2
    <3>2. PICK i \in 1..n : h[i] = j
      BY <1>4
    <3>. QED BY <2>3, <2>4, <3>1, <3>2
  <2>11. g \in Bijection(A, C)
    BY <2>7, <2>8, <2>9, <2>10 DEF Bijection, Injection, IsInjective, Surjection
  <2>12. ExistsBijection(A, C)
    BY <2>11, Zenon DEF ExistsBijection
  <2>13. Cardinality(A) = Cardinality(C)
    BY <2>1, <2>12, FS_Bijection, Zenon
  <2>. QED BY <2>13, Zenon DEF A, C, Total, Units
<1>. QED BY <1>1, <1>2, <1>7, <1>8 DEF Averages

-----------------------------------------------------------------------------
(* What is read from an index that holds texts.                             *)

Reads(list, t, T) ==
  /\ list \in Seq(Posting) /\ list # <<>>
  /\ \A i, j \in DOMAIN list : i < j => list[i].doc < list[j].doc
  /\ \A i \in DOMAIN list :
       /\ list[i].doc \in DOMAIN T /\ t \in Terms(T[list[i].doc])
       /\ list[i].fields = FieldTerms(T[list[i].doc], t)
  /\ \A d \in DOMAIN T : t \in Terms(T[d]) => \E i \in DOMAIN list : list[i].doc = d

LEMMA PostingsRead ==
  ASSUME NEW index, NEW T, Holds(index, T), NEW t \in DOMAIN index.postings
  PROVE  Reads(index.postings[t], t, T)
<1>. DEFINE list == index.postings[t]
<1>1. PostingsOf(list, DocsOf(T, t), t, T) /\ DocsOf(T, t) # {}
  BY DEF Holds
<1>. HIDE DEF list
<1>2. /\ list \in Seq(Posting)
      /\ \A i, j \in DOMAIN list : i < j => list[i].doc < list[j].doc
      /\ \A i \in DOMAIN list : list[i].doc \in DocsOf(T, t)
      /\ \A i \in DOMAIN list : list[i].fields = FieldTerms(T[list[i].doc], t)
      /\ \A d \in DocsOf(T, t) : \E i \in DOMAIN list : list[i].doc = d
  BY <1>1 DEF PostingsOf
<1>3. list # <<>>
  <2>1. DOMAIN list # {}
    BY <1>1, <1>2
  <2>2. DOMAIN <<>> = {}
    OBVIOUS
  <2>. QED BY <2>1, <2>2
<1>4. \A d : d \in DocsOf(T, t) <=> d \in DOMAIN T /\ t \in Terms(T[d])
  BY DEF DocsOf
<1>5. Reads(list, t, T)
  BY <1>2, <1>3, <1>4 DEF Reads
<1>. QED BY <1>5 DEF list

(* validate accepts it.                                                     *)
LEMMA HoldsIsValid ==
  ASSUME NEW index, NEW T, Holds(index, T)
  PROVE  Valid(index)
<1>1. Rows(index, T)
  BY DEF Holds
<1>2. /\ Len(T) \in Nat /\ DOMAIN T = 1..Len(T) /\ \A i \in 1..Len(T) : T[i] \in Texts
      /\ Len(index.ids) = Len(T) /\ DOMAIN index.ids = 1..Len(T)
      /\ index.lens \in [1..Len(T) -> [Fields -> Nat]] /\ Len(index.lens) = Len(T)
  BY <1>1, RowsHaveLens, Zenon
<1>3. \A i \in DOMAIN index.lens : DOMAIN index.lens[i] = Fields
  BY <1>2
<1>4. DOMAIN index.averages = Fields
  BY DEF Holds, Averages
<1>5. IsInjective(index.ids)
  BY <1>1, <1>2 DEF Rows, IsInjective
<1>6. ASSUME NEW t \in DOMAIN index.postings
      PROVE  LET list == index.postings[t]
             IN  /\ list # <<>>
                 /\ \A i \in 1..(Len(list) - 1) : list[i].doc < list[i + 1].doc
                 /\ \A i \in DOMAIN list : /\ list[i].doc \in DOMAIN index.ids
                                           /\ DOMAIN list[i].fields \subseteq Fields
  <2>. DEFINE list == index.postings[t]
  <2>1. /\ list \in Seq(Posting) /\ list # <<>>
        /\ \A i, j \in DOMAIN list : i < j => list[i].doc < list[j].doc
        /\ \A i \in DOMAIN list :
             /\ list[i].doc \in DOMAIN T /\ t \in Terms(T[list[i].doc])
             /\ list[i].fields = FieldTerms(T[list[i].doc], t)
    <3>1. Reads(list, t, T)
      BY PostingsRead, Zenon
    <3>. HIDE DEF list
    <3>. QED BY <3>1, Zenon DEF Reads
  <2>. HIDE DEF list
  <2>2. ASSUME NEW i \in 1..(Len(list) - 1) PROVE list[i].doc < list[i + 1].doc
    <3>1. i \in DOMAIN list /\ i + 1 \in DOMAIN list /\ i < i + 1
      BY <2>1
    <3>. QED BY <2>1, <3>1, Zenon
  <2>3. ASSUME NEW i \in DOMAIN list
        PROVE  /\ list[i].doc \in DOMAIN index.ids
               /\ DOMAIN list[i].fields \subseteq Fields
    <3>1. T[list[i].doc] \in Texts /\ list[i].doc \in DOMAIN index.ids
      BY <1>2, <2>1
    <3>2. DOMAIN FieldTerms(T[list[i].doc], t) \subseteq Fields
      BY <3>1, TermsAreCounted, Zenon
    <3>. QED BY <2>1, <3>1, <3>2
  <2>. QED BY <2>1, <2>2, <2>3 DEF list
<1>. QED BY <1>2, <1>3, <1>4, <1>5, <1>6 DEF Valid

(* Every posting of it weighs: a count is positive, and so is its divisor.  *)
LEMMA PostingsWeigh ==
  ASSUME NEW index, NEW T, Holds(index, T), NEW t \in DOMAIN index.postings,
         NEW i \in DOMAIN index.postings[t]
  PROVE  Weighs(index, index.postings[t][i])
<1>. DEFINE p == index.postings[t][i]
            n == Len(T)
<1>1. p.doc \in DOMAIN T /\ t \in Terms(T[p.doc]) /\ p.fields = FieldTerms(T[p.doc], t)
  <2>1. Reads(index.postings[t], t, T)
    BY PostingsRead, Zenon
  <2>. QED BY <2>1, Zenon DEF Reads
<1>2. Rows(index, T) /\ index.averages = Averages(index.lens)
  BY DEF Holds
<1>3. /\ n \in Nat /\ DOMAIN T = 1..n /\ \A j \in 1..n : T[j] \in Texts
      /\ index.lens \in [1..n -> [Fields -> Nat]] /\ Len(index.lens) = n
      /\ \A j \in 1..n : index.lens[j] = Lens(T[j])
  BY <1>2, RowsHaveLens, Zenon
<1>. HIDE DEF p, n
<1>4. T[p.doc] \in Texts /\ p.doc \in 1..n /\ n >= 1
  BY <1>1, <1>3
<1>5. /\ DOMAIN p.fields \subseteq Fields /\ DOMAIN p.fields # {}
      /\ p.fields \in Counts
      /\ \A f \in DOMAIN p.fields : p.fields[f] >= 1 /\ Lens(T[p.doc])[f] >= 1
  BY <1>1, <1>4, TermsAreCounted
<1>6. PICK f \in DOMAIN p.fields : TRUE
  BY <1>5
<1>7. f \in Fields /\ p.fields[f] \in Nat /\ p.fields[f] >= 1
  BY <1>5 DEF Counts
<1>8. /\ index.averages[f].total = Total(index.lens, f)
      /\ index.averages[f].documents = n
  BY <1>2, <1>3, <1>7 DEF Averages
<1>9. Total(index.lens, f) \in Nat
  BY <1>3, <1>7, UnitsAre
<1>. DEFINE count == p.fields[f]
            w == Weight[f]
            b == B[f]
            total == Total(index.lens, f)
            len == index.lens[p.doc][f]
<1>10. b \in 0..100 /\ w \in Nat \ {0}
  BY <1>7, ParametersAssumption
<1>11. len \in Nat /\ len >= 1
  BY <1>3, <1>4, <1>5, <1>7
<1>12. count \in Nat /\ count >= 1 /\ total \in Nat
  BY <1>7, <1>9
<1>. HIDE DEF count, w, b, total, len
<1>13. \A x, y \in Nat : x >= 1 /\ y >= 1 => x * y \in Nat /\ x * y >= 1
  OBVIOUS
<1>14. \A x, y \in Nat : x * y \in Nat
  OBVIOUS
<1>15. count * w > 0
  <2>1. w \in Nat /\ w >= 1
    BY <1>10
  <2>2. count * w \in Nat /\ count * w >= 1
    BY <1>12, <1>13, <2>1
  <2>. QED BY <2>2
<1>16. total # 0 => (100 - b) * total + b * len * n > 0
  <2>. SUFFICES ASSUME total # 0 PROVE (100 - b) * total + b * len * n > 0
    OBVIOUS
  <2>1. b \in Nat /\ 100 - b \in Nat /\ total >= 1
    BY <1>10, <1>12
  <2>2. (100 - b) * total \in Nat
    BY <1>12, <1>14, <2>1
  <2>3. b * len \in Nat
    BY <1>11, <1>14, <2>1
  <2>4. b * len * n \in Nat
    BY <1>3, <1>14, <2>3
  <2>5. CASE b = 0
    <3>1. 100 - b >= 1
      BY <2>5
    <3>2. (100 - b) * total >= 1
      BY <1>12, <1>13, <2>1, <3>1
    <3>. QED BY <2>2, <2>4, <3>2
  <2>6. CASE b # 0
    <3>1. b >= 1
      BY <2>1, <2>6
    <3>2. b * len >= 1
      BY <1>11, <1>13, <2>1, <3>1
    <3>3. b * len * n >= 1
      BY <1>3, <1>4, <1>13, <2>3, <3>2
    <3>. QED BY <2>2, <2>4, <3>3
  <2>. QED BY <2>5, <2>6
<1>17. Weighs(index, p)
  BY <1>6, <1>8, <1>15, <1>16 DEF Weighs, count, w, b, total, len
<1>. QED BY <1>17 DEF p

(* A query finds the papers that have one of its terms.                     *)
LEMMA SearchFinds ==
  ASSUME NEW index, NEW T, Holds(index, T), NEW id, NEW query
  PROVE  id \in Search(index, query) <=>
           \E text : Tells(index.ids, T, id, text) /\ query \cap Terms(text) # {}
<1>. DEFINE found == UNION {ToSet(index.postings[t]) : t \in query \cap DOMAIN index.postings}
<1>1. Search(index, query) =
        {index.ids[p.doc] : p \in {q \in found : q.doc \in DOMAIN index.ids /\ Weighs(index, q)}}
  BY Zenon DEF Search
<1>2. DOMAIN index.ids = DOMAIN T
  <2>1. Rows(index, T)
    BY DEF Holds
  <2>. QED BY <2>1, RowsHaveLens
<1>3. \A p : p \in found <=> \E t \in query \cap DOMAIN index.postings :
                               \E i \in DOMAIN index.postings[t] : p = index.postings[t][i]
  BY DEF ToSet
<1>. HIDE DEF found
<1>4. ASSUME NEW p \in found PROVE p.doc \in DOMAIN T /\ query \cap Terms(T[p.doc]) # {}
                                   /\ Weighs(index, p)
  <2>1. PICK t \in query \cap DOMAIN index.postings :
               \E i \in DOMAIN index.postings[t] : p = index.postings[t][i]
    BY <1>3
  <2>2. PICK i \in DOMAIN index.postings[t] : p = index.postings[t][i]
    BY <2>1
  <2>3. p.doc \in DOMAIN T /\ t \in Terms(T[p.doc])
    <3>1. Reads(index.postings[t], t, T)
      BY <2>1, PostingsRead, Zenon
    <3>. QED BY <2>2, <3>1, Zenon DEF Reads
  <2>4. Weighs(index, p)
    BY <2>2, PostingsWeigh, Zenon
  <2>. QED BY <2>3, <2>4
<1>5. ASSUME NEW d \in DOMAIN T, query \cap Terms(T[d]) # {}
      PROVE  \E p \in found : p.doc = d
  <2>1. PICK t \in query : t \in Terms(T[d])
    BY <1>5
  <2>2. t \in DOMAIN index.postings
    BY <2>1 DEF Holds, DocsOf
  <2>3. PICK i \in DOMAIN index.postings[t] : index.postings[t][i].doc = d
    <3>1. Reads(index.postings[t], t, T)
      BY <2>2, PostingsRead, Zenon
    <3>. QED BY <2>1, <3>1, Zenon DEF Reads
  <2>4. index.postings[t][i] \in found
    BY <1>3, <2>1, <2>2
  <2>. QED BY <2>3, <2>4
<1>6. id \in Search(index, query) <=> \E p \in found : index.ids[p.doc] = id
  BY <1>1, <1>2, <1>4
<1>7. (\E p \in found : index.ids[p.doc] = id) <=>
        \E d \in DOMAIN T : index.ids[d] = id /\ query \cap Terms(T[d]) # {}
  BY <1>4, <1>5
<1>. QED BY <1>6, <1>7 DEF Tells

-----------------------------------------------------------------------------
(* The corpus: papers are put in, each once, and taken out.                 *)

LEMMA LibraryIs ==
  ASSUME NEW documents, IsLibrary(documents)
  PROVE  /\ Len(documents) \in Nat /\ DOMAIN documents = 1..Len(documents)
         /\ \A i \in DOMAIN documents :
              /\ documents[i] \in [id : Ids, text : Texts]
              /\ documents[i].id \in Ids /\ documents[i].text \in Texts
         /\ \A i, j \in DOMAIN documents : documents[i].id = documents[j].id => i = j
<1>. DEFINE P == [id : Ids, text : Texts]
<1>1. /\ documents \in Seq(P)
      /\ \A i, j \in DOMAIN documents : documents[i].id = documents[j].id => i = j
  BY DEF IsLibrary, Library
<1>2. \A p \in P : p.id \in Ids /\ p.text \in Texts
  OBVIOUS
<1>. HIDE DEF P
<1>3. /\ Len(documents) \in Nat /\ DOMAIN documents = 1..Len(documents)
      /\ \A i \in DOMAIN documents : documents[i] \in P
  BY <1>1
<1>. QED BY <1>1, <1>2, <1>3 DEF P

(* Where the paper of an id is.                                             *)
LEMMA PaperAt ==
  ASSUME NEW documents, IsLibrary(documents), NEW id
  PROVE  LET at == Position([i \in DOMAIN documents |-> documents[i].id], id)
         IN  /\ at = 0 => \A i \in DOMAIN documents : documents[i].id # id
             /\ at # 0 => at \in DOMAIN documents /\ documents[at].id = id
             /\ \A i \in DOMAIN documents : documents[i].id = id => at = i
<1>. DEFINE ids == [i \in DOMAIN documents |-> documents[i].id]
<1>1. /\ Len(documents) \in Nat /\ DOMAIN documents = 1..Len(documents)
      /\ \A i \in DOMAIN documents : documents[i].id \in Ids
      /\ \A i, j \in DOMAIN documents : documents[i].id = documents[j].id => i = j
  BY LibraryIs
<1>2. DOMAIN ids = DOMAIN documents /\ \A i \in DOMAIN documents : ids[i] = documents[i].id
  OBVIOUS
<1>3. ids \in [1..Len(documents) -> Ids]
  BY <1>1
<1>. HIDE DEF ids
<1>4. ids \in Seq(Ids)
  BY <1>1, <1>3, ListOfFunction
<1>5. \A i, j \in DOMAIN ids : ids[i] = ids[j] => i = j
  BY <1>1, <1>2
<1>. DEFINE at == Position(ids, id)
<1>6. /\ at = 0 => \A i \in DOMAIN ids : ids[i] # id
      /\ at # 0 => at \in DOMAIN ids /\ ids[at] = id
      /\ \A i \in DOMAIN ids : ids[i] = id => at = i
  BY <1>4, <1>5, PositionIs, Zenon
<1>. HIDE DEF at
<1>7. /\ at = 0 => \A i \in DOMAIN documents : documents[i].id # id
      /\ at # 0 => at \in DOMAIN documents /\ documents[at].id = id
      /\ \A i \in DOMAIN documents : documents[i].id = id => at = i
  BY <1>2, <1>6
<1>. QED BY <1>7 DEF at, ids

LEMMA TextOfIs ==
  ASSUME NEW documents, IsLibrary(documents), NEW id
  PROVE  /\ \A text : Lists(documents, id, text) <=> text \in Texts /\ TextOf(documents, id) = text
         /\ id \in IdsOf(documents) <=> TextOf(documents, id) \in Texts
<1>. DEFINE at == Position([i \in DOMAIN documents |-> documents[i].id], id)
<1>1. /\ at = 0 => \A i \in DOMAIN documents : documents[i].id # id
      /\ at # 0 => at \in DOMAIN documents /\ documents[at].id = id
      /\ \A i \in DOMAIN documents : documents[i].id = id => at = i
  BY PaperAt, Zenon
<1>2. TextOf(documents, id) = IF id \in IdsOf(documents) THEN documents[at].text ELSE Nil
  BY DEF TextOf
<1>. HIDE DEF at
<1>3. id \in IdsOf(documents) <=> \E i \in DOMAIN documents : documents[i].id = id
  BY DEF IdsOf
<1>4. \A i \in DOMAIN documents : documents[i].text \in Texts
  BY LibraryIs
<1>5. Nil \notin Texts
  BY TextsAssumption
<1>6. CASE id \in IdsOf(documents)
  <2>1. PICK i \in DOMAIN documents : documents[i].id = id
    BY <1>3, <1>6
  <2>2. at = i /\ \A j \in DOMAIN documents : documents[j].id = id => j = i
    BY <1>1, <2>1
  <2>. QED BY <1>2, <1>4, <1>6, <2>1, <2>2 DEF Lists
<1>7. CASE id \notin IdsOf(documents)
  BY <1>2, <1>3, <1>5, <1>7 DEF Lists
<1>. QED BY <1>6, <1>7

LEMMA UpsertedLibrary ==
  ASSUME IsLibrary(corpus), NEW document \in [id : Ids, text : Texts]
  PROVE  LET after == Upserted(document)
         IN  /\ IsLibrary(after)
             /\ \A text : Lists(after, document.id, text) <=> text = document.text
             /\ \A id, text : id # document.id =>
                  (Lists(after, id, text) <=> Lists(corpus, id, text))
<1>. DEFINE at == Position([j \in DOMAIN corpus |-> corpus[j].id], document.id)
            after == Upserted(document)
            n == Len(corpus)
            P == [id : Ids, text : Texts]
<1>1. /\ at = 0 => \A i \in DOMAIN corpus : corpus[i].id # document.id
      /\ at # 0 => at \in DOMAIN corpus /\ corpus[at].id = document.id
      /\ \A i \in DOMAIN corpus : corpus[i].id = document.id => at = i
  BY PaperAt, Zenon
<1>2. after = IF at = 0 THEN Append(corpus, document) ELSE [corpus EXCEPT ![at] = document]
  BY DEF Upserted
<1>3. /\ n \in Nat /\ DOMAIN corpus = 1..n
      /\ \A i \in 1..n : corpus[i] \in P
      /\ \A i, j \in 1..n : corpus[i].id = corpus[j].id => i = j
      /\ corpus \in Seq(P) /\ document \in P
  <2>1. corpus \in Seq(P) /\ document \in P
    BY DEF IsLibrary, Library
  <2>2. /\ n \in Nat /\ DOMAIN corpus = 1..n
        /\ \A i \in DOMAIN corpus : corpus[i] \in P
        /\ \A i, j \in DOMAIN corpus : corpus[i].id = corpus[j].id => i = j
    BY LibraryIs
  <2>. HIDE DEF n, P
  <2>. QED BY <2>1, <2>2
<1>. HIDE DEF at, after, P
<1>. DEFINE doc == IF at = 0 THEN n + 1 ELSE at
<1>4. /\ after \in Seq(P) /\ doc \in DOMAIN after
      /\ DOMAIN after = (1..n) \cup {doc} /\ after[doc] = document
      /\ \A i \in (1..n) \ {doc} : after[i] = corpus[i] /\ corpus[i].id # document.id
  <2>1. CASE at = 0
    <3>1. /\ after \in Seq(P) /\ DOMAIN after = 1..n + 1 /\ after[n + 1] = document
          /\ \A i \in 1..n : after[i] = corpus[i]
      BY <1>2, <1>3, <2>1, AppendedTo
    <3>2. 1..n + 1 = (1..n) \cup {n + 1}
      BY <1>3
    <3>. QED BY <1>1, <1>3, <2>1, <3>1, <3>2
  <2>2. CASE at # 0
    <3>1. after = [corpus EXCEPT ![at] = document] /\ at \in 1..n /\ doc = at
      BY <1>1, <1>2, <1>3, <2>2
    <3>2. DOMAIN after = 1..n /\ after[at] = document
          /\ \A i \in (1..n) \ {at} : after[i] = corpus[i]
      BY <1>3, <3>1
    <3>3. after \in [1..n -> P]
      <4>1. after = [i \in 1..n |-> after[i]]
        BY <1>3, <3>1
      <4>. QED BY <1>3, <3>2, <4>1
    <3>4. after \in Seq(P)
      BY <1>3, <3>3, ListOfFunction
    <3>. QED BY <1>1, <1>3, <3>1, <3>2, <3>4
  <2>. QED BY <2>1, <2>2
<1>. HIDE DEF doc
<1>5. \A i, j \in DOMAIN after : after[i].id = after[j].id => i = j
  BY <1>3, <1>4
<1>6. IsLibrary(after)
  BY <1>4, <1>5 DEF IsLibrary, Library, P
<1>7. \A text : Lists(after, document.id, text) <=> text = document.text
  BY <1>4, <1>5 DEF Lists
<1>8. ASSUME NEW id, NEW text, id # document.id
      PROVE  Lists(after, id, text) <=> Lists(corpus, id, text)
  <2>1. ASSUME NEW i \in DOMAIN after, after[i].id = id, after[i].text = text
        PROVE  i \in DOMAIN corpus /\ corpus[i].id = id /\ corpus[i].text = text
    BY <1>3, <1>4, <1>8, <2>1
  <2>2. ASSUME NEW i \in DOMAIN corpus, corpus[i].id = id, corpus[i].text = text
        PROVE  i \in DOMAIN after /\ after[i].id = id /\ after[i].text = text
    <3>1. i # doc
      <4>1. CASE at = 0
        BY <1>3, <4>1 DEF doc
      <4>2. CASE at # 0
        BY <1>1, <1>8, <2>2, <4>2 DEF doc
      <4>. QED BY <4>1, <4>2
    <3>. QED BY <1>3, <1>4, <2>2, <3>1
  <2>. QED BY <2>1, <2>2 DEF Lists
<1>. QED BY <1>6, <1>7, <1>8 DEF after

LEMMA RemovedLibrary ==
  ASSUME NEW documents, IsLibrary(documents), NEW id
  PROVE  LET left == Retained(documents, {i \in DOMAIN documents : documents[i].id # id})
         IN  /\ IsLibrary(left)
             /\ \A other, text : Lists(left, other, text)
                                   <=> other # id /\ Lists(documents, other, text)
<1>. DEFINE S == {i \in DOMAIN documents : documents[i].id # id}
            at == Ascending(S)
            m == Cardinality(S)
            left == Retained(documents, S)
            P == [id : Ids, text : Texts]
<1>1. /\ Len(documents) \in Nat /\ DOMAIN documents = 1..Len(documents)
      /\ \A i \in DOMAIN documents : documents[i] \in P
      /\ \A i, j \in DOMAIN documents : documents[i].id = documents[j].id => i = j
  BY LibraryIs
<1>2. IsFiniteSet(S) /\ S \in SUBSET Nat
  <2>1. IsFiniteSet(1..Len(documents))
    BY <1>1, FS_Interval
  <2>2. S \in SUBSET (1..Len(documents))
    BY <1>1
  <2>3. IsFiniteSet(S)
    BY <2>1, <2>2, FS_Subset, Zenon
  <2>. QED BY <2>2, <2>3
<1>3. /\ m \in Nat /\ at \in [1..m -> S]
      /\ \A x \in S : \E i \in 1..m : at[i] = x
      /\ \A i, j \in 1..m : i < j => at[i] < at[j]
  BY <1>2, AscendingProperties
<1>4. left = [n \in DOMAIN at |-> documents[at[n]]]
  BY DEF Retained
<1>5. \A i : i \in S <=> i \in DOMAIN documents /\ documents[i].id # id
  OBVIOUS
<1>. HIDE DEF S, at, m, left, P
<1>6. DOMAIN left = 1..m /\ \A i \in 1..m : left[i] = documents[at[i]] /\ at[i] \in S
  BY <1>3, <1>4
<1>7. left \in Seq(P)
  <2>1. left \in [1..m -> P]
    BY <1>1, <1>3, <1>4, <1>5, <1>6
  <2>. QED BY <1>3, <2>1, ListOfFunction
<1>8. \A i, j \in DOMAIN left : left[i].id = left[j].id => i = j
  <2>. SUFFICES ASSUME NEW i \in 1..m, NEW j \in 1..m, left[i].id = left[j].id PROVE i = j
    BY <1>6
  <2>1. at[i] = at[j]
    BY <1>1, <1>5, <1>6
  <2>2. at[i] \in Nat
    BY <1>2, <1>6
  <2>3. ~(at[i] < at[j]) /\ ~(at[j] < at[i])
    BY <2>1, <2>2
  <2>4. ~(i < j) /\ ~(j < i)
    BY <1>3, <2>3
  <2>. QED BY <1>3, <2>4
<1>9. IsLibrary(left)
  BY <1>7, <1>8 DEF IsLibrary, Library, P
<1>10. ASSUME NEW other, NEW text
       PROVE  Lists(left, other, text) <=> other # id /\ Lists(documents, other, text)
  <2>1. ASSUME NEW i \in DOMAIN left, left[i].id = other, left[i].text = text
        PROVE  other # id /\ \E j \in DOMAIN documents :
                               documents[j].id = other /\ documents[j].text = text
    BY <1>5, <1>6, <2>1
  <2>2. ASSUME other # id, NEW j \in DOMAIN documents, documents[j].id = other,
               documents[j].text = text
        PROVE  \E i \in DOMAIN left : left[i].id = other /\ left[i].text = text
    BY <1>3, <1>5, <1>6, <2>2
  <2>. QED BY <2>1, <2>2 DEF Lists
<1>. QED BY <1>9, <1>10 DEF left, S

-----------------------------------------------------------------------------
(* The file and the threads. An index mirrors a list of papers but for some *)
(* ids when it holds a document for each paper, with its text, and no other.*)

Mirrors(index, papers, except) ==
  \E T : /\ Holds(index, T)
         /\ \A id \in Ids \ except : \A text :
              Tells(index.ids, T, id, text) <=> Lists(papers, id, text)

(* What a thread holds: what it has read of the corpus, and the index that  *)
(* it is about to save, which mirrors it.                                   *)
Carries(x) ==
  /\ x.at \in Saving => IsLibrary(x.papers) /\ Mirrors(x.index, x.papers, x.behind)
  /\ x.at \in {"stamp", "look up", "read"} => IsLibrary(x.papers)
  /\ x.at = "load" => x.document \in [id : Ids, text : Texts]

(* Nobody changes the corpus between an import and its load.                *)
Imported(x, papers) ==
  x.at = "load" =>
    \A text : Lists(papers, x.document.id, text) <=> text = x.document.text

(* The temporary file holds an index of whoever wrote it last, or none.     *)
TmpMirrors ==
  tmp # Nil /\ IsIndex(tmp.index) =>
    IsLibrary(tmp.papers) /\ Mirrors(tmp.index, tmp.papers, tmp.behind)

MirrorInv ==
  /\ IsLibrary(corpus) /\ TmpMirrors
  /\ IsIndex(file) => Mirrors(file, corpus, behind)
  /\ \A t \in Threads : Carries(threads[t]) /\ Imported(threads[t], corpus)

LEMMA BuildMirrors ==
  ASSUME NEW papers, IsLibrary(papers)
  PROVE  Mirrors(Build(papers), papers, {})
BY BuildHolds, Zenon DEF Mirrors

LEMMA UpsertMirrors ==
  ASSUME NEW index, NEW papers, NEW except, Mirrors(index, papers, except),
         NEW document \in [id : Ids, text : Texts],
         \A text : Lists(papers, document.id, text) <=> text = document.text
  PROVE  Mirrors(UpsertDocument(index, document), papers, except \ {document.id})
<1>. DEFINE after == UpsertDocument(index, document)
<1>1. PICK T : /\ Holds(index, T)
               /\ \A id \in Ids \ except : \A text :
                    Tells(index.ids, T, id, text) <=> Lists(papers, id, text)
  BY DEF Mirrors
<1>2. document.id \in Ids /\ document.text \in Texts
  OBVIOUS
<1>3. PICK U : /\ Holds(after, U)
               /\ Writes(index.ids, T, after.ids, U, document.id, document.text)
  BY <1>1, <1>2, UpsertHolds
<1>. HIDE DEF after
<1>4. ASSUME NEW id \in Ids \ (except \ {document.id}), NEW text
      PROVE  Tells(after.ids, U, id, text) <=> Lists(papers, id, text)
  <2>1. CASE id = document.id
    BY <1>3, <2>1 DEF Writes
  <2>2. CASE id # document.id
    BY <1>1, <1>3, <2>2 DEF Writes
  <2>. QED BY <2>1, <2>2
<1>. QED BY <1>3, <1>4 DEF Mirrors, after

(* The corpus changes at one id, which falls behind.                        *)
LEMMA MirrorsBehind ==
  ASSUME NEW index, NEW papers, NEW now, NEW except, NEW more, Mirrors(index, papers, except),
         \A id \in Ids \ more : \A text : Lists(now, id, text) <=> Lists(papers, id, text)
  PROVE  Mirrors(index, now, except \cup more)
<1>1. PICK T : /\ Holds(index, T)
               /\ \A id \in Ids \ except : \A text :
                    Tells(index.ids, T, id, text) <=> Lists(papers, id, text)
  BY DEF Mirrors
<1>2. \A id \in Ids \ (except \cup more) : \A text :
        Tells(index.ids, T, id, text) <=> Lists(now, id, text)
  BY <1>1
<1>. QED BY <1>1, <1>2 DEF Mirrors

(* A thread goes on; the others keep what they hold.                        *)
LEMMA MirrorStep ==
  ASSUME IndexInv, MirrorInv, NEW t \in Threads, NEW next, Becomes(t, next),
         Carries(next), Imported(next, corpus'), UNCHANGED corpus, TmpMirrors',
         IsIndex(file') => Mirrors(file', corpus, behind')
  PROVE  MirrorInv'
<1>1. \A u \in Threads : threads'[u] = IF u = t THEN next ELSE threads[u]
  BY DEF IndexInv, Becomes
<1>2. ASSUME NEW u \in Threads PROVE Carries(threads'[u]) /\ Imported(threads'[u], corpus')
  <2>1. CASE u = t
    BY <1>1, <2>1 DEF Imported
  <2>2. CASE u # t
    BY <1>1, <2>2 DEF MirrorInv, Imported
  <2>. QED BY <2>1, <2>2
<1>. QED BY <1>2 DEF MirrorInv

(* A thread goes on with an index that it saves.                            *)
LEMMA SaverMirrors ==
  ASSUME IndexInv, MirrorInv, NEW t \in Threads, NEW step \in Saving, NEW by, NEW papers,
         NEW since, NEW index, NEW late,
         Becomes(t, Saver(step, by, papers, since, index, late)),
         IsLibrary(papers), Mirrors(index, papers, late), UNCHANGED corpus, TmpMirrors',
         IsIndex(file') => Mirrors(file', corpus, behind')
  PROVE  MirrorInv'
<1>1. PICK next : next = Saver(step, by, papers, since, index, late)
  OBVIOUS
<1>2. /\ next.at = step /\ next.papers = papers /\ next.index = index /\ next.behind = late
      /\ Becomes(t, next)
  BY <1>1 DEF Saver
<1>3. Carries(next) /\ Imported(next, corpus')
  BY <1>2 DEF Carries, Imported, Saving
<1>. QED BY <1>2, <1>3, MirrorStep

LEMMA MirrorInvInit == Init => MirrorInv
<1>. SUFFICES ASSUME Init PROVE MirrorInv
  OBVIOUS
<1>1. IsLibrary(corpus)
  BY DEF Init, IsLibrary, Library
<1>2. ~IsIndex(file)
  BY DEF Init, IsIndex
<1>3. \A t \in Threads : threads[t].at = "idle"
  BY DEF Init, Idle
<1>4. TmpMirrors
  BY DEF Init, TmpMirrors
<1>. QED BY <1>1, <1>2, <1>3, <1>4 DEF MirrorInv, Carries, Imported, Saving

(* The corpus is changed while nobody is between import and load.           *)
LEMMA CorpusSteps ==
  ASSUME IndexInv, MirrorInv, NEW t \in Threads,
         \/ \E id \in Ids, text \in Texts : Import(t, [id |-> id, text |-> text])
         \/ \E id \in Ids : RemoveEntry(t, id)
  PROVE  MirrorInv'
<1>1. ASSUME NEW next, NEW at, Unlocked, Becomes(t, next), Carries(next), Imported(next, corpus'),
             IsLibrary(corpus)', UNCHANGED <<file, tmp>>, behind' = behind \cup {at},
             \A id \in Ids \ {at} : \A text : Lists(corpus', id, text) <=> Lists(corpus, id, text)
      PROVE  MirrorInv'
  <2>1. \A u \in Threads : threads'[u] = IF u = t THEN next ELSE threads[u]
    BY <1>1 DEF IndexInv, Becomes
  <2>2. \A u \in Threads : threads[u].at # "load"
    BY <1>1 DEF Unlocked
  <2>3. ASSUME NEW u \in Threads PROVE Carries(threads'[u]) /\ Imported(threads'[u], corpus')
    <3>1. CASE u = t
      BY <1>1, <2>1, <3>1 DEF Imported
    <3>2. CASE u # t
      BY <2>1, <2>2, <3>2 DEF MirrorInv, Imported
    <3>. QED BY <3>1, <3>2
  <2>5. IsIndex(file) => Mirrors(file, corpus', behind')
    BY <1>1, MirrorsBehind DEF MirrorInv
  <2>6. TmpMirrors'
    BY <1>1 DEF MirrorInv, TmpMirrors, IsIndex
  <2>. QED BY <1>1, <2>3, <2>5, <2>6 DEF MirrorInv, IsIndex
<1>2. CASE \E id \in Ids, text \in Texts : Import(t, [id |-> id, text |-> text])
  <2>1. PICK document \in [id : Ids, text : Texts] : Import(t, document)
    BY <1>2
  <2>2. /\ IsLibrary(Upserted(document))
        /\ \A text : Lists(Upserted(document), document.id, text) <=> text = document.text
        /\ \A id, text : id # document.id =>
             (Lists(Upserted(document), id, text) <=> Lists(corpus, id, text))
    BY UpsertedLibrary DEF MirrorInv
  <2>3. /\ corpus' = Upserted(document) /\ UNCHANGED <<file, tmp>> /\ Unlocked
        /\ behind' = behind \cup {document.id}
        /\ Becomes(t, [at |-> "load", document |-> document])
    BY <2>1 DEF Import
  <2>4. PICK next : next = [at |-> "load", document |-> document]
    OBVIOUS
  <2>5. next.at = "load" /\ next.document = document /\ Becomes(t, next)
    BY <2>3, <2>4
  <2>6. Carries(next)
    BY <2>5 DEF Carries, Saving
  <2>7. Imported(next, corpus')
    BY <2>2, <2>3, <2>5 DEF Imported
  <2>8. IsLibrary(corpus)'
    BY <2>2, <2>3
  <2>9. \A id \in Ids \ {document.id} : \A text : Lists(corpus', id, text) <=> Lists(corpus, id, text)
    BY <2>2, <2>3
  <2>. QED BY <1>1, <2>3, <2>5, <2>6, <2>7, <2>8, <2>9
<1>3. CASE \E id \in Ids : RemoveEntry(t, id)
  <2>1. PICK id \in Ids : RemoveEntry(t, id)
    BY <1>3
  <2>. DEFINE left == Retained(corpus, {i \in DOMAIN corpus : corpus[i].id # id})
  <2>2. /\ IsLibrary(left)
        /\ \A other, text : Lists(left, other, text) <=> other # id /\ Lists(corpus, other, text)
    BY RemovedLibrary, Zenon DEF MirrorInv
  <2>3. /\ corpus' = left /\ UNCHANGED <<file, tmp>> /\ Unlocked
        /\ behind' = behind \cup {id}
        /\ Becomes(t, Saver("save", "writer", left, 0, Build(left), {}))
    BY <2>1 DEF RemoveEntry
  <2>. HIDE DEF left
  <2>4. PICK next : next = Saver("save", "writer", left, 0, Build(left), {})
    OBVIOUS
  <2>5. /\ next.at = "save" /\ next.papers = left /\ next.index = Build(left)
        /\ next.behind = {} /\ Becomes(t, next)
    BY <2>3, <2>4 DEF Saver
  <2>6. Carries(next) /\ Imported(next, corpus')
    BY <2>2, <2>5, BuildMirrors DEF Carries, Imported, Saving
  <2>7. IsLibrary(corpus)'
    BY <2>2, <2>3
  <2>8. \A other \in Ids \ {id} : \A text : Lists(corpus', other, text) <=> Lists(corpus, other, text)
    BY <2>2, <2>3
  <2>. QED BY <1>1, <2>3, <2>5, <2>6, <2>7, <2>8
<1>. QED BY <1>2, <1>3

(* An index is made, from the file and one document or from the corpus.     *)
LEMMA IndexSteps ==
  ASSUME IndexInv, MirrorInv, NEW t \in Threads,
         LoadBase(t) \/ Reindex(t) \/ LoadFails(t)
  PROVE  MirrorInv'
<1>0. /\ UNCHANGED <<corpus, file, behind>> /\ TmpMirrors'
      /\ IsIndex(file') => Mirrors(file', corpus, behind')
  BY DEF LoadBase, Reindex, LoadFails, MirrorInv, TmpMirrors, IsIndex, disk
<1>1. CASE LoadBase(t)
  <2>. DEFINE document == threads[t].document
              keeps == IsIndex(file) /\ IndexMatchesCorpus(file, {document.id})
              base == IF keeps THEN file ELSE Build(corpus)
              late == IF keeps THEN behind \ {document.id} ELSE {}
              index == UpsertDocument(base, document)
  <2>1. /\ document \in [id : Ids, text : Texts]
        /\ \A text : Lists(corpus, document.id, text) <=> text = document.text
    BY <1>1 DEF LoadBase, At, MirrorInv, Carries, Imported
  <2>2. Becomes(t, Saver("save", "writer", corpus, 0, index, late))
    BY <1>1 DEF LoadBase
  <2>. HIDE DEF document
  <2>3. Mirrors(index, corpus, late)
    <3>1. CASE keeps
      <4>1. Mirrors(UpsertDocument(file, document), corpus, behind \ {document.id})
        BY <2>1, <3>1, UpsertMirrors DEF MirrorInv
      <4>. QED BY <3>1, <4>1
    <3>2. CASE ~keeps
      <4>1. Mirrors(UpsertDocument(Build(corpus), document), corpus, {} \ {document.id})
        BY <2>1, BuildMirrors, UpsertMirrors DEF MirrorInv
      <4>2. {} \ {document.id} = {}
        OBVIOUS
      <4>. QED BY <3>2, <4>1, <4>2
    <3>. QED BY <3>1, <3>2
  <2>. HIDE DEF index, late
  <2>. QED BY <1>0, <2>2, <2>3, SaverMirrors DEF Saving, MirrorInv
<1>2. CASE Reindex(t)
  <2>1. Becomes(t, Saver("save", "reindex", corpus, 0, Build(corpus), {}))
    BY <1>2 DEF Reindex
  <2>2. IsLibrary(corpus) /\ Mirrors(Build(corpus), corpus, {})
    BY BuildMirrors DEF MirrorInv
  <2>. QED BY <1>0, <2>1, <2>2, SaverMirrors DEF Saving
<1>3. CASE LoadFails(t)
  <2>1. PICK papers, since : papers = threads[t].papers /\ since = threads[t].since
    OBVIOUS
  <2>2. Becomes(t, Saver("save", "search", papers, since, Build(papers), {}))
    BY <1>3, <2>1 DEF LoadFails
  <2>3. IsLibrary(papers)
    BY <1>3, <2>1 DEF LoadFails, At, MirrorInv, Carries
  <2>. QED BY <1>0, <2>2, <2>3, BuildMirrors, SaverMirrors DEF Saving
<1>. QED BY <1>1, <1>2, <1>3

(* A search goes on, or somebody gives up.                                  *)
LEMMA ReadingSteps ==
  ASSUME IndexInv, MirrorInv, NEW t \in Threads,
         \/ Ask(t) \/ TakeStamp(t) \/ LookUp(t) \/ Load(t) \/ Fill(t) \/ Answer(t)
         \/ SaveFails(t) \/ RenameFails(t)
  PROVE  MirrorInv'
<1>0. /\ UNCHANGED <<corpus, file, behind>> /\ TmpMirrors'
      /\ IsIndex(file') => Mirrors(file', corpus, behind')
      /\ Carries(threads[t]) /\ ThreadOK(threads[t])
  BY DEF Ask, TakeStamp, LookUp, Load, Fill, Answer, SaveFails, RenameFails, MirrorInv, IndexInv,
         TmpMirrors, IsIndex, disk
<1>1. ASSUME NEW next, Becomes(t, next), next.at \in {"idle", "fill", "answer"}
      PROVE  MirrorInv'
  <2>1. Carries(next) /\ Imported(next, corpus')
    BY <1>1 DEF Carries, Imported, Saving
  <2>. QED BY <1>0, <1>1, <2>1, MirrorStep
<1>2. ASSUME NEW next, Becomes(t, next), next.at \in {"stamp", "look up", "read"},
             IsLibrary(next.papers)
      PROVE  MirrorInv'
  <2>1. Carries(next) /\ Imported(next, corpus')
    BY <1>2 DEF Carries, Imported, Saving
  <2>. QED BY <1>0, <1>2, <2>1, MirrorStep
<1>3. CASE Ask(t)
  <2>1. PICK next : next = [at |-> "stamp", papers |-> corpus, since |-> Version]
    OBVIOUS
  <2>2. Becomes(t, next) /\ next.at = "stamp" /\ IsLibrary(next.papers)
    BY <1>3, <2>1 DEF Ask, MirrorInv
  <2>. QED BY <1>2, <2>2
<1>4. CASE TakeStamp(t)
  <2>1. PICK next : next = [at |-> "look up", papers |-> threads[t].papers,
                            since |-> threads[t].since,
                            stamp |-> IF file = Nil THEN Nil ELSE stamps[Version]]
    OBVIOUS
  <2>2. Becomes(t, next) /\ next.at = "look up" /\ next.papers = threads[t].papers
    BY <1>4, <2>1 DEF TakeStamp
  <2>3. IsLibrary(next.papers)
    BY <1>0, <1>4, <2>2 DEF TakeStamp, At, Carries
  <2>. QED BY <1>2, <2>2, <2>3
<1>5. CASE LookUp(t)
  <2>1. CASE Becomes(t, Answering(t, cache.index, cache.version))
    <3>1. PICK next : next = Answering(t, cache.index, cache.version)
      OBVIOUS
    <3>2. next.at = "answer"
      BY <3>1 DEF Answering
    <3>. QED BY <1>1, <2>1, <3>1, <3>2
  <2>2. CASE Becomes(t, [threads[t] EXCEPT !.at = "read"])
    <3>1. PICK next : next = [threads[t] EXCEPT !.at = "read"]
      OBVIOUS
    <3>2. IsLibrary(threads[t].papers) /\ threads[t] = [f \in LookingFields |-> threads[t][f]]
      BY <1>0, <1>5 DEF LookUp, At, Carries, ThreadOK
    <3>3. next.at = "read" /\ next.papers = threads[t].papers
      BY <3>1, <3>2 DEF LookingFields
    <3>. QED BY <1>2, <2>2, <3>1, <3>2, <3>3
  <2>. QED BY <1>5, <2>1, <2>2 DEF LookUp
<1>6. CASE Load(t)
  <2>1. PICK answer : answer = Answering(t, file, Version)
    OBVIOUS
  <2>2. PICK next : next = [at |-> "fill", stamp |-> threads[t].stamp, answering |-> answer]
    OBVIOUS
  <2>3. Becomes(t, next) /\ next.at = "fill"
    BY <1>6, <2>1, <2>2 DEF Load
  <2>. QED BY <1>1, <2>3
<1>7. CASE Fill(t)
  <2>1. Becomes(t, threads[t].answering) /\ threads[t].answering.at = "answer"
    BY <1>0, <1>7 DEF Fill, At, ThreadOK, Read
  <2>. QED BY <1>1, <2>1
<1>8. CASE Answer(t) \/ SaveFails(t) \/ RenameFails(t)
  <2>1. Becomes(t, Idle) /\ Idle.at = "idle"
    BY <1>8 DEF Answer, SaveFails, RenameFails, Idle
  <2>. QED BY <1>1, <2>1
<1>. QED BY <1>3, <1>4, <1>5, <1>6, <1>7, <1>8

(* An index that was made from other papers than the corpus lists by now is *)
(* behind in those that changed.                                            *)
LEMMA PutMirrors ==
  ASSUME IsLibrary(corpus), UNCHANGED corpus, NEW content, NEW stamp, NEW papers, NEW late,
         Put(content, stamp, papers, late),
         IsIndex(content) => IsLibrary(papers) /\ Mirrors(content, papers, late)
  PROVE  IsIndex(file') => Mirrors(file', corpus, behind')
<1>. SUFFICES ASSUME IsIndex(content) PROVE Mirrors(content, corpus, late \cup ChangedSince(papers))
  BY DEF Put
<1>1. \A id \in Ids \ ChangedSince(papers) : \A text :
        Lists(corpus, id, text) <=> Lists(papers, id, text)
  <2>1. \A id \in Ids \ ChangedSince(papers) : TextOf(papers, id) = TextOf(corpus, id)
    BY DEF ChangedSince
  <2>2. \A id, text : Lists(papers, id, text) <=> text \in Texts /\ TextOf(papers, id) = text
    BY TextOfIs
  <2>3. \A id, text : Lists(corpus, id, text) <=> text \in Texts /\ TextOf(corpus, id) = text
    BY TextOfIs
  <2>. QED BY <2>1, <2>2, <2>3
<1>. QED BY <1>1, MirrorsBehind

(* A save: each writes its own index and puts in place whatever is there.   *)
LEMMA SaveMirrors ==
  ASSUME IndexInv, MirrorInv, NEW t \in Threads, OpenTmp(t) \/ Write(t) \/ Rename(t)
  PROVE  MirrorInv'
<1>0. PICK x : x = threads[t]
  OBVIOUS
<1>1. /\ IsLibrary(x.papers) /\ Mirrors(x.index, x.papers, x.behind)
      /\ IsLibrary(corpus) /\ UNCHANGED corpus
  BY <1>0 DEF MirrorInv, Carries, OpenTmp, Write, Rename, At, Saving
<1>2. CASE OpenTmp(t)
  <2>1. /\ Becomes(t, Saver("write", x.by, x.papers, x.since, x.index, x.behind))
        /\ UNCHANGED <<file, behind>> /\ tmp'.index = Broken
    BY <1>0, <1>2 DEF OpenTmp
  <2>2. TmpMirrors'
    BY <2>1 DEF TmpMirrors, IsIndex
  <2>3. IsIndex(file') => Mirrors(file', corpus, behind')
    BY <2>1 DEF MirrorInv
  <2>. QED BY <1>1, <2>1, <2>2, <2>3, SaverMirrors DEF Saving
<1>3. CASE Write(t)
  <2>1. Becomes(t, Saver("rename", x.by, x.papers, x.since, x.index, x.behind))
    BY <1>0, <1>3 DEF Write
  <2>2. CASE UNCHANGED <<file, behind>> /\ tmp'.index = x.index /\ tmp'.papers = x.papers
                                       /\ tmp'.behind = x.behind
    <3>1. TmpMirrors'
      BY <1>1, <2>2 DEF TmpMirrors
    <3>2. IsIndex(file') => Mirrors(file', corpus, behind')
      BY <2>2 DEF MirrorInv
    <3>. QED BY <1>1, <2>1, <3>1, <3>2, SaverMirrors DEF Saving
  <2>3. CASE UNCHANGED tmp /\ \E stamp : Put(x.index, stamp, x.papers, x.behind)
    <3>1. TmpMirrors'
      BY <2>3 DEF MirrorInv, TmpMirrors, IsIndex
    <3>2. IsIndex(file') => Mirrors(file', corpus, behind')
      BY <1>1, <2>3, PutMirrors
    <3>. QED BY <1>1, <2>1, <3>1, <3>2, SaverMirrors DEF Saving
  <2>4. CASE UNCHANGED <<file, tmp, behind>>
    <3>1. TmpMirrors' /\ (IsIndex(file') => Mirrors(file', corpus, behind'))
      BY <2>4 DEF MirrorInv, TmpMirrors, IsIndex
    <3>. QED BY <1>1, <2>1, <3>1, SaverMirrors DEF Saving
  <2>. QED BY <1>0, <1>3, <2>2, <2>3, <2>4 DEF Write
<1>4. CASE Rename(t)
  <2>1. tmp # Nil /\ tmp' = Nil /\ Put(tmp.index, tmp.stamp, tmp.papers, tmp.behind)
    BY <1>4 DEF Rename
  <2>2. IsIndex(tmp.index) => IsLibrary(tmp.papers) /\ Mirrors(tmp.index, tmp.papers, tmp.behind)
    BY <2>1 DEF MirrorInv, TmpMirrors
  <2>3. TmpMirrors'
    BY <2>1 DEF TmpMirrors
  <2>4. IsIndex(file') => Mirrors(file', corpus, behind')
    BY <1>1, <2>1, <2>2, PutMirrors
  <2>5. PICK next : next = IF x.by = "search"
                           THEN [at |-> "answer", papers |-> x.papers, since |-> x.since,
                                 index |-> x.index, version |-> Version + 1]
                           ELSE Idle
    OBVIOUS
  <2>6. Becomes(t, next) /\ next.at \in {"answer", "idle"}
    BY <1>0, <1>4, <2>5 DEF Rename, Idle
  <2>7. Carries(next) /\ Imported(next, corpus')
    BY <2>6 DEF Carries, Imported, Saving
  <2>. QED BY <1>1, <2>3, <2>4, <2>6, <2>7, MirrorStep
<1>. QED BY <1>2, <1>3, <1>4

LEMMA MirrorInvNext == IndexInv /\ MirrorInv /\ [Next]_vars => MirrorInv'
<1>. SUFFICES ASSUME IndexInv, MirrorInv, [Next]_vars PROVE MirrorInv'
  OBVIOUS
<1>1. CASE UNCHANGED <<corpus, file, tmp, threads, behind>>
  BY <1>1 DEF MirrorInv, IsIndex, TmpMirrors
<1>2. CASE Damage
  <2>1. UNCHANGED <<corpus, tmp, threads, behind>> /\ ~IsIndex(file')
    BY <1>2 DEF Damage, IsIndex
  <2>. QED BY <2>1 DEF MirrorInv, TmpMirrors, IsIndex
<1>3. CASE \E t \in Threads :
             \/ \E id \in Ids, text \in Texts : Import(t, [id |-> id, text |-> text])
             \/ \E id \in Ids : RemoveEntry(t, id)
             \/ Reindex(t) \/ LoadBase(t)
             \/ OpenTmp(t) \/ Write(t) \/ Rename(t) \/ RenameFails(t) \/ SaveFails(t)
             \/ Ask(t) \/ TakeStamp(t) \/ LookUp(t) \/ Load(t) \/ LoadFails(t)
             \/ Fill(t) \/ Answer(t)
  BY <1>3, CorpusSteps, IndexSteps, ReadingSteps, SaveMirrors
<1>. QED BY <1>1, <1>2, <1>3 DEF Next, Tick, vars, disk

(* An index that mirrors the corpus is accepted, finds each paper by the    *)
(* terms of its text, and has the averages of an index of the corpus.       *)
LEMMA MirrorsAnswer ==
  ASSUME MirrorInv PROVE IndexMirrorsCorpus
<1>. SUFFICES ASSUME IsIndex(file)
              PROVE  /\ Valid(file)
                     /\ \A id \in Ids \ behind, query \in Queries :
                          id \in Search(file, query) <=>
                            id \in IdsOf(corpus) /\ query \cap Terms(TextOf(corpus, id)) # {}
                     /\ behind = {} => file.averages = Build(corpus).averages
  BY DEF IndexMirrorsCorpus
<1>1. PICK T : /\ Holds(file, T)
               /\ \A id \in Ids \ behind : \A text :
                    Tells(file.ids, T, id, text) <=> Lists(corpus, id, text)
  BY DEF MirrorInv, Mirrors
<1>2. IsLibrary(corpus)
  BY DEF MirrorInv
<1>3. Valid(file)
  BY <1>1, HoldsIsValid
<1>4. ASSUME NEW id \in Ids \ behind, NEW query \in Queries
      PROVE  id \in Search(file, query) <=>
               id \in IdsOf(corpus) /\ query \cap Terms(TextOf(corpus, id)) # {}
  <2>1. id \in Search(file, query) <=>
          \E text : Tells(file.ids, T, id, text) /\ query \cap Terms(text) # {}
    BY <1>1, SearchFinds
  <2>2. \A text : Lists(corpus, id, text) <=> text \in Texts /\ TextOf(corpus, id) = text
    BY <1>2, TextOfIs
  <2>3. id \in IdsOf(corpus) <=> TextOf(corpus, id) \in Texts
    BY <1>2, TextOfIs
  <2>4. \A text : Tells(file.ids, T, id, text) <=> text \in Texts /\ TextOf(corpus, id) = text
    BY <1>1, <2>2
  <2>. QED BY <2>1, <2>3, <2>4
<1>5. ASSUME behind = {} PROVE file.averages = Build(corpus).averages
  <2>1. PICK U : /\ Holds(Build(corpus), U)
                 /\ \A id, text : Tells(Build(corpus).ids, U, id, text) <=> Lists(corpus, id, text)
    BY <1>2, BuildHolds
  <2>2. Rows(file, T) /\ Rows(Build(corpus), U)
    BY <1>1, <2>1 DEF Holds
  <2>3. ASSUME NEW id, NEW text
        PROVE  Tells(file.ids, T, id, text) <=> Tells(Build(corpus).ids, U, id, text)
    <3>1. CASE id \in Ids
      BY <1>1, <1>5, <2>1, <3>1
    <3>2. CASE id \notin Ids
      <4>1. file.ids \in Seq(Ids) /\ DOMAIN T = DOMAIN file.ids
        BY <2>2, RowsHaveLens DEF Rows
      <4>2. ~Tells(file.ids, T, id, text)
        BY <3>2, <4>1 DEF Tells
      <4>3. ~Lists(corpus, id, text)
        BY <1>2, <3>2, LibraryIs DEF Lists
      <4>. QED BY <2>1, <4>2, <4>3
    <3>. QED BY <3>1, <3>2
  <2>4. Averages(file.lens) = Averages(Build(corpus).lens)
    BY <2>2, <2>3, SameAverages
  <2>5. /\ file.averages = Averages(file.lens)
        /\ Build(corpus).averages = Averages(Build(corpus).lens)
    BY <1>1, <2>1 DEF Holds
  <2>. QED BY <2>4, <2>5
<1>. QED BY <1>3, <1>4, <1>5

(* Whatever upserts, rebuilds, failing saves and damage of however many     *)
(* threads led to it, an index that is in place is accepted and answers     *)
(* every query for the papers that are not behind as their present texts    *)
(* would, and its averages are those of the corpus when no paper is.        *)
THEOREM IndexMirrors == Spec => []IndexMirrorsCorpus
<1>1. Init => IndexInv /\ MirrorInv
  BY IndexInvInit, MirrorInvInit
<1>2. IndexInv /\ MirrorInv /\ [Next]_vars => (IndexInv /\ MirrorInv)'
  BY IndexInvNext, MirrorInvNext
<1>3. IndexInv /\ MirrorInv => IndexMirrorsCorpus
  BY MirrorsAnswer
<1>. QED BY <1>1, <1>2, <1>3, PTL DEF Spec

=============================================================================
