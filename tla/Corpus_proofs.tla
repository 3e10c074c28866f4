---------------------------- MODULE Corpus_proofs ----------------------------
(***************************************************************************)
(* Proofs about the corpus store, for any number of papers, threads,       *)
(* operations, crashes and failing I/O calls.                              *)
(*                                                                         *)
(* TypeInv gives every variable its kind and every step the data it works  *)
(* with.  LockHeld says that a thread inside the closure given to          *)
(* with_corpus_write_lock holds the lock of its process.  With one process *)
(* there is then one writer at a time, and WriteInv, which says what such  *)
(* a writer has in memory and in corpus.tmp, is inductive.  From it follow *)
(* that no save undoes another write, that no acknowledged import is lost, *)
(* and that the store implements the catalogue.                            *)
(*                                                                         *)
(* IndexInv adds to WriteInv what a writer knows of the index: if only the *)
(* operations that take the lock run (OnlyWriters), the index it renames   *)
(* into place lists the papers of the corpus.  AloneInv is what one caller *)
(* at a time may rely on (OneThread): what an entry names is there.        *)
(* LeftInv adds what of the directory no entry names, and why.             *)
(*                                                                         *)
(* The theorems that need one process or one thread assume it; the others  *)
(* hold for any number.                                                    *)
(***************************************************************************)
EXTENDS CorpusLeftovers, TLAPS

(* Which operation each step belongs to.                                   *)
StepOf(t) ==
  /\ pc[t] \in {"extract", "place"} => op[t] = "import"
  /\ pc[t] \in {"lock", "blob", "upsert"} => op[t] \in {"import", "text"}
  /\ pc[t] \in {"save", "commit"} => op[t] \in Writers
  /\ pc[t] = "read" => op[t] = "text"
  /\ pc[t] \in {"rmfile", "rmblob", "rmseed"} => op[t] = "remove"
  /\ pc[t] = "build" => op[t] \in {"remove", "reindex", "search"}
  /\ pc[t] = "probe" => op[t] = "search"
  /\ pc[t] \in {"reload", "verify", "manifest"} => op[t] = "seed"

(* What an operation carries at each step.                                 *)
Carries(t) ==
  /\ op[t] \in Writers \cup {"seed"} => paper[t] # Nil
  /\ pc[t] \in {"extract", "place"} => request[t] # Nil
  /\ pc[t] \in {"lock", "read", "verify", "manifest"} => pending[t] # Nil
  /\ pc[t] \in {"blob", "save", "commit", "upsert", "build", "probe"}
       => view[t] # Nil
  /\ pc[t] \in {"blob", "save", "commit", "upsert"} =>
       IF op[t] = "remove" THEN view[t][paper[t]] = Nil
                           ELSE view[t][paper[t]] # Nil

TypeInv ==
  /\ TypeOK
  /\ \A t \in Threads : StepOf(t) /\ Carries(t)

-----------------------------------------------------------------------------
(* Values                                                                  *)

LEMMA EntryOfPaper ==
  ASSUME NEW v \in Corpora, NEW h \in Ids(v)
  PROVE  h \in Hash /\ v[h] \in Entry /\ v[h] # Nil
BY DEF Ids, Corpora

LEMMA PutIsCorpus ==
  ASSUME NEW v \in Corpora, NEW h \in Hash, NEW e \in Entry \cup {Nil}
  PROVE  /\ [v EXCEPT ![h] = e] \in Corpora
         /\ [v EXCEPT ![h] = e][h] = e
         /\ \A g \in Hash \ {h} : [v EXCEPT ![h] = e][g] = v[g]
BY DEF Corpora

LEMMA DocOfEntry ==
  ASSUME DiskOK, NEW v \in Corpora, NEW h \in Ids(v)
  PROVE  DocOf(v, h) \in Doc
<1>1. v[h] \in Entry /\ h \in Hash
  BY EntryOfPaper
<1>2. v[h].title \in Titles
  BY <1>1 DEF Entry
<1>3. blobs[h] \in Text \cup {Nil}
  BY <1>1 DEF DiskOK
<1>. QED BY <1>2, <1>3 DEF DocOf, Doc

LEMMA BuildIsIndex ==
  ASSUME DiskOK, NEW v \in Corpora
  PROVE  BuildIndex(v) \in Indexes
<1>1. \A h \in Hash : v[h] # Nil => DocOf(v, h) \in Doc
  BY DocOfEntry DEF Ids
<1>. QED BY <1>1 DEF BuildIndex, Indexes

LEMMA UpsertIsIndex ==
  ASSUME TypeInv, NEW t \in Threads, pc[t] = "upsert"
  PROVE  UpsertedIndex(t) \in Indexes
<1>1. view[t] \in Corpora /\ paper[t] \in Hash /\ paper[t] \in Ids(view[t])
  BY DEF TypeInv, TypeOK, MemoryOK, StepOf, Carries, Ids, Writers
<1>2. DocOf(view[t], paper[t]) \in Doc
  BY <1>1, DocOfEntry DEF TypeInv, TypeOK
<1>3. BuildIndex(view[t]) \in Indexes
  BY <1>1, BuildIsIndex DEF TypeInv, TypeOK
<1>4. CanKeepIndex(t) => index \in Indexes
  BY DEF CanKeepIndex, TypeInv, TypeOK, DiskOK
<1>. QED BY <1>1, <1>2, <1>3, <1>4 DEF UpsertedIndex, Indexes

LEMMA StoredLicenseType ==
  ASSUME NEW r \in Request
  PROVE  StoredLicense(r) \in License
BY DEF Request, LicenseOption, NoLicense, License, StoredLicense, IngestLicense,
       ImportLicense, ApplyMetadataLicense, OrPrivate, FirstGiven

-----------------------------------------------------------------------------
(* Types                                                                   *)

LEMMA InitTypeInv == Init => TypeInv
BY ConstantsAssumption, NilAssumption
DEF Init, TypeInv, TypeOK, DiskOK, MemoryOK, HistoryOK, StepOf, Carries, Corpora,
    Indexes, Steps, AllOps, Writers, Text, File

LEMMA BeginImportType ==
  ASSUME TypeInv, NEW t \in Threads, BeginImport(t)
  PROVE  TypeInv'
<1>1. DiskOK'
  <2>1. PICK r \in Requests : staged' = staged \cup {<<source, r.ext>>}
    BY DEF BeginImport
  <2>2. <<source, r.ext>> \in File
    BY ConstantsAssumption DEF TypeInv, TypeOK, DiskOK, File, Request
  <2>3. UNCHANGED <<source, files, blobs, db, dbTmp, index, idxTmp, manifests>>
    BY DEF BeginImport
  <2>. QED BY <2>1, <2>2, <2>3 DEF TypeInv, TypeOK, DiskOK
<1>2. MemoryOK'
  BY ConstantsAssumption, NilAssumption
  DEF TypeInv, TypeOK, MemoryOK, DiskOK, StepOf, Carries, Writers, Steps, AllOps,
      BeginImport, Start, Goto, Text
<1>3. HistoryOK'
  BY ConstantsAssumption, NilAssumption
  DEF TypeInv, TypeOK, MemoryOK, HistoryOK, StepOf, Carries, Writers, BeginImport,
      Start, Goto, Text, history
<1>4. ASSUME NEW u \in Threads PROVE (StepOf(u) /\ Carries(u))'
  <2>1. CASE u = t
    BY <2>1, ConstantsAssumption, NilAssumption
    DEF TypeInv, TypeOK, MemoryOK, DiskOK, StepOf, Carries, BeginImport, Start, Goto,
        Text, Writers
  <2>2. CASE u # t
    BY <2>2
    DEF TypeInv, TypeOK, MemoryOK, StepOf, Carries, BeginImport, Start, Goto, Text
  <2>. QED BY <2>1, <2>2
<1>. QED BY <1>1, <1>2, <1>3, <1>4 DEF TypeInv, TypeOK

LEMMA ExtractStagedType ==
  ASSUME TypeInv, NEW t \in Threads, ExtractStaged(t)
  PROVE  TypeInv'
<1>1. DiskOK'
  BY NilAssumption
  DEF TypeInv, TypeOK, DiskOK, MemoryOK, StepOf, Carries, Writers, ExtractStaged,
      Return, Goto, StagedText, Imported, Text, disk
<1>2. MemoryOK'
  BY SMTT(30), ConstantsAssumption
  DEF TypeInv, TypeOK, MemoryOK, Steps, AllOps,
      ExtractStaged, Return, Goto, StagedText, Imported, Text
<1>3. HistoryOK'
  BY ConstantsAssumption, NilAssumption
  DEF TypeInv, TypeOK, MemoryOK, HistoryOK, StepOf, Carries, Writers, ExtractStaged,
      Return, Goto, StagedText, Imported, Text, history
<1>4. ASSUME NEW u \in Threads PROVE (StepOf(u) /\ Carries(u))'
  <2>1. CASE u = t
    BY <2>1, ConstantsAssumption, NilAssumption
    DEF TypeInv, TypeOK, MemoryOK, DiskOK, StepOf, Carries, ExtractStaged, Return,
        Goto, StagedText, Imported, Text, Writers
  <2>2. CASE u # t
    BY <2>2
    DEF TypeInv, TypeOK, MemoryOK, StepOf, Carries, ExtractStaged, Return, Goto,
        StagedText, Imported, Text
  <2>. QED BY <2>1, <2>2
<1>. QED BY <1>1, <1>2, <1>3, <1>4 DEF TypeInv, TypeOK

LEMMA PlaceType ==
  ASSUME TypeInv, NEW t \in Threads, Place(t)
  PROVE  TypeInv'
<1>0. /\ op[t] = "import" /\ paper[t] \in Hash
      /\ \/ \E e \in Entry :
              /\ pending' = [pending EXCEPT ![t] = e]
              /\ request' = [request EXCEPT ![t] = Nil]
              /\ pc' = [pc EXCEPT ![t] = "lock"]
              /\ UNCHANGED <<op, paper, text, view, draft>>
         \/ Return(t)
  <2>1. request[t] \in Request
    BY ConstantsAssumption DEF Place, TypeInv, TypeOK, MemoryOK, Carries
  <2>2. \A y \in BOOLEAN : [title   |-> request[t].title,
                          license |-> StoredLicense(request[t]),
                          hasText |-> text[t] # Nil,
                          yams    |-> y,
                          ext     |-> request[t].ext] \in Entry
    BY <2>1, StoredLicenseType DEF Entry, Request
  <2>3. op[t] = "import" /\ paper[t] \in Hash
    BY DEF Place, TypeInv, TypeOK, MemoryOK, StepOf, Carries, Writers
  <2>. QED BY <2>2, <2>3, ConstantsAssumption DEF Place, Goto
<1>00. UNCHANGED lock
  BY DEF Place
<1>1. DiskOK'
  BY <1>0, <1>00, NilAssumption
  DEF TypeInv, TypeOK, DiskOK, MemoryOK, StepOf, Carries, Writers, Place, Return,
      Goto, disk
<1>2. MemoryOK'
  BY <1>0, <1>00, ConstantsAssumption, NilAssumption
  DEF TypeInv, TypeOK, MemoryOK, Steps, AllOps, Return
<1>3. HistoryOK'
  BY <1>0, <1>00, ConstantsAssumption, NilAssumption
  DEF TypeInv, TypeOK, MemoryOK, HistoryOK, StepOf, Carries, Writers, Place, Return,
      Goto, history
<1>4. ASSUME NEW u \in Threads PROVE (StepOf(u) /\ Carries(u))'
  <2>1. CASE u = t
    BY <1>0, <1>00, <2>1, ConstantsAssumption, NilAssumption
    DEF TypeInv, TypeOK, MemoryOK, StepOf, Carries, Return, Writers
  <2>2. CASE u # t
    BY <1>0, <1>00, <2>2
    DEF TypeInv, TypeOK, MemoryOK, StepOf, Carries, Place, Return, Goto
  <2>. QED BY <2>1, <2>2
<1>. QED BY <1>1, <1>2, <1>3, <1>4 DEF TypeInv, TypeOK

LEMMA LockAndUpsertType ==
  ASSUME TypeInv, NEW t \in Threads, LockAndUpsert(t)
  PROVE  TypeInv'
<1>. DEFINE v == [db EXCEPT ![paper[t]] = pending[t]]
<1>0. /\ v \in Corpora /\ v[paper[t]] # Nil
      /\ view' = [view EXCEPT ![t] = v]
  <2>1. paper[t] \in Hash /\ pending[t] \in Entry /\ pending[t] # Nil
    BY DEF LockAndUpsert, TypeInv, TypeOK, MemoryOK, StepOf, Carries, Writers
  <2>2. db \in Corpora
    BY DEF TypeInv, TypeOK, DiskOK
  <2>. QED BY <2>1, <2>2, PutIsCorpus DEF LockAndUpsert
<1>00. /\ pc' = [pc EXCEPT ![t] = AfterUpsert(t)] /\ AfterUpsert(t) \in {"blob", "save"}
       /\ op[t] \in {"import", "text"} /\ paper[t] # Nil
       /\ UNCHANGED <<op, request, paper, pending, text, draft>>
       /\ lock' = [lock EXCEPT ![ProcessOf[t]] = t]
  BY DEF LockAndUpsert, Goto, Lock, AfterUpsert, TypeInv, StepOf, Carries, Writers
<1>. HIDE DEF v
<1>1. DiskOK'
  BY <1>0, <1>00, NilAssumption
  DEF TypeInv, TypeOK, DiskOK, MemoryOK, StepOf, Carries, Writers, LockAndUpsert,
      Lock, Goto, AfterUpsert, disk
<1>2. MemoryOK'
  BY <1>0, <1>00, ConstantsAssumption, NilAssumption
  DEF TypeInv, TypeOK, MemoryOK, Steps
<1>3. HistoryOK'
  BY <1>0, <1>00, ConstantsAssumption, NilAssumption
  DEF TypeInv, TypeOK, MemoryOK, HistoryOK, StepOf, Carries, Writers, LockAndUpsert,
      Lock, Goto, AfterUpsert, history
<1>4. ASSUME NEW u \in Threads PROVE (StepOf(u) /\ Carries(u))'
  <2>1. CASE u = t
    BY <1>0, <1>00, <2>1, ConstantsAssumption, NilAssumption
    DEF TypeInv, TypeOK, MemoryOK, StepOf, Carries, Writers
  <2>2. CASE u # t
    BY <1>0, <1>00, <2>2
    DEF TypeInv, TypeOK, MemoryOK, StepOf, Carries, LockAndUpsert, Lock, Goto,
        AfterUpsert
  <2>. QED BY <2>1, <2>2
<1>. QED BY <1>1, <1>2, <1>3, <1>4 DEF TypeInv, TypeOK

LEMMA WriteBlobType ==
  ASSUME TypeInv, NEW t \in Threads, WriteBlob(t)
  PROVE  TypeInv'
<1>1. DiskOK'
  BY NilAssumption
  DEF TypeInv, TypeOK, DiskOK, MemoryOK, StepOf, Carries, Writers, WriteBlob, Goto,
      disk
<1>2. MemoryOK'
  BY ConstantsAssumption, NilAssumption
  DEF TypeInv, TypeOK, MemoryOK, DiskOK, StepOf, Carries, Writers, Steps, AllOps,
      WriteBlob, Goto
<1>3. HistoryOK'
  BY ConstantsAssumption, NilAssumption
  DEF TypeInv, TypeOK, MemoryOK, HistoryOK, StepOf, Carries, Writers, WriteBlob,
      Goto, history
<1>4. ASSUME NEW u \in Threads PROVE (StepOf(u) /\ Carries(u))'
  <2>1. CASE u = t
    BY <2>1, ConstantsAssumption, NilAssumption
    DEF TypeInv, TypeOK, MemoryOK, DiskOK, StepOf, Carries, WriteBlob, Goto, Writers
  <2>2. CASE u # t
    BY <2>2
    DEF TypeInv, TypeOK, MemoryOK, StepOf, Carries, WriteBlob, Goto
  <2>. QED BY <2>1, <2>2
<1>. QED BY <1>1, <1>2, <1>3, <1>4 DEF TypeInv, TypeOK

LEMMA WriteDbTmpType ==
  ASSUME TypeInv, NEW t \in Threads, WriteDbTmp(t)
  PROVE  TypeInv'
<1>1. DiskOK'
  BY NilAssumption
  DEF TypeInv, TypeOK, DiskOK, MemoryOK, StepOf, Carries, Writers, WriteDbTmp, Goto,
      disk
<1>2. MemoryOK'
  BY ConstantsAssumption, NilAssumption
  DEF TypeInv, TypeOK, MemoryOK, DiskOK, StepOf, Carries, Writers, Steps, AllOps,
      WriteDbTmp, Goto
<1>3. HistoryOK'
  BY ConstantsAssumption, NilAssumption
  DEF TypeInv, TypeOK, MemoryOK, HistoryOK, StepOf, Carries, Writers, WriteDbTmp,
      Goto, history
<1>4. ASSUME NEW u \in Threads PROVE (StepOf(u) /\ Carries(u))'
  <2>1. CASE u = t
    BY <2>1, ConstantsAssumption, NilAssumption
    DEF TypeInv, TypeOK, MemoryOK, DiskOK, StepOf, Carries, WriteDbTmp, Goto, Writers
  <2>2. CASE u # t
    BY <2>2
    DEF TypeInv, TypeOK, MemoryOK, StepOf, Carries, WriteDbTmp, Goto
  <2>. QED BY <2>1, <2>2
<1>. QED BY <1>1, <1>2, <1>3, <1>4 DEF TypeInv, TypeOK

LEMMA RenameDbType ==
  ASSUME TypeInv, NEW t \in Threads, RenameDb(t)
  PROVE  TypeInv'
<1>1. DiskOK'
  BY NilAssumption
  DEF TypeInv, TypeOK, DiskOK, MemoryOK, StepOf, Carries, Writers, RenameDb, Return,
      Goto, Unlock, disk
<1>2. MemoryOK'
  <2>1. CASE dbTmp = Nil
    BY <2>1, ConstantsAssumption, NilAssumption
    DEF TypeInv, TypeOK, MemoryOK, DiskOK, StepOf, Carries, Writers, Steps, AllOps,
        RenameDb, Return, Goto, Unlock
  <2>2. CASE dbTmp # Nil
    BY <2>2, ConstantsAssumption, NilAssumption
    DEF TypeInv, TypeOK, MemoryOK, DiskOK, StepOf, Carries, Writers, Steps, AllOps,
        RenameDb, Return, Goto, Unlock
  <2>. QED BY <2>1, <2>2
<1>3. HistoryOK'
  BY ConstantsAssumption, NilAssumption
  DEF TypeInv, TypeOK, MemoryOK, HistoryOK, StepOf, Carries, Writers, RenameDb,
      Return, Goto, Unlock, history
<1>4. ASSUME NEW u \in Threads PROVE (StepOf(u) /\ Carries(u))'
  <2>1. CASE u = t
    BY <2>1, ConstantsAssumption, NilAssumption
    DEF TypeInv, TypeOK, MemoryOK, DiskOK, StepOf, Carries, RenameDb, Return, Goto,
        Unlock, Writers
  <2>2. CASE u # t
    BY <2>2
    DEF TypeInv, TypeOK, MemoryOK, StepOf, Carries, RenameDb, Return, Goto, Unlock
  <2>. QED BY <2>1, <2>2
<1>. QED BY <1>1, <1>2, <1>3, <1>4 DEF TypeInv, TypeOK

LEMMA UpsertIndexType ==
  ASSUME TypeInv, NEW t \in Threads, UpsertIndex(t)
  PROVE  TypeInv'
<1>0. UpsertedIndex(t) \in Indexes
  BY UpsertIsIndex DEF UpsertIndex
<1>1. DiskOK'
  BY <1>0, NilAssumption
  DEF TypeInv, TypeOK, DiskOK, MemoryOK, StepOf, Carries, Writers, UpsertIndex,
      Return, Goto, Unlock, disk
<1>2. MemoryOK'
  <2>1. CASE UpsertFails(t)
    BY <1>0, <2>1, ConstantsAssumption, NilAssumption
    DEF TypeInv, TypeOK, MemoryOK, DiskOK, StepOf, Carries, Writers, Steps, AllOps,
        UpsertIndex, Return, Goto, Unlock
  <2>2. CASE ~UpsertFails(t)
    BY <1>0, <2>2, ConstantsAssumption, NilAssumption
    DEF TypeInv, TypeOK, MemoryOK, DiskOK, StepOf, Carries, Writers, Steps, AllOps,
        UpsertIndex, Return, Goto, Unlock
  <2>. QED BY <2>1, <2>2
<1>3. HistoryOK'
  BY <1>0, ConstantsAssumption, NilAssumption
  DEF TypeInv, TypeOK, MemoryOK, HistoryOK, StepOf, Carries, Writers, UpsertIndex,
      Return, Goto, Unlock, history
<1>4. ASSUME NEW u \in Threads PROVE (StepOf(u) /\ Carries(u))'
  <2>1. CASE u = t
    BY <1>0, <2>1, ConstantsAssumption, NilAssumption
    DEF TypeInv, TypeOK, MemoryOK, DiskOK, StepOf, Carries, UpsertIndex, Return,
        Goto, Unlock, Writers
  <2>2. CASE u # t
    BY <1>0, <2>2
    DEF TypeInv, TypeOK, MemoryOK, StepOf, Carries, UpsertIndex, Return, Goto, Unlock
  <2>. QED BY <2>1, <2>2
<1>. QED BY <1>1, <1>2, <1>3, <1>4 DEF TypeInv, TypeOK

LEMMA RebuildIndexType ==
  ASSUME TypeInv, NEW t \in Threads, RebuildIndex(t)
  PROVE  TypeInv'
<1>0. BuildIndex(view[t]) \in Indexes
  <2>1. view[t] \in Corpora
    BY DEF RebuildIndex, TypeInv, TypeOK, MemoryOK, Carries
  <2>. QED BY <2>1, BuildIsIndex DEF TypeInv, TypeOK
<1>1. DiskOK'
  BY <1>0, NilAssumption
  DEF TypeInv, TypeOK, DiskOK, MemoryOK, StepOf, Carries, Writers, RebuildIndex,
      Return, Goto, Unlock, disk
<1>2. MemoryOK'
  <2>1. CASE BuildFails(view[t])
    BY SMTT(30), <1>0, <2>1, ConstantsAssumption, NilAssumption
    DEF TypeInv, TypeOK, MemoryOK, DiskOK, StepOf, Carries, Writers, Steps, AllOps,
        RebuildIndex, Return, Goto, Unlock
  <2>2. CASE ~BuildFails(view[t])
    BY SMTT(30), <1>0, <2>2, ConstantsAssumption, NilAssumption
    DEF TypeInv, TypeOK, MemoryOK, DiskOK, StepOf, Carries, Writers, Steps, AllOps,
        RebuildIndex, Return, Goto, Unlock
  <2>. QED BY <2>1, <2>2
<1>3. HistoryOK'
  BY <1>0, ConstantsAssumption, NilAssumption
  DEF TypeInv, TypeOK, MemoryOK, HistoryOK, StepOf, Carries, Writers, RebuildIndex,
      Return, Goto, Unlock, history
<1>4. ASSUME NEW u \in Threads PROVE (StepOf(u) /\ Carries(u))'
  <2>1. CASE u = t
    BY <1>0, <2>1, ConstantsAssumption, NilAssumption
    DEF TypeInv, TypeOK, MemoryOK, DiskOK, StepOf, Carries, RebuildIndex, Return,
        Goto, Unlock, Writers
  <2>2. CASE u # t
    BY <1>0, <2>2
    DEF TypeInv, TypeOK, MemoryOK, StepOf, Carries, RebuildIndex, Return, Goto, Unlock
  <2>. QED BY <2>1, <2>2
<1>. QED BY <1>1, <1>2, <1>3, <1>4 DEF TypeInv, TypeOK

LEMMA WriteIndexTmpType ==
  ASSUME TypeInv, NEW t \in Threads, WriteIndexTmp(t)
  PROVE  TypeInv'
<1>1. DiskOK'
  BY NilAssumption
  DEF TypeInv, TypeOK, DiskOK, MemoryOK, StepOf, Carries, Writers, WriteIndexTmp,
      Goto, disk
<1>2. MemoryOK'
  BY ConstantsAssumption, NilAssumption
  DEF TypeInv, TypeOK, MemoryOK, DiskOK, StepOf, Carries, Writers, Steps, AllOps,
      WriteIndexTmp, Goto
<1>3. HistoryOK'
  BY ConstantsAssumption, NilAssumption
  DEF TypeInv, TypeOK, MemoryOK, HistoryOK, StepOf, Carries, Writers, WriteIndexTmp,
      Goto, history
<1>4. ASSUME NEW u \in Threads PROVE (StepOf(u) /\ Carries(u))'
  <2>1. CASE u = t
    BY <2>1, ConstantsAssumption, NilAssumption
    DEF TypeInv, TypeOK, MemoryOK, DiskOK, StepOf, Carries, WriteIndexTmp, Goto,
        Writers
  <2>2. CASE u # t
    BY <2>2
    DEF TypeInv, TypeOK, MemoryOK, StepOf, Carries, WriteIndexTmp, Goto
  <2>. QED BY <2>1, <2>2
<1>. QED BY <1>1, <1>2, <1>3, <1>4 DEF TypeInv, TypeOK

LEMMA RenameIndexType ==
  ASSUME TypeInv, NEW t \in Threads, RenameIndex(t)
  PROVE  TypeInv'
<1>1. DiskOK'
  BY NilAssumption
  DEF TypeInv, TypeOK, DiskOK, MemoryOK, StepOf, Carries, Writers, RenameIndex,
      Return, Goto, Unlock, disk
<1>2. MemoryOK'
  BY SMTT(30), ConstantsAssumption
  DEF TypeInv, TypeOK, MemoryOK, Steps, AllOps,
      RenameIndex, Return, Goto, Unlock
<1>3. HistoryOK'
  BY ConstantsAssumption, NilAssumption
  DEF TypeInv, TypeOK, MemoryOK, HistoryOK, StepOf, Carries, Writers, RenameIndex,
      Return, Goto, Unlock, history
<1>4. ASSUME NEW u \in Threads PROVE (StepOf(u) /\ Carries(u))'
  <2>1. CASE u = t
    BY <2>1, ConstantsAssumption, NilAssumption
    DEF TypeInv, TypeOK, MemoryOK, DiskOK, StepOf, Carries, RenameIndex, Return,
        Goto, Unlock, Writers
  <2>2. CASE u # t
    BY <2>2
    DEF TypeInv, TypeOK, MemoryOK, StepOf, Carries, RenameIndex, Return, Goto, Unlock
  <2>. QED BY <2>1, <2>2
<1>. QED BY <1>1, <1>2, <1>3, <1>4 DEF TypeInv, TypeOK

LEMMA BeginTextType ==
  ASSUME TypeInv, NEW t \in Threads, BeginText(t)
  PROVE  TypeInv'
<1>. PICK h \in Ids(db) : /\ paper' = [paper EXCEPT ![t] = h]
                         /\ pending' = [pending EXCEPT ![t] = db[h]]
  BY DEF BeginText
<1>0. h \in Hash /\ db[h] \in Entry /\ db[h] # Nil
  BY EntryOfPaper DEF TypeInv, TypeOK, DiskOK
<1>1. DiskOK'
  BY <1>0, NilAssumption
  DEF TypeInv, TypeOK, DiskOK, MemoryOK, StepOf, Carries, Writers, BeginText, Start,
      Goto, Text, disk
<1>2. MemoryOK'
  BY <1>0, ConstantsAssumption, NilAssumption
  DEF TypeInv, TypeOK, MemoryOK, DiskOK, StepOf, Carries, Writers, Steps, AllOps,
      BeginText, Start, Goto, Text
<1>3. HistoryOK'
  BY <1>0, ConstantsAssumption, NilAssumption
  DEF TypeInv, TypeOK, MemoryOK, HistoryOK, StepOf, Carries, Writers, BeginText,
      Start, Goto, Text, history
<1>4. ASSUME NEW u \in Threads PROVE (StepOf(u) /\ Carries(u))'
  <2>1. CASE u = t
    BY <1>0, <2>1, ConstantsAssumption, NilAssumption
    DEF TypeInv, TypeOK, MemoryOK, DiskOK, StepOf, Carries, BeginText, Start, Goto,
        Text, Writers
  <2>2. CASE u # t
    BY <1>0, <2>2
    DEF TypeInv, TypeOK, MemoryOK, StepOf, Carries, BeginText, Start, Goto, Text
  <2>. QED BY <2>1, <2>2
<1>. QED BY <1>1, <1>2, <1>3, <1>4 DEF TypeInv, TypeOK

LEMMA ReadBlobType ==
  ASSUME TypeInv, NEW t \in Threads, ReadBlob(t)
  PROVE  TypeInv'
<1>1. DiskOK'
  BY NilAssumption
  DEF TypeInv, TypeOK, DiskOK, MemoryOK, StepOf, Carries, Writers, ReadBlob, Return,
      disk
<1>2. MemoryOK'
  BY ConstantsAssumption, NilAssumption
  DEF TypeInv, TypeOK, MemoryOK, DiskOK, StepOf, Carries, Writers, Steps, AllOps,
      ReadBlob, Return
<1>3. HistoryOK'
  BY ConstantsAssumption, NilAssumption
  DEF TypeInv, TypeOK, MemoryOK, HistoryOK, StepOf, Carries, Writers, ReadBlob,
      Return, history
<1>4. ASSUME NEW u \in Threads PROVE (StepOf(u) /\ Carries(u))'
  <2>1. CASE u = t
    BY <2>1, ConstantsAssumption, NilAssumption
    DEF TypeInv, TypeOK, MemoryOK, DiskOK, StepOf, Carries, ReadBlob, Return, Writers
  <2>2. CASE u # t
    BY <2>2
    DEF TypeInv, TypeOK, MemoryOK, StepOf, Carries, ReadBlob, Return
  <2>. QED BY <2>1, <2>2
<1>. QED BY <1>1, <1>2, <1>3, <1>4 DEF TypeInv, TypeOK

LEMMA FetchTextType ==
  ASSUME TypeInv, NEW t \in Threads, FetchText(t)
  PROVE  TypeInv'
<1>. DEFINE e == [pending[t] EXCEPT !.hasText = TRUE]
<1>0. /\ e \in Entry
      /\ \/ pending' = [pending EXCEPT ![t] = e] /\ pc' = [pc EXCEPT ![t] = "lock"]
         \/ pending' = [pending EXCEPT ![t] = Nil] /\ Return(t)
  <2>1. pending[t] \in Entry
    BY DEF FetchText, TypeInv, TypeOK, MemoryOK, Carries
  <2>2. e \in Entry
    BY <2>1 DEF Entry
  <2>. QED BY <2>2 DEF FetchText, Return, Goto
<1>. HIDE DEF e
<1>1. DiskOK'
  BY <1>0, NilAssumption
  DEF TypeInv, TypeOK, DiskOK, MemoryOK, StepOf, Carries, Writers, FetchText, Return,
      Goto, ExtractedFromFile, Stored, Text, disk
<1>2. MemoryOK'
  BY SMTT(30), <1>0, ConstantsAssumption, NilAssumption
  DEF TypeInv, TypeOK, MemoryOK, DiskOK, StepOf, Carries, Writers, Steps, AllOps,
      FetchText, Return, Goto, ExtractedFromFile, Stored, Text
<1>3. HistoryOK'
  BY <1>0, ConstantsAssumption, NilAssumption
  DEF TypeInv, TypeOK, MemoryOK, HistoryOK, StepOf, Carries, Writers, FetchText,
      Return, Goto, ExtractedFromFile, Stored, Text, history
<1>4. ASSUME NEW u \in Threads PROVE (StepOf(u) /\ Carries(u))'
  <2>1. CASE u = t
    BY <1>0, <2>1, ConstantsAssumption, NilAssumption
    DEF TypeInv, TypeOK, MemoryOK, DiskOK, StepOf, Carries, FetchText, Return, Goto,
        ExtractedFromFile, Stored, Text, Writers
  <2>2. CASE u # t
    BY <1>0, <2>2
    DEF TypeInv, TypeOK, MemoryOK, StepOf, Carries, FetchText, Return, Goto,
        ExtractedFromFile, Stored, Text
  <2>. QED BY <2>1, <2>2
<1>. QED BY <1>1, <1>2, <1>3, <1>4 DEF TypeInv, TypeOK

LEMMA BeginRemoveType ==
  ASSUME TypeInv, NEW t \in Threads, BeginRemove(t)
  PROVE  TypeInv'
<1>. PICK h \in Ids(db) : /\ paper' = [paper EXCEPT ![t] = h]
                         /\ pending' = [pending EXCEPT ![t] = db[h]]
                         /\ view' = [view EXCEPT ![t] = Without(db, h)]
  BY DEF BeginRemove
<1>0. /\ h \in Hash /\ db[h] \in Entry /\ Without(db, h) \in Corpora
      /\ Without(db, h)[h] = Nil
  <2>1. db \in Corpora
    BY DEF TypeInv, TypeOK, DiskOK
  <2>2. h \in Hash /\ db[h] \in Entry
    BY <2>1, EntryOfPaper
  <2>. QED BY <2>1, <2>2, PutIsCorpus DEF Without
<1>1. DiskOK'
  BY <1>0, NilAssumption
  DEF TypeInv, TypeOK, DiskOK, MemoryOK, StepOf, Carries, Writers, BeginRemove,
      Start, Goto, Lock, Text, disk
<1>2. MemoryOK'
  BY <1>0, ConstantsAssumption, NilAssumption
  DEF TypeInv, TypeOK, MemoryOK, DiskOK, StepOf, Carries, Writers, Steps, AllOps,
      BeginRemove, Start, Goto, Lock, Text
<1>3. HistoryOK'
  BY <1>0, ConstantsAssumption, NilAssumption
  DEF TypeInv, TypeOK, MemoryOK, HistoryOK, StepOf, Carries, Writers, BeginRemove,
      Start, Goto, Lock, Text, history
<1>4. ASSUME NEW u \in Threads PROVE (StepOf(u) /\ Carries(u))'
  <2>1. CASE u = t
    BY <1>0, <2>1, ConstantsAssumption, NilAssumption
    DEF TypeInv, TypeOK, MemoryOK, DiskOK, StepOf, Carries, BeginRemove, Start, Goto,
        Lock, Text, Writers
  <2>2. CASE u # t
    BY <1>0, <2>2
    DEF TypeInv, TypeOK, MemoryOK, StepOf, Carries, BeginRemove, Start, Goto, Lock,
        Text
  <2>. QED BY <2>1, <2>2
<1>. QED BY <1>1, <1>2, <1>3, <1>4 DEF TypeInv, TypeOK

LEMMA RemoveFileType ==
  ASSUME TypeInv, NEW t \in Threads, RemoveFile(t)
  PROVE  TypeInv'
<1>1. DiskOK'
  BY NilAssumption
  DEF TypeInv, TypeOK, DiskOK, MemoryOK, StepOf, Carries, Writers, RemoveFile, AfterFile, Goto,
      disk
<1>2. MemoryOK'
  BY ConstantsAssumption, NilAssumption
  DEF TypeInv, TypeOK, MemoryOK, DiskOK, StepOf, Carries, Writers, Steps, AllOps,
      RemoveFile, AfterFile, Goto
<1>3. HistoryOK'
  BY ConstantsAssumption, NilAssumption
  DEF TypeInv, TypeOK, MemoryOK, HistoryOK, StepOf, Carries, Writers, RemoveFile, AfterFile,
      Goto, history
<1>4. ASSUME NEW u \in Threads PROVE (StepOf(u) /\ Carries(u))'
  <2>1. CASE u = t
    BY <2>1, ConstantsAssumption, NilAssumption
    DEF TypeInv, TypeOK, MemoryOK, DiskOK, StepOf, Carries, RemoveFile, AfterFile, Goto, Writers
  <2>2. CASE u # t
    BY <2>2
    DEF TypeInv, TypeOK, MemoryOK, StepOf, Carries, RemoveFile, AfterFile, Goto
  <2>. QED BY <2>1, <2>2
<1>. QED BY <1>1, <1>2, <1>3, <1>4 DEF TypeInv, TypeOK

LEMMA RemoveBlobType ==
  ASSUME TypeInv, NEW t \in Threads, RemoveBlob(t)
  PROVE  TypeInv'
<1>1. DiskOK'
  BY NilAssumption
  DEF TypeInv, TypeOK, DiskOK, MemoryOK, StepOf, Carries, Writers, RemoveBlob, Goto,
      disk
<1>2. MemoryOK'
  BY ConstantsAssumption, NilAssumption
  DEF TypeInv, TypeOK, MemoryOK, DiskOK, StepOf, Carries, Writers, Steps, AllOps,
      RemoveBlob, Goto
<1>3. HistoryOK'
  BY ConstantsAssumption, NilAssumption
  DEF TypeInv, TypeOK, MemoryOK, HistoryOK, StepOf, Carries, Writers, RemoveBlob,
      Goto, history
<1>4. ASSUME NEW u \in Threads PROVE (StepOf(u) /\ Carries(u))'
  <2>1. CASE u = t
    BY <2>1, ConstantsAssumption, NilAssumption
    DEF TypeInv, TypeOK, MemoryOK, DiskOK, StepOf, Carries, RemoveBlob, Goto, Writers
  <2>2. CASE u # t
    BY <2>2
    DEF TypeInv, TypeOK, MemoryOK, StepOf, Carries, RemoveBlob, Goto
  <2>. QED BY <2>1, <2>2
<1>. QED BY <1>1, <1>2, <1>3, <1>4 DEF TypeInv, TypeOK

LEMMA RemoveManifestType ==
  ASSUME TypeInv, NEW t \in Threads, RemoveManifest(t)
  PROVE  TypeInv'
<1>1. DiskOK'
  BY NilAssumption
  DEF TypeInv, TypeOK, DiskOK, MemoryOK, StepOf, Carries, Writers, RemoveManifest,
      Return, disk
<1>2. MemoryOK'
  BY ConstantsAssumption, NilAssumption
  DEF TypeInv, TypeOK, MemoryOK, DiskOK, StepOf, Carries, Writers, Steps, AllOps,
      RemoveManifest, Return
<1>3. HistoryOK'
  BY ConstantsAssumption, NilAssumption
  DEF TypeInv, TypeOK, MemoryOK, HistoryOK, StepOf, Carries, Writers, RemoveManifest,
      Return, history
<1>4. ASSUME NEW u \in Threads PROVE (StepOf(u) /\ Carries(u))'
  <2>1. CASE u = t
    BY <2>1, ConstantsAssumption, NilAssumption
    DEF TypeInv, TypeOK, MemoryOK, DiskOK, StepOf, Carries, RemoveManifest, Return,
        Writers
  <2>2. CASE u # t
    BY <2>2
    DEF TypeInv, TypeOK, MemoryOK, StepOf, Carries, RemoveManifest, Return
  <2>. QED BY <2>1, <2>2
<1>. QED BY <1>1, <1>2, <1>3, <1>4 DEF TypeInv, TypeOK

LEMMA BeginReindexType ==
  ASSUME TypeInv, NEW t \in Threads, BeginReindex(t)
  PROVE  TypeInv'
<1>1. DiskOK'
  BY NilAssumption
  DEF TypeInv, TypeOK, DiskOK, MemoryOK, StepOf, Carries, Writers, BeginReindex,
      Start, Goto, disk
<1>2. MemoryOK'
  BY ConstantsAssumption, NilAssumption
  DEF TypeInv, TypeOK, MemoryOK, DiskOK, StepOf, Carries, Writers, Steps, AllOps,
      BeginReindex, Start, Goto
<1>3. HistoryOK'
  BY ConstantsAssumption, NilAssumption
  DEF TypeInv, TypeOK, MemoryOK, HistoryOK, StepOf, Carries, Writers, BeginReindex,
      Start, Goto, history
<1>4. ASSUME NEW u \in Threads PROVE (StepOf(u) /\ Carries(u))'
  <2>1. CASE u = t
    BY <2>1, ConstantsAssumption, NilAssumption
    DEF TypeInv, TypeOK, MemoryOK, DiskOK, StepOf, Carries, BeginReindex, Start,
        Goto, Writers
  <2>2. CASE u # t
    BY <2>2
    DEF TypeInv, TypeOK, MemoryOK, StepOf, Carries, BeginReindex, Start, Goto
  <2>. QED BY <2>1, <2>2
<1>. QED BY <1>1, <1>2, <1>3, <1>4 DEF TypeInv, TypeOK

LEMMA BeginSearchType ==
  ASSUME TypeInv, NEW t \in Threads, BeginSearch(t)
  PROVE  TypeInv'
<1>1. DiskOK'
  BY NilAssumption
  DEF TypeInv, TypeOK, DiskOK, MemoryOK, StepOf, Carries, Writers, BeginSearch,
      Start, Goto, disk
<1>2. MemoryOK'
  BY ConstantsAssumption, NilAssumption
  DEF TypeInv, TypeOK, MemoryOK, DiskOK, StepOf, Carries, Writers, Steps, AllOps,
      BeginSearch, Start, Goto
<1>3. HistoryOK'
  BY ConstantsAssumption, NilAssumption
  DEF TypeInv, TypeOK, MemoryOK, HistoryOK, StepOf, Carries, Writers, BeginSearch,
      Start, Goto, history
<1>4. ASSUME NEW u \in Threads PROVE (StepOf(u) /\ Carries(u))'
  <2>1. CASE u = t
    BY <2>1, ConstantsAssumption, NilAssumption
    DEF TypeInv, TypeOK, MemoryOK, DiskOK, StepOf, Carries, BeginSearch, Start, Goto,
        Writers
  <2>2. CASE u # t
    BY <2>2
    DEF TypeInv, TypeOK, MemoryOK, StepOf, Carries, BeginSearch, Start, Goto
  <2>. QED BY <2>1, <2>2
<1>. QED BY <1>1, <1>2, <1>3, <1>4 DEF TypeInv, TypeOK

LEMMA SearchIndexType ==
  ASSUME TypeInv, NEW t \in Threads, SearchIndex(t)
  PROVE  TypeInv'
<1>1. DiskOK'
  BY NilAssumption
  DEF TypeInv, TypeOK, DiskOK, MemoryOK, StepOf, Carries, Writers, SearchIndex,
      Return, Goto, disk
<1>2. MemoryOK'
  BY SMTT(30), ConstantsAssumption
  DEF TypeInv, TypeOK, MemoryOK, Steps, AllOps,
      SearchIndex, Return, Goto
<1>3. HistoryOK'
  BY ConstantsAssumption, NilAssumption
  DEF TypeInv, TypeOK, MemoryOK, HistoryOK, StepOf, Carries, Writers, SearchIndex,
      Return, Goto, history
<1>4. ASSUME NEW u \in Threads PROVE (StepOf(u) /\ Carries(u))'
  <2>1. CASE u = t
    BY <2>1, ConstantsAssumption, NilAssumption
    DEF TypeInv, TypeOK, MemoryOK, DiskOK, StepOf, Carries, SearchIndex, Return,
        Goto, Writers
  <2>2. CASE u # t
    BY <2>2
    DEF TypeInv, TypeOK, MemoryOK, StepOf, Carries, SearchIndex, Return, Goto
  <2>. QED BY <2>1, <2>2
<1>. QED BY <1>1, <1>2, <1>3, <1>4 DEF TypeInv, TypeOK

LEMMA BeginSeedType ==
  ASSUME TypeInv, NEW t \in Threads, BeginSeed(t)
  PROVE  TypeInv'
<1>1. DiskOK'
  BY NilAssumption
  DEF TypeInv, TypeOK, DiskOK, MemoryOK, StepOf, Carries, Writers, BeginSeed, Start,
      Goto, Ids, Text, disk
<1>2. MemoryOK'
  BY ConstantsAssumption, NilAssumption
  DEF TypeInv, TypeOK, MemoryOK, DiskOK, StepOf, Carries, Writers, Steps, AllOps,
      BeginSeed, Start, Goto, Ids, Text
<1>3. HistoryOK'
  BY ConstantsAssumption, NilAssumption
  DEF TypeInv, TypeOK, MemoryOK, HistoryOK, StepOf, Carries, Writers, BeginSeed,
      Start, Goto, Ids, Text, history
<1>4. ASSUME NEW u \in Threads PROVE (StepOf(u) /\ Carries(u))'
  <2>1. CASE u = t
    BY <2>1, ConstantsAssumption, NilAssumption
    DEF TypeInv, TypeOK, MemoryOK, DiskOK, StepOf, Carries, BeginSeed, Start, Goto,
        Ids, Text, Writers
  <2>2. CASE u # t
    BY <2>2
    DEF TypeInv, TypeOK, MemoryOK, StepOf, Carries, BeginSeed, Start, Goto, Ids, Text
  <2>. QED BY <2>1, <2>2
<1>. QED BY <1>1, <1>2, <1>3, <1>4 DEF TypeInv, TypeOK

LEMMA ReloadForSeedType ==
  ASSUME TypeInv, NEW t \in Threads, ReloadForSeed(t)
  PROVE  TypeInv'
<1>0. db[paper[t]] # Nil => db[paper[t]] \in Entry
  <2>1. paper[t] \in Hash
    BY DEF ReloadForSeed, TypeInv, TypeOK, MemoryOK, StepOf, Carries, Writers
  <2>. QED BY <2>1, EntryOfPaper DEF TypeInv, TypeOK, DiskOK, Ids
<1>1. DiskOK'
  BY <1>0, NilAssumption
  DEF TypeInv, TypeOK, DiskOK, MemoryOK, StepOf, Carries, Writers, ReloadForSeed,
      Return, Goto, disk
<1>2. MemoryOK'
  BY SMTT(30), <1>0, ConstantsAssumption
  DEF TypeInv, TypeOK, MemoryOK, Steps, AllOps,
      ReloadForSeed, Return, Goto
<1>3. HistoryOK'
  BY <1>0, ConstantsAssumption, NilAssumption
  DEF TypeInv, TypeOK, MemoryOK, HistoryOK, StepOf, Carries, Writers, ReloadForSeed,
      Return, Goto, history
<1>4. ASSUME NEW u \in Threads PROVE (StepOf(u) /\ Carries(u))'
  <2>1. CASE u = t
    BY <1>0, <2>1, ConstantsAssumption, NilAssumption
    DEF TypeInv, TypeOK, MemoryOK, DiskOK, StepOf, Carries, ReloadForSeed, Return,
        Goto, Writers
  <2>2. CASE u # t
    BY <1>0, <2>2
    DEF TypeInv, TypeOK, MemoryOK, StepOf, Carries, ReloadForSeed, Return, Goto
  <2>. QED BY <2>1, <2>2
<1>. QED BY <1>1, <1>2, <1>3, <1>4 DEF TypeInv, TypeOK

LEMMA VerifyForSeedType ==
  ASSUME TypeInv, NEW t \in Threads, VerifyForSeed(t)
  PROVE  TypeInv'
<1>1. DiskOK'
  BY DEF TypeInv, TypeOK, DiskOK, VerifyForSeed, disk
<1>2. MemoryOK'
  BY SMTT(30), ConstantsAssumption
  DEF TypeInv, TypeOK, MemoryOK, Steps, AllOps,
      VerifyForSeed, Return, Goto
<1>3. HistoryOK'
  BY ConstantsAssumption, NilAssumption
  DEF TypeInv, TypeOK, MemoryOK, HistoryOK, StepOf, Carries, Writers, VerifyForSeed,
      Return, Goto, history
<1>4. ASSUME NEW u \in Threads PROVE (StepOf(u) /\ Carries(u))'
  <2>1. CASE u = t
    BY <2>1, ConstantsAssumption, NilAssumption
    DEF TypeInv, TypeOK, MemoryOK, DiskOK, StepOf, Carries, VerifyForSeed, Return,
        Goto, Writers
  <2>2. CASE u # t
    BY <2>2
    DEF TypeInv, TypeOK, MemoryOK, StepOf, Carries, VerifyForSeed, Return, Goto
  <2>. QED BY <2>1, <2>2
<1>. QED BY <1>1, <1>2, <1>3, <1>4 DEF TypeInv, TypeOK

LEMMA WriteManifestType ==
  ASSUME TypeInv, NEW t \in Threads, WriteManifest(t)
  PROVE  TypeInv'
<1>0. pending[t].license \in License
  BY DEF WriteManifest, TypeInv, TypeOK, MemoryOK, Carries, Entry
<1>1. DiskOK'
  BY <1>0, NilAssumption
  DEF TypeInv, TypeOK, DiskOK, MemoryOK, StepOf, Carries, Writers, WriteManifest,
      Return, disk
<1>2. MemoryOK'
  BY <1>0, ConstantsAssumption, NilAssumption
  DEF TypeInv, TypeOK, MemoryOK, DiskOK, StepOf, Carries, Writers, Steps, AllOps,
      WriteManifest, Return
<1>3. HistoryOK'
  BY <1>0, ConstantsAssumption, NilAssumption
  DEF TypeInv, TypeOK, MemoryOK, HistoryOK, StepOf, Carries, Writers, WriteManifest,
      Return, history
<1>4. ASSUME NEW u \in Threads PROVE (StepOf(u) /\ Carries(u))'
  <2>1. CASE u = t
    BY <1>0, <2>1, ConstantsAssumption, NilAssumption
    DEF TypeInv, TypeOK, MemoryOK, DiskOK, StepOf, Carries, WriteManifest, Return,
        Writers
  <2>2. CASE u # t
    BY <1>0, <2>2
    DEF TypeInv, TypeOK, MemoryOK, StepOf, Carries, WriteManifest, Return
  <2>. QED BY <2>1, <2>2
<1>. QED BY <1>1, <1>2, <1>3, <1>4 DEF TypeInv, TypeOK

LEMMA FailIoType ==
  ASSUME TypeInv, NEW t \in Threads, FailIo(t)
  PROVE  TypeInv'
<1>1. DiskOK'
  BY NilAssumption
  DEF TypeInv, TypeOK, DiskOK, MemoryOK, StepOf, Carries, Writers, FailIo, Return,
      Unlock, disk
<1>2. MemoryOK'
  BY ConstantsAssumption, NilAssumption
  DEF TypeInv, TypeOK, MemoryOK, DiskOK, StepOf, Carries, Writers, Steps, AllOps,
      FailIo, Return, Unlock
<1>3. HistoryOK'
  BY ConstantsAssumption, NilAssumption
  DEF TypeInv, TypeOK, MemoryOK, HistoryOK, StepOf, Carries, Writers, FailIo, Return,
      Unlock, history
<1>4. ASSUME NEW u \in Threads PROVE (StepOf(u) /\ Carries(u))'
  <2>1. CASE u = t
    BY <2>1, ConstantsAssumption, NilAssumption
    DEF TypeInv, TypeOK, MemoryOK, DiskOK, StepOf, Carries, FailIo, Return, Unlock,
        Writers
  <2>2. CASE u # t
    BY <2>2
    DEF TypeInv, TypeOK, MemoryOK, StepOf, Carries, FailIo, Return, Unlock
  <2>. QED BY <2>1, <2>2
<1>. QED BY <1>1, <1>2, <1>3, <1>4 DEF TypeInv, TypeOK

LEMMA EnvironmentType ==
  ASSUME TypeInv, Environment
  PROVE  TypeInv'
<1>1. CASE ReplaceSource
  BY <1>1 DEF ReplaceSource, TypeInv, TypeOK, DiskOK, MemoryOK, HistoryOK, StepOf,
              Carries, disk, memory, history
<1>2. CASE Damage
  BY <1>2 DEF Damage, TypeInv, TypeOK, DiskOK, MemoryOK, HistoryOK, StepOf,
              Carries, memory, history
<1>3. ASSUME NEW p \in Processes, Crash(p)
      PROVE  TypeInv'
  <2>1. DiskOK'
    BY <1>3 DEF Crash, TypeInv, TypeOK, DiskOK, disk
  <2>2. MemoryOK'
    BY <1>3, ConstantsAssumption DEF Crash, TypeInv, TypeOK, MemoryOK, Steps
  <2>3. HistoryOK'
    BY <1>3, ConstantsAssumption DEF Crash, TypeInv, TypeOK, HistoryOK
  <2>4. ASSUME NEW u \in Threads
        PROVE  (StepOf(u) /\ Carries(u))'
    <3>1. CASE ProcessOf[u] = p
      BY <1>3, <3>1 DEF Crash, StepOf, Carries, Writers
    <3>2. CASE ProcessOf[u] # p
      BY <1>3, <3>2 DEF Crash, TypeInv, StepOf, Carries
    <3>. QED BY <3>1, <3>2
  <2>. QED BY <2>1, <2>2, <2>3, <2>4 DEF TypeInv, TypeOK
<1>. QED BY <1>1, <1>2, <1>3 DEF Environment

LEMMA NextTypeInv ==
  ASSUME TypeInv, [Next]_vars
  PROVE  TypeInv'
<1>1. ASSUME NEW t \in Threads, Begin(t)
      PROVE  TypeInv'
  BY <1>1, BeginImportType, BeginTextType, BeginRemoveType, BeginReindexType,
     BeginSearchType, BeginSeedType DEF Begin
<1>2. ASSUME NEW t \in Threads, Step(t)
      PROVE  TypeInv'
  <2>1. CASE ImportStep(t)
    BY <2>1, ExtractStagedType, PlaceType DEF ImportStep
  <2>2. CASE TextStep(t)
    BY <2>2, ReadBlobType, FetchTextType DEF TextStep
  <2>3. CASE PersistStep(t)
    BY <2>3, LockAndUpsertType, WriteBlobType, WriteDbTmpType, RenameDbType,
       UpsertIndexType, RebuildIndexType, WriteIndexTmpType, RenameIndexType
    DEF PersistStep
  <2>4. CASE RemoveStep(t)
    BY <2>4, RemoveFileType, RemoveBlobType, RemoveManifestType DEF RemoveStep
  <2>5. CASE SearchIndex(t)
    BY <2>5, SearchIndexType
  <2>6. CASE SeedStep(t)
    BY <2>6, ReloadForSeedType, VerifyForSeedType, WriteManifestType DEF SeedStep
  <2>. QED BY <1>2, <2>1, <2>2, <2>3, <2>4, <2>5, <2>6 DEF Step
<1>3. ASSUME NEW t \in Threads, FailIo(t)
      PROVE  TypeInv'
  BY <1>3, FailIoType
<1>4. CASE Environment
  BY <1>4, EnvironmentType
<1>5. CASE UNCHANGED vars
  BY <1>5 DEF vars, disk, memory, history, TypeInv, TypeOK, DiskOK, MemoryOK,
              HistoryOK, StepOf, Carries
<1>. QED BY <1>1, <1>2, <1>3, <1>4, <1>5 DEF Next

(* Every variable keeps a value of its kind, whatever the threads, the     *)
(* processes, the failures and the crashes.                                *)
THEOREM TypeCorrect == Spec => []TypeOK
<1>1. Init => TypeInv
  BY InitTypeInv
<1>2. TypeInv /\ [Next]_vars => TypeInv'
  BY NextTypeInv
<1>3. TypeInv => TypeOK
  BY DEF TypeInv
<1>. QED BY <1>1, <1>2, <1>3, PTL DEF Spec

-----------------------------------------------------------------------------
(* The write lock                                                          *)

(* A thread inside the closure of with_corpus_write_lock holds the lock of *)
(* its process.                                                            *)
LockHeld == \A t \in Threads : Critical(t) => lock[ProcessOf[t]] = t

LEMMA NextLockHeld ==
  ASSUME TypeInv, LockHeld, [Next]_vars
  PROVE  LockHeld'
<1>. USE NilAssumption, ConstantsAssumption
     DEF LockHeld, Critical, Writers, TypeInv, TypeOK, MemoryOK
<1>1. ASSUME NEW t \in Threads, Begin(t)
      PROVE  LockHeld'
  <2>1. CASE BeginImport(t)
    BY <2>1 DEF BeginImport, Start, Goto
  <2>2. CASE BeginText(t)
    BY <2>2 DEF BeginText, Start, Goto
  <2>3. CASE BeginRemove(t)
    BY <2>3 DEF BeginRemove, Start, Goto, Lock
  <2>4. CASE BeginReindex(t)
    BY <2>4 DEF BeginReindex, Start, Goto
  <2>5. CASE BeginSearch(t)
    BY <2>5 DEF BeginSearch, Start, Goto
  <2>6. CASE BeginSeed(t)
    BY <2>6 DEF BeginSeed, Start, Goto
  <2>. QED BY <1>1, <2>1, <2>2, <2>3, <2>4, <2>5, <2>6 DEF Begin
<1>2. ASSUME NEW t \in Threads, ImportStep(t) \/ TextStep(t)
      PROVE  LockHeld'
  <2>1. CASE ExtractStaged(t)
    BY <2>1 DEF ExtractStaged, Return, Goto
  <2>2. CASE Place(t)
    <3>1. /\ lock' = lock
          /\ \/ op' = op /\ pc' = [pc EXCEPT ![t] = "lock"]
             \/ op' = [op EXCEPT ![t] = "none"] /\ pc' = [pc EXCEPT ![t] = "idle"]
      BY <2>2 DEF Place, Return, Goto
    <3>. QED BY <3>1
  <2>3. CASE ReadBlob(t)
    BY <2>3 DEF ReadBlob, Return
  <2>4. CASE FetchText(t)
    BY <2>4 DEF FetchText, Return, Goto
  <2>. QED BY <1>2, <2>1, <2>2, <2>3, <2>4 DEF ImportStep, TextStep
<1>3. ASSUME NEW t \in Threads, PersistStep(t)
      PROVE  LockHeld'
  <2>. USE DEF StepOf
  <2>1. CASE LockAndUpsert(t)
    BY <2>1 DEF LockAndUpsert, Lock, Goto
  <2>2. CASE WriteBlob(t)
    BY <2>2 DEF WriteBlob, Goto
  <2>3. CASE WriteDbTmp(t)
    BY <2>3 DEF WriteDbTmp, Goto
  <2>4. CASE RenameDb(t)
    BY <2>4 DEF RenameDb, Goto, Return, Unlock
  <2>5. CASE UpsertIndex(t)
    BY <2>5 DEF UpsertIndex, Goto, Return, Unlock
  <2>6. CASE RebuildIndex(t)
    BY <2>6 DEF RebuildIndex, Goto, Return, Unlock
  <2>7. CASE WriteIndexTmp(t)
    BY <2>7 DEF WriteIndexTmp, Goto
  <2>8. CASE RenameIndex(t)
    BY <2>8 DEF RenameIndex, Goto, Return, Unlock
  <2>. QED BY <1>3, <2>1, <2>2, <2>3, <2>4, <2>5, <2>6, <2>7, <2>8 DEF PersistStep
<1>4. ASSUME NEW t \in Threads, RemoveStep(t) \/ SearchIndex(t) \/ SeedStep(t)
      PROVE  LockHeld'
  <2>1. CASE RemoveFile(t) \/ RemoveBlob(t) \/ RemoveManifest(t)
    BY <2>1 DEF RemoveFile, AfterFile, RemoveBlob, RemoveManifest, Return, Goto
  <2>2. CASE SearchIndex(t)
    BY <2>2 DEF SearchIndex, Return, Goto, StepOf
  <2>3. CASE ReloadForSeed(t) \/ VerifyForSeed(t) \/ WriteManifest(t)
    BY <2>3 DEF ReloadForSeed, VerifyForSeed, WriteManifest, Return, Goto
  <2>. QED BY <1>4, <2>1, <2>2, <2>3 DEF RemoveStep, SeedStep
<1>5. ASSUME NEW t \in Threads, FailIo(t)
      PROVE  LockHeld'
  BY <1>5 DEF FailIo, Return, Unlock
<1>6. CASE Environment
  <2>1. CASE ReplaceSource \/ Damage
    BY <2>1 DEF ReplaceSource, Damage, memory
  <2>2. ASSUME NEW p \in Processes, Crash(p)
        PROVE  LockHeld'
    BY <2>2 DEF Crash
  <2>. QED BY <1>6, <2>1, <2>2 DEF Environment
<1>7. CASE UNCHANGED vars
  BY <1>7 DEF vars, memory
<1>. QED BY <1>1, <1>2, <1>3, <1>4, <1>5, <1>6, <1>7 DEF Next, Step

(* Two threads of a process are never both inside                          *)
(* with_corpus_write_lock: not even after a failed call or a crash.        *)
THEOREM MutualExclusion ==
  Spec => [](\A t, u \in Threads :
               Critical(t) /\ Critical(u) /\ ProcessOf[t] = ProcessOf[u] => t = u)
<1>1. Init => LockHeld
  BY DEF Init, LockHeld, Critical
<1>2. TypeInv /\ LockHeld /\ [Next]_vars => LockHeld'
  BY NextLockHeld
<1>3. LockHeld => \A t, u \in Threads :
         Critical(t) /\ Critical(u) /\ ProcessOf[t] = ProcessOf[u] => t = u
  BY DEF LockHeld
<1>4. Init => TypeInv
  BY InitTypeInv
<1>5. TypeInv /\ [Next]_vars => TypeInv'
  BY NextTypeInv
<1>. QED BY <1>1, <1>2, <1>3, <1>4, <1>5, PTL DEF Spec

-----------------------------------------------------------------------------
(* Texts                                                                   *)

(* The text an operation carries is of the paper it carries.               *)
CarriesOwnText(t) ==
  /\ text[t] \in {paper[t], Garbled, Nil}
  /\ pc[t] = "idle" => text[t] = Nil

TextInv ==
  /\ TypeInv
  /\ \A t \in Threads : CarriesOwnText(t)
  /\ TextOfPaper

LEMMA ThreadStepText ==
  ASSUME TextInv, TypeInv', NEW t \in Threads, Begin(t) \/ Step(t) \/ FailIo(t)
  PROVE  TextInv'
<1>. USE DEF TextInv, TypeInv, TypeOK, MemoryOK, CarriesOwnText
<1>1. CASE Begin(t)
  <2>1. /\ pc[t] = "idle" /\ pc'[t] # "idle" /\ UNCHANGED <<text, blobs>>
        /\ \A u \in Threads \ {t} : UNCHANGED <<pc[u], paper[u]>>
    BY <1>1 DEF Begin, BeginImport, BeginText, BeginRemove, BeginReindex, BeginSearch,
                BeginSeed, Start, Goto, disk
  <2>. QED BY <2>1 DEF TextOfPaper
<1>2. CASE FailIo(t) \/ ReadBlob(t) \/ RemoveManifest(t) \/ WriteManifest(t)
  BY <1>2 DEF FailIo, ReadBlob, RemoveManifest, WriteManifest, Return, TextOfPaper,
              disk
<1>3. CASE ExtractStaged(t)
  BY <1>3 DEF ExtractStaged, StagedText, Imported, Goto, Return, TextOfPaper
<1>4. CASE Place(t)
  <2>1. /\ UNCHANGED blobs
        /\ \/ UNCHANGED <<paper, text>> /\ pc' = [pc EXCEPT ![t] = "lock"]
           \/ Return(t)
    BY <1>4 DEF Place, Goto
  <2>. QED BY <2>1 DEF Return, TextOfPaper
<1>5. CASE FetchText(t)
  <2>1. /\ UNCHANGED blobs /\ paper[t] \in Hash /\ pc[t] = "read"
        /\ \/ /\ UNCHANGED paper /\ pc' = [pc EXCEPT ![t] = "lock"]
              /\ \E x \in {paper[t], Garbled} : text' = [text EXCEPT ![t] = x]
           \/ Return(t)
    BY <1>5 DEF FetchText, ExtractedFromFile, Stored, Goto, disk, StepOf, Carries, Writers
  <2>. QED BY <2>1 DEF Return, TextOfPaper
<1>6. CASE WriteBlob(t)
  <2>1. paper[t] \in Hash
    BY <1>6 DEF WriteBlob, StepOf, Carries, Writers
  <2>2. TextOfPaper'
    BY <1>6, <2>1 DEF WriteBlob, TextOfPaper, DiskOK
  <2>. QED BY <1>6, <2>2 DEF WriteBlob, Goto
<1>7. CASE RemoveBlob(t)
  <2>1. TextOfPaper'
    BY <1>7 DEF RemoveBlob, TextOfPaper, DiskOK
  <2>. QED BY <1>7, <2>1 DEF RemoveBlob, Goto
<1>8. CASE \/ LockAndUpsert(t) \/ WriteDbTmp(t) \/ RenameDb(t) \/ UpsertIndex(t)
           \/ RebuildIndex(t) \/ WriteIndexTmp(t) \/ RenameIndex(t) \/ RemoveFile(t)
           \/ SearchIndex(t) \/ ReloadForSeed(t) \/ VerifyForSeed(t)
  <2>1. /\ UNCHANGED blobs /\ pc[t] # "idle"
        /\ \/ UNCHANGED <<paper, text>> /\ \E s \in Steps \ {"idle"} : Goto(t, s)
           \/ Return(t)
    BY <1>8 DEF LockAndUpsert, WriteDbTmp, RenameDb, UpsertIndex, RebuildIndex,
                AfterUpsert,
                WriteIndexTmp, RenameIndex, RemoveFile, AfterFile, SearchIndex, ReloadForSeed,
                VerifyForSeed, disk, Steps
  <2>. QED BY <2>1 DEF Goto, Return, TextOfPaper
<1>. QED BY <1>1, <1>2, <1>3, <1>4, <1>5, <1>6, <1>7, <1>8
         DEF Step, ImportStep, TextStep, PersistStep, RemoveStep, SeedStep

LEMMA NextTextInv ==
  ASSUME TextInv, [Next]_vars
  PROVE  TextInv'
<1>1. TypeInv'
  BY NextTypeInv DEF TextInv
<1>2. CASE Environment
  <2>1. UNCHANGED blobs
    BY <1>2 DEF Environment, ReplaceSource, Damage, Crash, disk
  <2>2. ASSUME NEW u \in Threads
        PROVE  \/ UNCHANGED <<pc[u], paper[u], text[u]>>
               \/ pc'[u] = "idle" /\ text'[u] = Nil
    BY <1>2 DEF Environment, ReplaceSource, Damage, Crash, memory
  <2>. QED BY <1>1, <2>1, <2>2 DEF TextInv, CarriesOwnText, TextOfPaper
<1>3. CASE UNCHANGED vars
  BY <1>1, <1>3 DEF vars, disk, memory, TextInv, CarriesOwnText, TextOfPaper
<1>. QED BY <1>1, <1>2, <1>3, ThreadStepText DEF Next

(* The text stored for a paper is of the bytes of that paper, whatever the *)
(* user does to the source file and however many processes there are.      *)
THEOREM TextIsOfPaper == Spec => []TextOfPaper
<1>1. Init => TextInv
  BY InitTypeInv DEF Init, TextInv, CarriesOwnText, TextOfPaper
<1>2. TextInv /\ [Next]_vars => TextInv'
  BY NextTextInv
<1>3. TextInv => TextOfPaper
  BY DEF TextInv
<1>. QED BY <1>1, <1>2, <1>3, PTL DEF Spec

-----------------------------------------------------------------------------
(* One process                                                             *)

(* Every thread belongs to the same process, so they share one lock.       *)
OneProcess == \A t, u \in Threads : ProcessOf[t] = ProcessOf[u]

(* What a writer knows of the corpus on disk while it is inside the lock.  *)
WriterKnows(t) ==
  /\ pc[t] \in {"blob", "save", "commit"} =>
       \A h \in Hash \ {paper[t]} : view[t][h] = db[h]
  /\ pc[t] = "commit" => dbTmp = view[t]
  /\ pc[t] \in {"save", "commit"} /\ op[t] = "remove" => paper[t] \in Ids(db)
  /\ pc[t] \in {"upsert", "write", "rename"} /\ op[t] \in {"import", "text"}
       => paper[t] \in Ids(db)

WriteInv ==
  /\ TypeInv
  /\ LockHeld
  /\ \A t \in Threads : WriterKnows(t)
  /\ NoLostImport

LEMMA InitWriteInv == Init => WriteInv
BY InitTypeInv
DEF Init, WriteInv, LockHeld, Critical, WriterKnows, NoLostImport

LEMMA OutsideKnows ==
  ASSUME NEW u \in Threads, ~Critical(u)
  PROVE  WriterKnows(u)
BY DEF Critical, WriterKnows, Writers

(* A step that leaves corpus.json and corpus.tmp alone.                    *)
LEMMA CalmStep ==
  ASSUME WriteInv, TypeInv', LockHeld', NoLostImport', UNCHANGED <<db, dbTmp>>,
         \A u \in Threads :
           UNCHANGED <<op[u], pc[u], paper[u], view[u]>> \/ WriterKnows(u)'
  PROVE  WriteInv'
BY DEF WriteInv, WriterKnows, Ids

(* A step of t while t holds the lock of the only process: nobody else is  *)
(* inside.                                                                 *)
LEMMA HolderStep ==
  ASSUME OneProcess, WriteInv, TypeInv', LockHeld', NEW t \in Threads,
         Critical(t) \/ (lock[ProcessOf[t]] = Nil),
         \A u \in Threads \ {t} : UNCHANGED <<op[u], pc[u]>>,
         WriterKnows(t)', NoLostImport'
  PROVE  WriteInv'
<1>1. ASSUME NEW u \in Threads, u # t
      PROVE  WriterKnows(u)'
  <2>1. ~Critical(u)
    BY <1>1, NilAssumption DEF OneProcess, WriteInv, LockHeld
  <2>. QED BY <1>1, <2>1 DEF Critical, WriterKnows, Writers
<1>. QED BY <1>1 DEF WriteInv

LEMMA OwnCorpus ==
  ASSUME WriteInv, NEW t \in Threads, pc[t] \in {"blob", "save", "commit"}
  PROVE  /\ paper[t] \in Hash
         /\ view[t] \in Corpora
         /\ view[t] = [db EXCEPT ![paper[t]] = view[t][paper[t]]]
<1>1. paper[t] \in Hash /\ view[t] \in Corpora /\ db \in Corpora
  BY DEF WriteInv, TypeInv, TypeOK, DiskOK, MemoryOK, StepOf, Carries, Writers
<1>2. \A h \in Hash \ {paper[t]} : view[t][h] = db[h]
  BY DEF WriteInv, WriterKnows
<1>. QED BY <1>1, <1>2 DEF Corpora

LEMMA LockAndUpsertWrite ==
  ASSUME OneProcess, WriteInv, TypeInv', LockHeld', NEW t \in Threads, LockAndUpsert(t)
  PROVE  WriteInv'
<1>1. paper[t] \in Hash /\ db \in Corpora
  BY DEF LockAndUpsert, WriteInv, TypeInv, TypeOK, DiskOK, MemoryOK, StepOf, Carries,
         Writers
<1>2. /\ view'[t] = [db EXCEPT ![paper[t]] = pending[t]]
      /\ pc'[t] \in {"blob", "save"} /\ op'[t] \in {"import", "text"}
      /\ UNCHANGED <<db, dbTmp, acked, paper>>
  BY DEF LockAndUpsert, Goto, AfterUpsert, WriteInv, TypeInv, TypeOK, MemoryOK,
         StepOf,
         disk, history
<1>3. WriterKnows(t)'
  BY <1>1, <1>2 DEF WriterKnows, Corpora
<1>4. NoLostImport'
  BY <1>2 DEF WriteInv, NoLostImport, Ids
<1>5. lock[ProcessOf[t]] = Nil /\ \A u \in Threads \ {t} : UNCHANGED <<op[u], pc[u]>>
  BY DEF LockAndUpsert, Lock, Goto, WriteInv, TypeInv, TypeOK, MemoryOK
<1>. QED BY <1>3, <1>4, <1>5, HolderStep

LEMMA BeginRemoveWrite ==
  ASSUME OneProcess, WriteInv, TypeInv', LockHeld', NEW t \in Threads, BeginRemove(t)
  PROVE  WriteInv'
<1>. PICK h \in Ids(db) : /\ paper' = [paper EXCEPT ![t] = h]
                         /\ view' = [view EXCEPT ![t] = Without(db, h)]
  BY DEF BeginRemove
<1>1. h \in Hash /\ db \in Corpora
  BY DEF Ids, WriteInv, TypeInv, TypeOK, DiskOK
<1>2. /\ paper'[t] = h /\ view'[t] = [db EXCEPT ![h] = Nil]
      /\ pc'[t] = "save" /\ op'[t] = "remove"
      /\ UNCHANGED <<db, dbTmp, acked>>
  BY DEF BeginRemove, Start, Goto, Without, WriteInv, TypeInv, TypeOK, MemoryOK, disk
<1>3. WriterKnows(t)'
  BY <1>1, <1>2 DEF WriterKnows, Corpora, Ids
<1>4. NoLostImport'
  BY <1>2 DEF WriteInv, NoLostImport, Ids
<1>5. lock[ProcessOf[t]] = Nil /\ \A u \in Threads \ {t} : UNCHANGED <<op[u], pc[u]>>
  BY DEF BeginRemove, Start, Lock, Goto, WriteInv, TypeInv, TypeOK, MemoryOK
<1>. QED BY <1>3, <1>4, <1>5, HolderStep

LEMMA KeepsCorpusWrite ==
  ASSUME OneProcess, WriteInv, TypeInv', LockHeld', NEW t \in Threads,
         WriteBlob(t) \/ WriteDbTmp(t)
  PROVE  WriteInv'
<1>1. /\ pc[t] \in {"blob", "save"}
      /\ pc' = [pc EXCEPT ![t] = IF pc[t] = "blob" THEN "save" ELSE "commit"]
      /\ dbTmp' = IF pc[t] = "blob" THEN dbTmp ELSE view[t]
      /\ UNCHANGED <<db, acked, op, paper, view>>
  BY DEF WriteBlob, WriteDbTmp, Goto, history
<1>2. Critical(t) /\ pc \in [Threads -> Steps]
  BY <1>1 DEF Critical, WriteInv, TypeInv, TypeOK, MemoryOK
<1>3. pc[t] = "blob" => op[t] # "remove"
  BY DEF WriteInv, TypeInv, StepOf
<1>4. WriterKnows(t)'
  BY <1>1, <1>2, <1>3 DEF WriteInv, WriterKnows, Ids
<1>5. NoLostImport'
  BY <1>1 DEF WriteInv, NoLostImport, Ids
<1>. QED BY <1>1, <1>2, <1>4, <1>5, HolderStep

LEMMA RenameDbWrite ==
  ASSUME OneProcess, WriteInv, TypeInv', LockHeld', NEW t \in Threads, RenameDb(t)
  PROVE  WriteInv'
<1>1. /\ pc[t] = "commit" /\ dbTmp = view[t] /\ view[t] # Nil
      /\ op[t] \in Writers
      /\ IF op[t] = "remove" THEN view[t][paper[t]] = Nil
                             ELSE view[t][paper[t]] # Nil
  BY DEF RenameDb, WriteInv, WriterKnows, TypeInv, StepOf, Carries
<1>2. /\ db' = view[t] /\ UNCHANGED <<op, paper>>
      /\ acked' = IF op[t] = "remove" THEN acked \ {paper[t]} ELSE acked
      /\ pc' = [pc EXCEPT ![t] = IF op[t] = "remove" THEN "build" ELSE "upsert"]
  BY <1>1 DEF RenameDb, Goto
<1>3. /\ paper[t] \in Hash
      /\ \A h \in Hash \ {paper[t]} : db'[h] = db[h]
      /\ db'[paper[t]] # Nil <=> op[t] # "remove"
  BY <1>1, <1>2, OwnCorpus DEF WriteInv, WriterKnows
<1>4. pc \in [Threads -> Steps] /\ acked \subseteq Ids(db)
  BY DEF WriteInv, TypeInv, TypeOK, MemoryOK, NoLostImport
<1>5. WriterKnows(t)'
  BY <1>2, <1>3, <1>4 DEF WriterKnows, Ids
<1>6. NoLostImport'
  BY <1>2, <1>3, <1>4 DEF NoLostImport, Ids
<1>7. Critical(t) /\ \A u \in Threads \ {t} : UNCHANGED <<op[u], pc[u]>>
  BY <1>1, <1>2, <1>4 DEF Critical
<1>. QED BY <1>5, <1>6, <1>7, HolderStep

(* The steps on the index, of writers and of others.                       *)
LEMMA IndexStepWrite ==
  ASSUME WriteInv, TypeInv', LockHeld', NEW t \in Threads,
         UpsertIndex(t) \/ RebuildIndex(t) \/ WriteIndexTmp(t) \/ RenameIndex(t)
  PROVE  WriteInv'
<1>1. /\ UNCHANGED <<db, dbTmp>>
      /\ \A u \in Threads \ {t} : UNCHANGED <<op[u], pc[u], paper[u], view[u]>>
  BY DEF UpsertIndex, RebuildIndex, WriteIndexTmp, RenameIndex, Return, Goto,
         WriteInv,
         TypeInv, TypeOK, MemoryOK, disk
<1>2. /\ pc \in [Threads -> Steps] /\ op \in [Threads -> AllOps \cup {"none"}]
      /\ StepOf(t)
      /\ pc[t] \in {"upsert", "write", "rename"} /\ op[t] \in {"import", "text"}
           => paper[t] \in Ids(db)
  BY DEF WriteInv, TypeInv, TypeOK, MemoryOK, WriterKnows
<1>3. /\ \/ acked' = acked
         \/ /\ op[t] = "import" /\ pc[t] = "rename"
            /\ acked' = acked \cup {paper[t]}
      /\ pc[t] \in {"upsert", "build", "write", "rename"}
      /\ \/ pc'[t] \in {"idle", "rmfile"}
         \/ /\ pc'[t] \in {"write", "rename"}
            /\ op'[t] = op[t] /\ paper'[t] = paper[t]
  <2>1. CASE UpsertIndex(t)
    BY <1>2, <2>1 DEF UpsertIndex, Return, Goto, history
  <2>2. CASE RebuildIndex(t)
    BY <1>2, <2>2 DEF RebuildIndex, Return, Goto, history
  <2>3. CASE WriteIndexTmp(t)
    BY <1>2, <2>3 DEF WriteIndexTmp, Goto, history
  <2>4. CASE RenameIndex(t)
    BY <1>2, <2>4 DEF RenameIndex, Return, Goto
  <2>. QED BY <2>1, <2>2, <2>3, <2>4
<1>4. NoLostImport'
  BY <1>1, <1>2, <1>3 DEF WriteInv, NoLostImport, Ids
<1>5. WriterKnows(t)'
  BY <1>1, <1>2, <1>3 DEF WriterKnows, StepOf, Ids
<1>. QED BY <1>1, <1>4, <1>5, CalmStep

(* The steps outside the lock, and the ones that give it up.               *)
LEMMA OutsideWrite ==
  ASSUME WriteInv, TypeInv', LockHeld', UNCHANGED <<db, dbTmp, acked>>,
         \A u \in Threads :
           UNCHANGED <<op[u], pc[u], paper[u], view[u]>> \/ ~Critical(u)'
  PROVE  WriteInv'
<1>1. NoLostImport'
  BY DEF WriteInv, NoLostImport, Ids
<1>2. \A u \in Threads : ~Critical(u)' => WriterKnows(u)'
  BY DEF Critical, WriterKnows, Writers
<1>. QED BY <1>1, <1>2, CalmStep

LEMMA OtherStepWrite ==
  ASSUME WriteInv, TypeInv', LockHeld', NEW t \in Threads,
         \/ BeginImport(t) \/ BeginText(t) \/ BeginReindex(t) \/ BeginSearch(t)
         \/ BeginSeed(t) \/ ImportStep(t) \/ TextStep(t) \/ RemoveStep(t)
         \/ SearchIndex(t) \/ SeedStep(t) \/ FailIo(t)
  PROVE  WriteInv'
<1>. USE DEF WriteInv, TypeInv, TypeOK, MemoryOK, Critical, Goto, Return, Start,
             Writers
<1>1. CASE BeginImport(t) \/ BeginText(t) \/ BeginReindex(t) \/ BeginSearch(t)
             \/ BeginSeed(t)
  <2>1. UNCHANGED <<db, dbTmp, acked>> /\ ~Critical(t)'
    BY <1>1 DEF BeginImport, BeginText, BeginReindex, BeginSearch, BeginSeed, disk
  <2>2. \A u \in Threads \ {t} : UNCHANGED <<op[u], pc[u], paper[u], view[u]>>
    BY <1>1 DEF BeginImport, BeginText, BeginReindex, BeginSearch, BeginSeed
  <2>. QED BY <2>1, <2>2, OutsideWrite
<1>2. CASE ImportStep(t) \/ TextStep(t)
  <2>1. UNCHANGED <<db, dbTmp, acked>> /\ ~Critical(t)'
    <3>1. CASE ExtractStaged(t)
      <4>1. UNCHANGED <<db, dbTmp, acked>>
        BY <3>1 DEF ExtractStaged, disk, history
      <4>2. pc'[t] \in {"place", "idle"}
        BY <3>1 DEF ExtractStaged
      <4>. QED BY <4>1, <4>2
    <3>2. CASE Place(t)
      <4>1. UNCHANGED <<db, dbTmp, acked>>
        BY <3>2 DEF Place, disk, history
      <4>2. \/ pc' = [pc EXCEPT ![t] = "lock"]
            \/ pc' = [pc EXCEPT ![t] = "idle"]
        BY <3>2 DEF Place
      <4>3. pc'[t] \in {"lock", "idle"}
        BY <4>2
      <4>. QED BY <4>1, <4>3
    <3>3. CASE ReadBlob(t)
      <4>1. UNCHANGED <<db, dbTmp, acked>>
        BY <3>3 DEF ReadBlob, disk, history
      <4>2. pc'[t] = "idle"
        BY <3>3 DEF ReadBlob
      <4>. QED BY <4>1, <4>2
    <3>4. CASE FetchText(t)
      <4>1. UNCHANGED <<db, dbTmp, acked>>
        BY <3>4 DEF FetchText, disk, history
      <4>2. pc'[t] \in {"lock", "idle"}
        BY <3>4 DEF FetchText
      <4>. QED BY <4>1, <4>2
    <3>. QED BY <1>2, <3>1, <3>2, <3>3, <3>4 DEF ImportStep, TextStep
  <2>2. \A u \in Threads \ {t} : UNCHANGED <<op[u], pc[u], paper[u], view[u]>>
    <3>1. CASE ExtractStaged(t) \/ ReadBlob(t)
      BY <3>1 DEF ExtractStaged, ReadBlob
    <3>2. CASE Place(t)
      <4>1. \/ UNCHANGED <<op, paper, view>> /\ pc' = [pc EXCEPT ![t] = "lock"]
            \/ Return(t)
        BY <3>2 DEF Place
      <4>. QED BY <4>1
    <3>3. CASE FetchText(t)
      BY <3>3 DEF FetchText
    <3>. QED BY <1>2, <3>1, <3>2, <3>3 DEF ImportStep, TextStep
  <2>. QED BY <2>1, <2>2, OutsideWrite
<1>3. CASE RemoveStep(t)
  <2>1. UNCHANGED <<db, dbTmp, acked>> /\ ~Critical(t)'
    BY <1>3 DEF RemoveStep, RemoveFile, AfterFile, RemoveBlob, RemoveManifest, history
  <2>2. \A u \in Threads \ {t} : UNCHANGED <<op[u], pc[u], paper[u], view[u]>>
    BY <1>3 DEF RemoveStep, RemoveFile, AfterFile, RemoveBlob, RemoveManifest
  <2>. QED BY <2>1, <2>2, OutsideWrite
<1>4. CASE SearchIndex(t) \/ SeedStep(t)
  <2>1. UNCHANGED <<db, dbTmp, acked>> /\ ~Critical(t)'
    BY <1>4 DEF SearchIndex, SeedStep, ReloadForSeed, VerifyForSeed, WriteManifest,
                disk,
                history, StepOf
  <2>2. \A u \in Threads \ {t} : UNCHANGED <<op[u], pc[u], paper[u], view[u]>>
    BY <1>4 DEF SearchIndex, SeedStep, ReloadForSeed, VerifyForSeed, WriteManifest
  <2>. QED BY <2>1, <2>2, OutsideWrite
<1>5. CASE FailIo(t)
  <2>1. UNCHANGED <<db, dbTmp, acked>> /\ ~Critical(t)'
    BY <1>5 DEF FailIo, disk
  <2>2. \A u \in Threads \ {t} : UNCHANGED <<op[u], pc[u], paper[u], view[u]>>
    BY <1>5 DEF FailIo
  <2>. QED BY <2>1, <2>2, OutsideWrite
<1>. QED BY <1>1, <1>2, <1>3, <1>4, <1>5

LEMMA EnvironmentWrite ==
  ASSUME WriteInv, TypeInv', LockHeld', Environment
  PROVE  WriteInv'
<1>1. CASE ReplaceSource \/ Damage
  BY <1>1, OutsideWrite DEF ReplaceSource, Damage, disk, memory, history
<1>2. ASSUME NEW p \in Processes, Crash(p)
      PROVE  WriteInv'
  <2>1. UNCHANGED <<db, dbTmp, acked>>
    BY <1>2 DEF Crash, disk
  <2>2. ASSUME NEW u \in Threads
        PROVE  UNCHANGED <<op[u], pc[u], paper[u], view[u]>> \/ ~Critical(u)'
    BY <1>2 DEF Crash, Critical, Writers
  <2>. QED BY <2>1, <2>2, OutsideWrite
<1>. QED BY <1>1, <1>2 DEF Environment

LEMMA NextWriteInv ==
  ASSUME OneProcess, WriteInv, [Next]_vars
  PROVE  WriteInv'
<1>1. TypeInv' /\ LockHeld'
  BY NextTypeInv, NextLockHeld DEF WriteInv
<1>2. ASSUME NEW t \in Threads, Begin(t)
      PROVE  WriteInv'
  BY <1>1, <1>2, BeginRemoveWrite, OtherStepWrite DEF Begin
<1>3. ASSUME NEW t \in Threads, PersistStep(t)
      PROVE  WriteInv'
  BY <1>1, <1>3, LockAndUpsertWrite, KeepsCorpusWrite, RenameDbWrite, IndexStepWrite
  DEF PersistStep
<1>4. ASSUME NEW t \in Threads, Step(t) \/ FailIo(t)
      PROVE  WriteInv'
  BY <1>1, <1>3, <1>4, OtherStepWrite DEF Step
<1>5. CASE Environment
  BY <1>1, <1>5, EnvironmentWrite
<1>6. CASE UNCHANGED vars
  BY <1>1, <1>6, OutsideWrite DEF vars, disk, memory, history
<1>. QED BY <1>2, <1>4, <1>5, <1>6 DEF Next

LEMMA WriteInvAlways == ASSUME OneProcess PROVE Spec => []WriteInv
<1>1. Init => WriteInv
  BY InitWriteInv
<1>2. WriteInv /\ [Next]_vars => WriteInv'
  BY NextWriteInv
<1>. QED BY <1>1, <1>2, PTL DEF Spec

(* In one process, saving the whole of corpus.json undoes no other write.  *)
THEOREM NoStaleSave == ASSUME OneProcess PROVE Spec => []SnapshotCurrent
<1>1. WriteInv => SnapshotCurrent
  BY DEF WriteInv, WriterKnows, SnapshotCurrent
<1>. QED BY <1>1, WriteInvAlways, PTL

(* In one process, no interleaving, failed call or restart loses a paper   *)
(* whose import returned Ok.                                               *)
THEOREM NoImportIsLost == ASSUME OneProcess PROVE Spec => []NoLostImport
<1>1. WriteInv => NoLostImport
  BY DEF WriteInv
<1>. QED BY <1>1, WriteInvAlways, PTL

-----------------------------------------------------------------------------
(* Refinement                                                              *)

LEMMA StepRefines ==
  ASSUME WriteInv, [Next]_vars
  PROVE  [Catalog!Next]_<<db, acked>>
<1>1. ASSUME NEW t \in Threads, RenameDb(t)
      PROVE  Catalog!Next
  <2>1. /\ paper[t] \in Hash /\ dbTmp = view[t] /\ view[t] # Nil
        /\ view[t] = [db EXCEPT ![paper[t]] = view[t][paper[t]]]
    BY <1>1, OwnCorpus DEF RenameDb, WriteInv, WriterKnows, TypeInv, Carries
  <2>2. db' = view[t]
    BY <1>1, <2>1 DEF RenameDb
  <2>3. CASE op[t] = "remove"
    <3>1. view[t][paper[t]] = Nil /\ paper[t] \in Ids(db) /\ acked' = acked \ {paper[t]}
      BY <1>1, <2>1, <2>3 DEF RenameDb, WriteInv, WriterKnows, TypeInv, Carries
    <3>2. Catalog!Delete(paper[t])
      BY <2>1, <2>2, <3>1 DEF Catalog!Delete, Catalog!Papers, Ids
    <3>. QED BY <2>1, <3>2 DEF Catalog!Next
  <2>4. CASE op[t] # "remove"
    <3>1. view[t][paper[t]] \in Entry /\ acked' = acked
      BY <1>1, <2>1, <2>4 DEF RenameDb, WriteInv, TypeInv, TypeOK, MemoryOK, Carries,
                              Corpora
    <3>2. Catalog!Put(paper[t], view[t][paper[t]])
      BY <2>1, <2>2, <3>1 DEF Catalog!Put
    <3>. QED BY <2>1, <3>1, <3>2 DEF Catalog!Next
  <2>. QED BY <2>3, <2>4
<1>2. ASSUME NEW t \in Threads, RenameIndex(t)
      PROVE  [Catalog!Next]_<<db, acked>>
  <2>1. CASE op[t] = "import" /\ idxTmp # Nil
    <3>1. paper[t] \in Ids(db) /\ acked' = acked \cup {paper[t]} /\ UNCHANGED db
      BY <1>2, <2>1 DEF RenameIndex, WriteInv, WriterKnows
    <3>2. Catalog!Acknowledge(paper[t]) /\ paper[t] \in Hash
      BY <3>1 DEF Catalog!Acknowledge, Catalog!Papers, Ids
    <3>. QED BY <3>2 DEF Catalog!Next
  <2>2. CASE ~(op[t] = "import" /\ idxTmp # Nil)
    BY <1>2, <2>2 DEF RenameIndex
  <2>. QED BY <2>1, <2>2
<1>3. ASSUME NEW t \in Threads, Begin(t)
      PROVE  UNCHANGED <<db, acked>>
  BY <1>3 DEF Begin, BeginImport, BeginText, BeginRemove, BeginReindex, BeginSearch,
              BeginSeed, Start, disk
<1>4. ASSUME NEW t \in Threads, Step(t), ~RenameDb(t), ~RenameIndex(t)
      PROVE  UNCHANGED <<db, acked>>
  BY <1>4 DEF Step, ImportStep, TextStep, PersistStep, RemoveStep, SeedStep,
              ExtractStaged, Place, ReadBlob, FetchText, LockAndUpsert, WriteBlob,
              WriteDbTmp, UpsertIndex, RebuildIndex, WriteIndexTmp, RemoveFile, AfterFile,
              RemoveBlob, RemoveManifest, SearchIndex, ReloadForSeed, VerifyForSeed,
              WriteManifest, disk, history
<1>5. ASSUME NEW t \in Threads, FailIo(t)
      PROVE  UNCHANGED <<db, acked>>
  BY <1>5 DEF FailIo, disk
<1>6. CASE Environment
  BY <1>6 DEF Environment, ReplaceSource, Damage, Crash, disk, history
<1>7. CASE UNCHANGED vars
  BY <1>7 DEF vars, disk, history
<1>. QED BY <1>1, <1>2, <1>3, <1>4, <1>5, <1>6, <1>7 DEF Next

(* In one process the store implements the catalogue: every write of       *)
(* corpus.json puts or deletes exactly one paper.                          *)
THEOREM ImplementsCatalog == ASSUME OneProcess PROVE Spec => CatalogSpec
<1>1. Init => Catalog!Init
  BY DEF Init, Catalog!Init
<1>2. WriteInv /\ [Next]_vars => [Catalog!Next]_<<db, acked>>
  BY StepRefines
<1>. QED BY <1>1, <1>2, WriteInvAlways, PTL DEF Spec, CatalogSpec, Catalog!Spec
-----------------------------------------------------------------------------
(* The persisted index                                                     *)

(* Only the operations that take the write lock run.                       *)
OnlyWriters == Ops \subseteq Writers

(* What a writer knows of the index while it is inside the lock.           *)
IndexKnows(t) ==
  /\ pc[t] # "idle" => op[t] \in Writers
  /\ pc[t] \in {"upsert", "build", "write", "rename"} => view[t] = db
  /\ pc[t] \in {"write", "rename"} => Ids(draft[t]) = Ids(db)
  /\ pc[t] = "rename" => idxTmp = draft[t]

IndexInv == WriteInv /\ \A t \in Threads : IndexKnows(t)

(* A step of one thread leaves the memory of the others alone.             *)
LEMMA OthersUnmoved ==
  ASSUME TypeInv, NEW t \in Threads, Begin(t) \/ Step(t) \/ FailIo(t),
         NEW u \in Threads \ {t}
  PROVE  UNCHANGED <<op[u], pc[u], paper[u], pending[u], text[u], view[u], draft[u]>>
<1>. USE DEF TypeInv, TypeOK, MemoryOK, Goto, Return, Start
<1>1. CASE Begin(t)
  BY <1>1 DEF Begin, BeginImport, BeginText, BeginRemove, BeginReindex, BeginSearch,
              BeginSeed
<1>2. CASE ImportStep(t)
  <2>1. CASE ExtractStaged(t)
    BY <2>1 DEF ExtractStaged
  <2>2. CASE Place(t)
    <3>1. \/ \E e : /\ pending' = [pending EXCEPT ![t] = e]
                    /\ pc' = [pc EXCEPT ![t] = "lock"]
                    /\ UNCHANGED <<op, paper, text, view, draft>>
          \/ Return(t)
      BY <2>2 DEF Place
    <3>. QED BY <3>1
  <2>. QED BY <1>2, <2>1, <2>2 DEF ImportStep
<1>3. CASE TextStep(t)
  <2>1. CASE ReadBlob(t)
    BY <2>1 DEF ReadBlob
  <2>2. CASE FetchText(t)
    <3>1. \/ \E x, e : /\ text' = [text EXCEPT ![t] = x]
                       /\ pending' = [pending EXCEPT ![t] = e]
                       /\ pc' = [pc EXCEPT ![t] = "lock"]
                       /\ UNCHANGED <<op, paper, view, draft>>
          \/ Return(t)
      BY <2>2 DEF FetchText
    <3>. QED BY <3>1
  <2>. QED BY <1>3, <2>1, <2>2 DEF TextStep
<1>4. CASE PersistStep(t)
  <2>1. CASE LockAndUpsert(t) \/ WriteBlob(t) \/ WriteDbTmp(t) \/ WriteIndexTmp(t)
    BY <2>1 DEF LockAndUpsert, WriteBlob, WriteDbTmp, WriteIndexTmp
  <2>2. CASE RenameDb(t)
    BY <2>2 DEF RenameDb
  <2>3. CASE UpsertIndex(t)
    BY <2>3 DEF UpsertIndex
  <2>4. CASE RebuildIndex(t)
    BY <2>4 DEF RebuildIndex
  <2>5. CASE RenameIndex(t)
    BY <2>5 DEF RenameIndex
  <2>. QED BY <1>4, <2>1, <2>2, <2>3, <2>4, <2>5 DEF PersistStep
<1>5. CASE RemoveStep(t)
  BY <1>5 DEF RemoveStep, RemoveFile, AfterFile, RemoveBlob, RemoveManifest
<1>6. CASE SearchIndex(t) \/ SeedStep(t)
  BY <1>6 DEF SearchIndex, SeedStep, ReloadForSeed, VerifyForSeed, WriteManifest
<1>7. CASE FailIo(t)
  BY <1>7 DEF FailIo
<1>. QED BY <1>1, <1>2, <1>3, <1>4, <1>5, <1>6, <1>7 DEF Step

LEMMA BuildIds ==
  ASSUME DiskOK, NEW v \in Corpora
  PROVE  Ids(BuildIndex(v)) = Ids(v)
<1>1. \A h \in Ids(v) : DocOf(v, h) # Nil
  BY DocOfEntry, NilAssumption
<1>. QED BY <1>1 DEF BuildIndex, Ids

LEMMA UpsertIds ==
  ASSUME TypeInv, NEW t \in Threads, pc[t] = "upsert"
  PROVE  Ids(UpsertedIndex(t)) = Ids(view[t])
<1>1. view[t] \in Corpora /\ paper[t] \in Hash /\ paper[t] \in Ids(view[t])
  BY DEF TypeInv, TypeOK, MemoryOK, StepOf, Carries, Ids, Writers
<1>2. DocOf(view[t], paper[t]) # Nil
  BY <1>1, DocOfEntry, NilAssumption DEF TypeInv, TypeOK
<1>. DEFINE ix == IF CanKeepIndex(t) THEN index ELSE BuildIndex(view[t])
            doc == DocOf(view[t], paper[t])
<1>3. ix \in Indexes
  BY <1>1, BuildIsIndex DEF CanKeepIndex, TypeInv, TypeOK, DiskOK
<1>4. Ids(ix) \ {paper[t]} = Ids(view[t]) \ {paper[t]}
  <2>1. CASE CanKeepIndex(t)
    BY <2>1 DEF CanKeepIndex, IndexMatchesCorpus
  <2>2. CASE ~CanKeepIndex(t)
    BY <1>1, <2>2, BuildIds DEF TypeInv, TypeOK
  <2>. QED BY <2>1, <2>2
<1>5. UpsertedIndex(t) = [ix EXCEPT ![paper[t]] = doc]
  BY DEF UpsertedIndex
<1>. HIDE DEF ix, doc
<1>6. /\ UpsertedIndex(t)[paper[t]] = doc
      /\ \A h \in Hash \ {paper[t]} : UpsertedIndex(t)[h] = ix[h]
  BY <1>1, <1>3, <1>5 DEF Indexes
<1>7. doc # Nil
  BY <1>2 DEF doc
<1>. QED BY <1>1, <1>4, <1>6, <1>7 DEF Ids

(* The steps of a writer inside the lock, or that takes it.                *)
InsideLock(t) == BeginRemove(t) \/ PersistStep(t)

(* With only writers about, the others are outside the lock, so nothing of *)
(* what a step inside it changes concerns them.                            *)
LEMMA HolderIndex ==
  ASSUME OneProcess, IndexInv, WriteInv', NEW t \in Threads,
         Critical(t) \/ lock[ProcessOf[t]] = Nil, IndexKnows(t)',
         \A u \in Threads \ {t} : UNCHANGED <<op[u], pc[u], view[u], draft[u]>>
  PROVE  IndexInv'
<1>1. ASSUME NEW u \in Threads, u # t
      PROVE  IndexKnows(u)'
  <2>1. ~Critical(u)
    BY <1>1, NilAssumption DEF OneProcess, IndexInv, WriteInv, LockHeld
  <2>2. IndexKnows(u)
    BY DEF IndexInv
  <2>. QED BY <1>1, <2>1, <2>2 DEF Critical, IndexKnows
<1>. QED BY <1>1 DEF IndexInv

LEMMA OutsideIndex ==
  ASSUME IndexInv, WriteInv', UNCHANGED <<db, idxTmp>>,
         \A u \in Threads :
           \/ UNCHANGED <<op[u], pc[u], view[u], draft[u]>>
           \/ pc[u]' \notin {"upsert", "build", "write", "rename"}
              /\ (pc[u]' # "idle" => op[u]' \in Writers)
  PROVE  IndexInv'
<1>1. ASSUME NEW u \in Threads
      PROVE  IndexKnows(u)'
  <2>1. IndexKnows(u)
    BY DEF IndexInv
  <2>. QED BY <2>1 DEF IndexKnows, Ids
<1>. QED BY <1>1 DEF IndexInv

LEMMA InsideLockIndex ==
  ASSUME OneProcess, IndexInv, WriteInv', NEW t \in Threads, InsideLock(t)
  PROVE  IndexInv'
<1>. USE DEF IndexInv, WriteInv, TypeInv, TypeOK, MemoryOK
<1>1. Begin(t) \/ Step(t)
  BY DEF InsideLock, Begin, Step
<1>2. \A u \in Threads \ {t} : UNCHANGED <<op[u], pc[u], view[u], draft[u]>>
  BY <1>1, OthersUnmoved
<1>3. IndexKnows(t) /\ StepOf(t) /\ WriterKnows(t) /\ Carries(t)
  OBVIOUS
<1>4. Critical(t) \/ lock[ProcessOf[t]] = Nil
  BY <1>3 DEF InsideLock, BeginRemove, PersistStep, LockAndUpsert, WriteBlob,
              WriteDbTmp, RenameDb, UpsertIndex, RebuildIndex, WriteIndexTmp,
              RenameIndex, Lock, Critical, IndexKnows
<1>5. CASE BeginRemove(t)
  <2>1. pc'[t] = "save" /\ op'[t] = "remove"
    BY <1>5 DEF BeginRemove, Start, Goto
  <2>2. IndexKnows(t)'
    BY <2>1 DEF IndexKnows, Writers
  <2>. QED BY <1>2, <1>4, <2>2, HolderIndex
<1>6. CASE LockAndUpsert(t) \/ WriteBlob(t) \/ WriteDbTmp(t)
  <2>1. pc'[t] \in {"blob", "save", "commit"} /\ op'[t] = op[t] /\ op[t] \in Writers
    BY <1>3, <1>6 DEF LockAndUpsert, WriteBlob, WriteDbTmp, Goto, AfterUpsert, StepOf,
                      Writers
  <2>2. IndexKnows(t)'
    BY <2>1 DEF IndexKnows
  <2>. QED BY <1>2, <1>4, <2>2, HolderIndex
<1>7. CASE RenameDb(t)
  <2>1. /\ pc[t] = "commit" /\ dbTmp = view[t] /\ view[t] # Nil /\ op[t] \in Writers
    BY <1>3, <1>7 DEF RenameDb, WriterKnows, StepOf, Carries
  <2>2. /\ db' = view[t] /\ pc'[t] \in {"upsert", "build"}
        /\ UNCHANGED <<op, view>>
    BY <1>7, <2>1 DEF RenameDb, Goto
  <2>3. IndexKnows(t)'
    BY <2>1, <2>2 DEF IndexKnows
  <2>. QED BY <1>2, <1>4, <2>3, HolderIndex
<1>8. CASE UpsertIndex(t) \/ RebuildIndex(t)
  <2>1. CASE pc'[t] = "idle"
    BY <1>2, <1>4, <2>1, HolderIndex DEF IndexKnows
  <2>2. CASE pc'[t] # "idle"
    <3>1. /\ pc'[t] = "write" /\ UNCHANGED <<op, view, db>> /\ op[t] \in Writers
          /\ view[t] = db /\ db \in Corpora
      BY <1>3, <1>8, <2>2 DEF UpsertIndex, RebuildIndex, Return, Goto, IndexKnows,
                              disk, DiskOK
    <3>2. Ids(draft'[t]) = Ids(view[t])
      <4>1. CASE UpsertIndex(t)
        BY <2>2, <4>1, UpsertIds DEF UpsertIndex, Return
      <4>2. CASE RebuildIndex(t)
        BY <2>2, <3>1, <4>2, BuildIds DEF RebuildIndex, Return
      <4>. QED BY <1>8, <4>1, <4>2
    <3>3. IndexKnows(t)'
      BY <3>1, <3>2 DEF IndexKnows, Ids
    <3>. QED BY <1>2, <1>4, <3>3, HolderIndex
  <2>. QED BY <2>1, <2>2
<1>9. CASE WriteIndexTmp(t)
  <2>1. IndexKnows(t)'
    BY <1>3, <1>9 DEF WriteIndexTmp, Goto, IndexKnows, Ids
  <2>. QED BY <1>2, <1>4, <2>1, HolderIndex
<1>10. CASE RenameIndex(t)
  <2>1. \/ pc'[t] = "idle"
        \/ pc'[t] = "rmfile" /\ op'[t] = "remove"
    BY <1>10 DEF RenameIndex, Return, Goto
  <2>2. IndexKnows(t)'
    BY <2>1 DEF IndexKnows, Writers
  <2>. QED BY <1>2, <1>4, <2>2, HolderIndex
<1>. QED BY <1>5, <1>6, <1>7, <1>8, <1>9, <1>10 DEF InsideLock, PersistStep

LEMMA NextIndexInv ==
  ASSUME OneProcess, OnlyWriters, IndexInv, [Next]_vars
  PROVE  IndexInv'
<1>1. WriteInv'
  BY NextWriteInv DEF IndexInv
<1>. USE DEF IndexInv, WriteInv, TypeInv, TypeOK, MemoryOK
<1>2. ASSUME NEW t \in Threads, Begin(t) \/ Step(t) \/ FailIo(t), ~InsideLock(t)
      PROVE  IndexInv'
  <2>1. \A u \in Threads \ {t} : UNCHANGED <<op[u], pc[u], view[u], draft[u]>>
    BY <1>2, OthersUnmoved
  <2>2. UNCHANGED <<db, idxTmp>>
    BY <1>2 DEF InsideLock, Begin, BeginImport, BeginText, BeginReindex, BeginSearch,
                BeginSeed, Step, ImportStep, ExtractStaged, Place, TextStep, ReadBlob,
                FetchText, RemoveStep, RemoveFile, AfterFile, RemoveBlob, RemoveManifest,
                SearchIndex, SeedStep, ReloadForSeed, VerifyForSeed, WriteManifest,
                FailIo, disk
  <2>3. /\ pc'[t] \notin {"upsert", "build", "write", "rename"}
        /\ pc'[t] # "idle" => op'[t] \in Writers
    <3>1. CASE Begin(t)
      <4>1. pc'[t] \in {"extract", "place", "read"} /\ op'[t] \in {"import", "text"}
        BY <1>2, <3>1 DEF InsideLock, Begin, BeginImport, BeginText, BeginReindex,
                          BeginSearch, BeginSeed, Start, Goto, OnlyWriters, Writers
      <4>. QED BY <4>1 DEF Writers
    <3>2. CASE ImportStep(t) \/ TextStep(t)
      <4>1. (pc'[t] \in {"place", "lock"} /\ UNCHANGED op) \/ pc'[t] = "idle"
        <5>1. CASE ExtractStaged(t)
          BY <5>1 DEF ExtractStaged, Goto, Return
        <5>2. CASE Place(t)
          <6>1. \/ pc' = [pc EXCEPT ![t] = "lock"] /\ UNCHANGED op
                \/ pc' = [pc EXCEPT ![t] = "idle"]
            BY <5>2 DEF Place, Goto, Return
          <6>. QED BY <6>1
        <5>3. CASE ReadBlob(t)
          BY <5>3 DEF ReadBlob, Return
        <5>4. CASE FetchText(t)
          BY <5>4 DEF FetchText, Goto, Return
        <5>. QED BY <3>2, <5>1, <5>2, <5>3, <5>4 DEF ImportStep, TextStep
      <4>2. pc[t] # "idle"
        BY <3>2 DEF ImportStep, TextStep, ExtractStaged, Place, ReadBlob, FetchText
      <4>. QED BY <4>1, <4>2 DEF IndexKnows
    <3>3. CASE RemoveStep(t)
      <4>1. /\ pc[t] \in {"rmfile", "rmblob", "rmseed"}
            /\ (pc'[t] \in {"rmblob", "rmseed"} /\ UNCHANGED op) \/ pc'[t] = "idle"
        BY <3>3 DEF RemoveStep, RemoveFile, AfterFile, RemoveBlob, RemoveManifest, Goto, Return
      <4>. QED BY <4>1 DEF IndexKnows
    <3>4. CASE SearchIndex(t) \/ SeedStep(t)
      <4>1. pc[t] \in {"probe", "reload", "verify", "manifest"}
        BY <3>4 DEF SearchIndex, SeedStep, ReloadForSeed, VerifyForSeed, WriteManifest
      <4>2. op[t] \in {"search", "seed"}
        BY <4>1 DEF StepOf
      <4>. QED BY <4>1, <4>2 DEF IndexKnows, Writers
    <3>5. CASE FailIo(t)
      BY <3>5 DEF FailIo, Return
    <3>. QED BY <1>2, <3>1, <3>2, <3>3, <3>4, <3>5 DEF Step, InsideLock
  <2>. QED BY <1>1, <2>1, <2>2, <2>3, OutsideIndex
<1>3. CASE Environment
  <2>1. UNCHANGED <<db, idxTmp>>
    BY <1>3 DEF Environment, ReplaceSource, Damage, Crash, disk
  <2>2. ASSUME NEW u \in Threads
        PROVE  UNCHANGED <<op[u], pc[u], view[u], draft[u]>> \/ pc'[u] = "idle"
    BY <1>3 DEF Environment, ReplaceSource, Damage, Crash, memory
  <2>. QED BY <1>1, <2>1, <2>2, OutsideIndex
<1>4. CASE UNCHANGED vars
  <2>1. /\ UNCHANGED <<db, idxTmp>>
        /\ \A u \in Threads : UNCHANGED <<op[u], pc[u], view[u], draft[u]>>
    BY <1>4 DEF vars, disk, memory
  <2>. QED BY <1>1, <2>1, OutsideIndex
<1>. QED BY <1>1, <1>2, <1>3, <1>4, InsideLockIndex DEF Next

(* In one process whose callers only import, read texts and remove, the    *)
(* index a writer renames into place holds exactly the ids of the corpus,  *)
(* after any failed call and any restart.                                  *)
THEOREM IndexTracksMembership ==
  ASSUME OneProcess, OnlyWriters
  PROVE  Spec => PersistedIndexTracksMembership
<1>1. Init => IndexInv
  BY InitWriteInv DEF Init, IndexInv, IndexKnows
<1>2. IndexInv /\ [Next]_vars => IndexInv'
  BY NextIndexInv
<1>3. IndexInv /\ [Next]_vars =>
        [\A t \in Threads :
           Critical(t) /\ pc[t] = "rename" /\ idxTmp # Nil /\ RenameIndex(t)
             => Ids(index') = Ids(db')]_vars
  BY DEF IndexInv, IndexKnows, RenameIndex, Ids
<1>. QED BY <1>1, <1>2, <1>3, PTL DEF Spec, PersistedIndexTracksMembership

-----------------------------------------------------------------------------
(* One caller at a time                                                    *)

(* A single thread calls the corpus: no two operations overlap.            *)
OneThread == \E t : Threads = {t}

(* t carries an entry that is to be put in the corpus.                     *)
Puts(t) ==
  pc[t] = "lock" \/ (pc[t] \in {"blob", "save", "commit"} /\ op[t] # "remove")

(* What an operation that nothing interferes with knows of the directory.  *)
AloneKnows(t) ==
  /\ pc[t] \in {"extract", "place"} => Imported(t) \in staged
  /\ pc[t] = "read" \/ Puts(t) => files[Stored(t)] # "absent"
  /\ pc[t] = "lock" => (pending[t].hasText <=> text[t] # Nil)
  /\ pc[t] = "blob" => pending[t].hasText /\ text[t] # Nil
  /\ Puts(t) /\ pc[t] # "lock" => view[t][paper[t]] = pending[t]
  /\ pc[t] \in {"save", "commit"} => ~BuildFails(view[t])
  /\ pc[t] \in {"upsert", "build", "probe"} => view[t] = db
  /\ pc[t] \in {"write", "rename"} => draft[t] # Nil
  /\ pc[t] = "rename" => idxTmp = draft[t]

(* What a removal, and a seed, knows of the paper it was asked for.        *)
KnowsPaper(t) ==
  /\ op[t] = "remove" => pending[t] \in Entry
  /\ op[t] = "remove" /\ pc[t] \in {"save", "commit"} => db[paper[t]] = pending[t]
  /\ op[t] = "remove" /\ pc[t] \notin {"save", "commit"} => db[paper[t]] = Nil
  /\ pc[t] \in {"reload", "verify", "manifest"} => db[paper[t]] # Nil

EntriesHaveFiles == \A h \in Ids(db) : files[<<h, db[h].ext>>] # "absent"

DiskAgrees == ~BuildFails(db) /\ EntriesHaveFiles

AloneInv ==
  /\ WriteInv
  /\ \A t \in Threads : AloneKnows(t) /\ KnowsPaper(t)
  /\ DiskAgrees

LEMMA AloneStep ==
  ASSUME OneThread, WriteInv', NEW t \in Threads, AloneKnows(t)', KnowsPaper(t)',
         DiskAgrees'
  PROVE  AloneInv'
<1>1. \A u \in Threads : u = t
  BY DEF OneThread
<1>. QED BY <1>1 DEF AloneInv

(* A step that leaves the stored files, the texts and the corpus as they   *)
(* were.                                                                   *)
LEMMA SameDirectory ==
  ASSUME AloneInv, UNCHANGED <<files, blobs, db>>
  PROVE  DiskAgrees'
BY DEF AloneInv, DiskAgrees, EntriesHaveFiles, BuildFails, Dangling, Ids

(* An operation that is over knows nothing any more.                       *)
LEMMA IdleKnows ==
  ASSUME NEW t \in Threads, pc[t] = "idle", op[t] = "none"
  PROVE  AloneKnows(t) /\ KnowsPaper(t)
BY DEF AloneKnows, KnowsPaper, Puts

LEMMA ReturnAlone ==
  ASSUME OneThread, AloneInv, WriteInv', NEW t \in Threads, Return(t),
         UNCHANGED <<files, blobs, db>>
  PROVE  AloneInv'
<1>1. pc'[t] = "idle" /\ op'[t] = "none"
  BY DEF Return, AloneInv, WriteInv, TypeInv, TypeOK, MemoryOK
<1>2. AloneKnows(t)' /\ KnowsPaper(t)'
  BY <1>1, IdleKnows DEF AloneKnows, KnowsPaper, Puts
<1>. QED BY <1>2, SameDirectory, AloneStep

LEMMA FileOfEntry ==
  ASSUME NEW h \in Hash, NEW e \in Entry
  PROVE  <<h, e.ext>> \in File
BY DEF File, Entry

(* What an operation carries for the corpus names a file of its paper.     *)
LEMMA PutsEntry ==
  ASSUME AloneInv, NEW t \in Threads, pc[t] = "read" \/ Puts(t)
  PROVE  Stored(t) \in File
<1>. USE DEF AloneInv, WriteInv, TypeInv, TypeOK, MemoryOK
<1>1. paper[t] \in Hash
  BY DEF Puts, StepOf, Carries, Writers
<1>2. pending[t] \in Entry
  <2>1. CASE pc[t] \in {"read", "lock"}
    BY <2>1 DEF Carries
  <2>2. CASE Puts(t) /\ pc[t] # "lock"
    <3>1. view[t] \in Corpora /\ view[t][paper[t]] # Nil
      BY <2>2 DEF Puts, Carries
    <3>2. view[t][paper[t]] = pending[t]
      BY <2>2 DEF AloneKnows
    <3>. QED BY <1>1, <3>1, <3>2 DEF Corpora
  <2>. QED BY <2>1, <2>2
<1>. QED BY <1>1, <1>2, FileOfEntry DEF Stored

LEMMA BeginAlone ==
  ASSUME OneThread, AloneInv, WriteInv', NEW t \in Threads, Begin(t)
  PROVE  AloneInv'
<1>. USE DEF AloneInv, WriteInv, TypeInv, TypeOK, MemoryOK, Goto, Start
<1>1. UNCHANGED <<files, blobs, db>> /\ DiskOK /\ DiskAgrees
  BY DEF Begin, BeginImport, BeginText, BeginRemove, BeginReindex, BeginSearch,
         BeginSeed, disk
<1>2. DiskAgrees'
  BY <1>1, SameDirectory
<1>3. AloneKnows(t)' /\ KnowsPaper(t)'
  <2>1. CASE BeginImport(t)
    <3>1. /\ pc'[t] \in {"extract", "place"} /\ op'[t] = "import"
          /\ Imported(t)' \in staged'
      BY <2>1 DEF BeginImport, Imported
    <3>. QED BY <3>1 DEF AloneKnows, KnowsPaper, Puts
  <2>2. CASE BeginText(t)
    <3>1. PICK h \in Ids(db) : /\ paper' = [paper EXCEPT ![t] = h]
                               /\ pending' = [pending EXCEPT ![t] = db[h]]
      BY <2>2 DEF BeginText
    <3>2. pc'[t] = "read" /\ op'[t] = "text"
      BY <2>2 DEF BeginText
    <3>3. files'[Stored(t)'] # "absent"
      BY <1>1, <3>1 DEF DiskAgrees, EntriesHaveFiles, Stored
    <3>. QED BY <3>2, <3>3 DEF AloneKnows, KnowsPaper, Puts
  <2>3. CASE BeginRemove(t)
    <3>1. pc'[t] = "save" /\ op'[t] = "remove"
      BY <2>3 DEF BeginRemove
    <3>2. PICK h \in Ids(db) : /\ paper' = [paper EXCEPT ![t] = h]
                               /\ pending' = [pending EXCEPT ![t] = db[h]]
                               /\ view' = [view EXCEPT ![t] = Without(db, h)]
      BY <2>3 DEF BeginRemove
    <3>3. h \in Hash /\ db[h] \in Entry /\ db \in Corpora
      BY <1>1, EntryOfPaper DEF DiskOK
    <3>4. ~BuildFails(view[t])'
      <4>1. \A g \in Hash : view'[t][g] = IF g = h THEN Nil ELSE db[g]
        BY <3>2, <3>3 DEF Corpora, Without
      <4>. QED BY <1>1, <4>1 DEF DiskAgrees, BuildFails, Dangling
    <3>5. paper'[t] = h /\ pending'[t] = db[h]
      BY <3>2
    <3>. QED BY <1>1, <3>1, <3>3, <3>4, <3>5 DEF AloneKnows, KnowsPaper, Puts
  <2>4. CASE BeginReindex(t) \/ BeginSearch(t)
    <3>1. /\ pc'[t] \in {"build", "probe"} /\ op'[t] \in {"reindex", "search"}
          /\ view'[t] = db
      BY <2>4 DEF BeginReindex, BeginSearch
    <3>. QED BY <1>1, <3>1 DEF AloneKnows, KnowsPaper, Puts
  <2>5. CASE BeginSeed(t)
    <3>1. pc'[t] = "reload" /\ op'[t] = "seed" /\ paper'[t] \in Ids(db)
      BY <2>5 DEF BeginSeed
    <3>. QED BY <1>1, <3>1 DEF AloneKnows, KnowsPaper, Puts, Ids
  <2>. QED BY <2>1, <2>2, <2>3, <2>4, <2>5 DEF Begin
<1>. QED BY <1>2, <1>3, AloneStep

LEMMA ImportedIsFile ==
  ASSUME TypeInv, NEW t \in Threads, pc[t] \in {"extract", "place"}
  PROVE  Imported(t) \in File /\ Imported(t)[1] = paper[t]
<1>1. paper[t] \in Hash /\ request[t] \in Request
  BY ConstantsAssumption DEF TypeInv, TypeOK, MemoryOK, StepOf, Carries, Writers
<1>. QED BY <1>1 DEF Imported, File, Request

(* An import that is under way and is not refused goes on to the corpus    *)
(* with an entry that names the file it has stored.                        *)
LEMMA PlacedFile ==
  ASSUME AloneInv, NEW t \in Threads, Place(t)
  PROVE  /\ pc[t] = "place" /\ op[t] = "import" /\ Imported(t) \in File
         /\ staged' = staged \ {Imported(t)}
         /\ files'[Imported(t)] # "absent"
         /\ \A f \in File \ {Imported(t)} : files'[f] = files[f]
         /\ UNCHANGED <<blobs, db, manifests, faults>>
         /\ \/ /\ pc'[t] = "lock" /\ op'[t] = "import" /\ paper'[t] = paper[t]
               /\ Stored(t)' = Imported(t)
               /\ pending'[t].hasText <=> text'[t] # Nil
            \/ Return(t)
<1>. USE DEF AloneInv, WriteInv, TypeInv, TypeOK, MemoryOK, Goto
<1>1. pc[t] = "place" /\ op[t] = "import" /\ Imported(t) \in staged
  BY DEF Place, StepOf, AloneKnows
<1>2. Imported(t) \in File /\ files \in [File -> {"absent", "intact", "damaged"}]
  BY <1>1, ImportedIsFile DEF DiskOK
<1>3. files' = [files EXCEPT ![Imported(t)] = IF @ = "absent" THEN "intact" ELSE @]
  BY <1>1 DEF Place
<1>4. /\ staged' = staged \ {Imported(t)}
      /\ UNCHANGED <<blobs, db, manifests, faults>>
  BY DEF Place, history
<1>5. CASE ~Return(t)
  <2>1. PICK y : pending' = [pending EXCEPT ![t] =
                               [title   |-> request[t].title,
                                license |-> StoredLicense(request[t]),
                                hasText |-> text[t] # Nil,
                                yams    |-> y,
                                ext     |-> request[t].ext]]
    BY <1>1, <1>5 DEF Place
  <2>2. pc' = [pc EXCEPT ![t] = "lock"] /\ UNCHANGED <<op, paper, text>>
    BY <1>1, <1>5 DEF Place
  <2>3. pending'[t].ext = request[t].ext /\ (pending'[t].hasText <=> text[t] # Nil)
    BY <2>1
  <2>4. Stored(t)' = Imported(t)
    BY <2>2, <2>3 DEF Stored, Imported
  <2>. QED BY <1>1, <1>2, <1>3, <1>4, <2>2, <2>3, <2>4
<1>. QED BY <1>1, <1>2, <1>3, <1>4, <1>5

LEMMA ImportAlone ==
  ASSUME OneThread, AloneInv, WriteInv', NEW t \in Threads, ImportStep(t)
  PROVE  AloneInv'
<1>. USE DEF AloneInv, WriteInv, TypeInv, TypeOK, MemoryOK, Goto
<1>1. CASE ExtractStaged(t)
  <2>1. UNCHANGED <<files, blobs, db>> /\ pc[t] = "extract" /\ op[t] = "import"
    BY <1>1 DEF ExtractStaged, history, StepOf
  <2>2. CASE Return(t)
    BY <2>1, <2>2, ReturnAlone
  <2>3. CASE ~Return(t)
    <3>1. pc'[t] = "place" /\ UNCHANGED <<staged, op, paper, request>>
      BY <1>1, <2>3 DEF ExtractStaged
    <3>2. Imported(t)' \in staged'
      BY <2>1, <3>1 DEF AloneKnows, Imported
    <3>3. AloneKnows(t)' /\ KnowsPaper(t)'
      BY <2>1, <3>1, <3>2 DEF AloneKnows, KnowsPaper, Puts
    <3>. QED BY <2>1, <3>3, SameDirectory, AloneStep
  <2>. QED BY <2>2, <2>3
<1>2. CASE Place(t)
  <2>. USE <1>2, PlacedFile
  <2>1. DiskAgrees'
    <3>1. ~BuildFails(db)'
      BY DEF DiskAgrees, BuildFails, Dangling
    <3>2. ASSUME NEW h \in Ids(db)'
          PROVE  files'[<<h, db'[h].ext>>] # "absent"
      <4>1. <<h, db[h].ext>> \in File /\ files[<<h, db[h].ext>>] # "absent"
        BY EntryOfPaper, FileOfEntry DEF DiskAgrees, EntriesHaveFiles, DiskOK, Ids
      <4>. QED BY <4>1
    <3>. QED BY <3>1, <3>2 DEF DiskAgrees, EntriesHaveFiles
  <2>2. AloneKnows(t)' /\ KnowsPaper(t)'
    <3>1. CASE Return(t)
      BY <3>1 DEF Return, AloneKnows, KnowsPaper, Puts
    <3>2. CASE ~Return(t)
      BY <3>2 DEF AloneKnows, KnowsPaper, Puts
    <3>. QED BY <3>1, <3>2
  <2>. QED BY <2>1, <2>2, AloneStep
<1>. QED BY <1>1, <1>2 DEF ImportStep

LEMMA TextAlone ==
  ASSUME OneThread, AloneInv, WriteInv', NEW t \in Threads, TextStep(t)
  PROVE  AloneInv'
<1>. USE DEF AloneInv, WriteInv, TypeInv, TypeOK, MemoryOK, Goto
<1>1. /\ pc[t] = "read" /\ op[t] = "text" /\ files[Stored(t)] # "absent"
      /\ pending[t] \in Entry
  BY DEF TextStep, ReadBlob, FetchText, StepOf, AloneKnows, Carries
<1>2. UNCHANGED <<files, blobs, db>>
  BY DEF TextStep, ReadBlob, FetchText, disk, history
<1>3. CASE Return(t)
  BY <1>2, <1>3, ReturnAlone
<1>4. CASE ~Return(t)
  <2>1. /\ pc'[t] = "lock" /\ UNCHANGED <<op, paper>> /\ text'[t] # Nil
        /\ pending' = [pending EXCEPT ![t].hasText = TRUE]
    BY <1>4 DEF TextStep, ReadBlob, FetchText
  <2>2. pending'[t] = [pending[t] EXCEPT !.hasText = TRUE]
    BY <2>1
  <2>3. pending'[t].ext = pending[t].ext /\ pending'[t].hasText
    BY <1>1, <2>2 DEF Entry
  <2>4. Stored(t)' = Stored(t)
    BY <2>1, <2>3 DEF Stored
  <2>5. AloneKnows(t)' /\ KnowsPaper(t)'
    BY <1>1, <1>2, <2>1, <2>3, <2>4 DEF AloneKnows, KnowsPaper, Puts
  <2>. QED BY <1>2, <2>5, SameDirectory, AloneStep
<1>. QED BY <1>3, <1>4

LEMMA SaveAlone ==
  ASSUME OneThread, AloneInv, WriteInv', NEW t \in Threads,
         LockAndUpsert(t) \/ WriteBlob(t) \/ WriteDbTmp(t)
  PROVE  AloneInv'
<1>. USE DEF AloneInv, WriteInv, TypeInv, TypeOK, MemoryOK, Goto
<1>1. /\ StepOf(t) /\ Carries(t) /\ AloneKnows(t) /\ KnowsPaper(t) /\ DiskAgrees
      /\ DiskOK /\ WriterKnows(t)
  OBVIOUS
<1>2. pc[t] \in {"lock", "blob", "save"} /\ op[t] \in Writers /\ paper[t] \in Hash
  BY <1>1 DEF LockAndUpsert, WriteBlob, WriteDbTmp, StepOf, Carries, Writers
<1>3. /\ UNCHANGED <<op, paper, pending, text, files, db>>
      /\ pc'[t] \in {"blob", "save", "commit"}
      /\ Stored(t)' = Stored(t)
  BY DEF LockAndUpsert, WriteBlob, WriteDbTmp, AfterUpsert, Stored, disk, history
<1>4. KnowsPaper(t)'
  BY <1>1, <1>2, <1>3 DEF KnowsPaper, StepOf, LockAndUpsert, WriteBlob, WriteDbTmp
<1>5. CASE LockAndUpsert(t)
  <2>1. /\ pc[t] = "lock" /\ op[t] # "remove" /\ UNCHANGED <<blobs, files, db>>
        /\ pc'[t] = IF text[t] # Nil THEN "blob" ELSE "save"
        /\ view'[t] = [db EXCEPT ![paper[t]] = pending[t]]
    BY <1>1, <1>5 DEF LockAndUpsert, AfterUpsert, disk, StepOf
  <2>2. \A h \in Hash : view'[t][h] = IF h = paper[t] THEN pending[t] ELSE db[h]
    BY <1>1, <1>2, <2>1 DEF DiskOK, Corpora
  <2>3. pc'[t] = "save" => ~BuildFails(view[t])'
    BY <1>1, <1>3, <2>1, <2>2 DEF AloneKnows, DiskAgrees, BuildFails, Dangling
  <2>4. AloneKnows(t)'
    BY <1>1, <1>2, <1>3, <2>1, <2>2, <2>3 DEF AloneKnows, Puts
  <2>. QED BY <1>4, <2>1, <2>4, SameDirectory, AloneStep
<1>6. CASE WriteBlob(t)
  <2>1. /\ pc[t] = "blob" /\ pc'[t] = "save" /\ UNCHANGED view
        /\ op[t] # "remove" /\ text[t] # Nil
        /\ blobs'[paper[t]] = text[t]
        /\ \A h \in Hash \ {paper[t]} : blobs'[h] = blobs[h]
    BY <1>1, <1>2, <1>6 DEF WriteBlob, StepOf, AloneKnows, DiskOK
  <2>2. \A h \in Hash \ {paper[t]} : view[t][h] = db[h]
    BY <1>1, <2>1 DEF WriterKnows
  <2>3. ~BuildFails(view[t])' /\ ~BuildFails(db)'
    BY <1>1, <1>3, <2>1, <2>2 DEF DiskAgrees, BuildFails, Dangling
  <2>4. AloneKnows(t)'
    BY <1>1, <1>3, <2>1, <2>3 DEF AloneKnows, Puts
  <2>5. DiskAgrees'
    BY <1>1, <1>3, <2>3 DEF DiskAgrees, EntriesHaveFiles, Ids
  <2>. QED BY <1>4, <2>4, <2>5, AloneStep
<1>7. CASE WriteDbTmp(t)
  <2>1. /\ pc[t] = "save" /\ pc'[t] = "commit"
        /\ UNCHANGED <<files, blobs, db, view>>
    BY <1>7 DEF WriteDbTmp
  <2>2. ~BuildFails(view[t])'
    BY <1>1, <2>1 DEF AloneKnows, BuildFails, Dangling
  <2>3. AloneKnows(t)'
    BY <1>1, <1>3, <2>1, <2>2 DEF AloneKnows, Puts
  <2>. QED BY <1>4, <2>1, <2>3, SameDirectory, AloneStep
<1>. QED BY <1>5, <1>6, <1>7

(* What a commit changes: the entry of its paper becomes the one it        *)
(* carries, or is gone.                                                    *)
LEMMA CommitAlone ==
  ASSUME AloneInv, NEW t \in Threads, RenameDb(t)
  PROVE  /\ pc[t] = "commit" /\ paper[t] \in Hash /\ op[t] \in Writers
         /\ UNCHANGED <<op, paper, pending, view, files, blobs, staged, manifests,
                        faults>>
         /\ db' = view[t]
         /\ \A h \in Hash \ {paper[t]} : db'[h] = db[h]
         /\ db'[paper[t]] = IF op[t] = "remove" THEN Nil ELSE pending[t]
         /\ op[t] # "remove" => db'[paper[t]] # Nil
         /\ pc'[t] = IF op[t] = "remove" THEN "build" ELSE "upsert"
<1>. USE DEF AloneInv, WriteInv, TypeInv, TypeOK, MemoryOK, Goto
<1>1. /\ StepOf(t) /\ Carries(t) /\ AloneKnows(t) /\ WriterKnows(t)
      /\ pc[t] = "commit"
  BY DEF RenameDb
<1>2. /\ op[t] \in Writers /\ paper[t] \in Hash /\ view[t] # Nil /\ dbTmp = view[t]
      /\ \A h \in Hash \ {paper[t]} : view[t][h] = db[h]
      /\ view[t][paper[t]] = IF op[t] = "remove" THEN Nil ELSE pending[t]
      /\ op[t] # "remove" => view[t][paper[t]] # Nil
  BY <1>1 DEF StepOf, Carries, AloneKnows, WriterKnows, Writers, Puts
<1>3. /\ UNCHANGED <<op, paper, pending, view, files, blobs, staged, manifests, faults>>
      /\ db' = view[t]
      /\ pc'[t] = IF op[t] = "remove" THEN "build" ELSE "upsert"
  BY <1>2 DEF RenameDb
<1>. QED BY <1>1, <1>2, <1>3

LEMMA RenameDbAlone ==
  ASSUME OneThread, AloneInv, WriteInv', NEW t \in Threads, RenameDb(t)
  PROVE  AloneInv'
<1>. USE DEF AloneInv
<1>. USE CommitAlone
<1>1. AloneKnows(t)'
  BY DEF AloneKnows, Puts
<1>2. KnowsPaper(t)'
  BY DEF KnowsPaper
<1>3. DiskAgrees'
  <2>1. ~BuildFails(db)'
    BY DEF AloneKnows, BuildFails, Dangling
  <2>2. ASSUME NEW h \in Ids(db)'
        PROVE  files'[<<h, db'[h].ext>>] # "absent"
    <3>1. CASE h = paper[t]
      <4>1. db'[h] = pending[t] /\ files[Stored(t)] # "absent"
        BY <2>2, <3>1 DEF AloneKnows, Puts, Ids
      <4>. QED BY <3>1, <4>1 DEF Stored
    <3>2. CASE h # paper[t]
      BY <2>2, <3>2 DEF DiskAgrees, EntriesHaveFiles, Ids
    <3>. QED BY <3>1, <3>2
  <2>. QED BY <2>1, <2>2 DEF DiskAgrees, EntriesHaveFiles
<1>. QED BY <1>1, <1>2, <1>3, AloneStep

(* The index can always be built, as every entry has its text.             *)
LEMMA BuildsIndex ==
  ASSUME AloneInv, NEW t \in Threads, UpsertIndex(t) \/ RebuildIndex(t)
  PROVE  /\ pc[t] \in {"upsert", "build"} /\ pc'[t] = "write" /\ draft'[t] # Nil
         /\ UNCHANGED <<disk, op, paper, pending, faults>>
<1>. USE DEF AloneInv, WriteInv, TypeInv, TypeOK, MemoryOK, Goto
<1>1. StepOf(t) /\ Carries(t) /\ DiskAgrees /\ DiskOK /\ pc[t] \in {"upsert", "build"}
  BY DEF UpsertIndex, RebuildIndex
<1>2. view[t] = db /\ ~BuildFails(db) /\ (pc[t] = "upsert" => paper[t] \in Hash)
  BY <1>1 DEF AloneKnows, DiskAgrees, StepOf, Carries, Writers
<1>3. ~UpsertFails(t) \/ pc[t] # "upsert"
  BY <1>2 DEF UpsertFails, BuildFails
<1>4. /\ UNCHANGED <<disk, op, paper, pending, faults>>
      /\ pc'[t] = "write"
      /\ draft'[t] = IF pc[t] = "upsert" THEN UpsertedIndex(t) ELSE BuildIndex(db)
  BY <1>1, <1>2, <1>3 DEF UpsertIndex, RebuildIndex, history
<1>5. draft'[t] # Nil
  BY <1>1, <1>4, UpsertIsIndex, BuildIsIndex, NilAssumption DEF DiskOK
<1>. QED BY <1>1, <1>4, <1>5

LEMMA IndexAlone ==
  ASSUME OneThread, AloneInv, WriteInv', NEW t \in Threads,
         UpsertIndex(t) \/ RebuildIndex(t)
  PROVE  AloneInv'
<1>. USE BuildsIndex DEF AloneInv
<1>1. UNCHANGED <<files, blobs, db>>
  BY DEF disk
<1>2. StepOf(t)
  BY DEF WriteInv, TypeInv
<1>3. AloneKnows(t)' /\ KnowsPaper(t)'
  BY <1>1, <1>2 DEF AloneKnows, KnowsPaper, Puts, StepOf
<1>. QED BY <1>1, <1>3, SameDirectory, AloneStep

LEMMA RenameAlone ==
  ASSUME OneThread, AloneInv, WriteInv', NEW t \in Threads,
         WriteIndexTmp(t) \/ RenameIndex(t)
  PROVE  AloneInv'
<1>. USE DEF AloneInv, WriteInv, TypeInv, TypeOK, MemoryOK, Goto
<1>1. UNCHANGED <<files, blobs, db>>
  BY DEF WriteIndexTmp, RenameIndex
<1>2. CASE Return(t)
  BY <1>1, <1>2, ReturnAlone
<1>3. CASE ~Return(t)
  <2>1. /\ UNCHANGED <<op, paper, pending>> /\ pc[t] \in {"write", "rename"}
        /\ \/ pc'[t] = "rename" /\ draft'[t] # Nil /\ idxTmp' = draft'[t]
           \/ pc'[t] = "rmfile" /\ op[t] = "remove"
    BY <1>3 DEF WriteIndexTmp, RenameIndex, AloneKnows
  <2>2. AloneKnows(t)' /\ KnowsPaper(t)'
    BY <1>1, <2>1 DEF AloneKnows, KnowsPaper, Puts
  <2>. QED BY <1>1, <2>2, SameDirectory, AloneStep
<1>. QED BY <1>2, <1>3

(* The paper of a removal that is past its commit: no entry names what it  *)
(* deletes.                                                                *)
LEMMA RemoveAlone ==
  ASSUME OneThread, AloneInv, WriteInv', NEW t \in Threads, RemoveStep(t)
  PROVE  AloneInv'
<1>. USE DEF AloneInv, WriteInv, TypeInv, TypeOK, MemoryOK, Goto
<1>1. /\ StepOf(t) /\ Carries(t) /\ DiskAgrees /\ DiskOK
      /\ pc[t] \in {"rmfile", "rmblob", "rmseed"}
  BY DEF RemoveStep, RemoveFile, RemoveBlob, RemoveManifest
<1>2. /\ op[t] = "remove" /\ paper[t] \in Hash /\ db[paper[t]] = Nil
      /\ pending[t] \in Entry
  BY <1>1 DEF StepOf, Carries, KnowsPaper, Writers
<1>3. UNCHANGED db
  BY DEF RemoveStep, RemoveFile, RemoveBlob, RemoveManifest
<1>4. /\ \A h \in Hash \ {paper[t]} : blobs'[h] = blobs[h]
      /\ \A f \in File : f[1] # paper[t] => files'[f] = files[f]
  <2>1. Stored(t) \in File /\ Stored(t)[1] = paper[t]
    BY <1>2, FileOfEntry DEF Stored
  <2>. QED BY <1>1, <1>2, <2>1
           DEF RemoveStep, RemoveFile, RemoveBlob, RemoveManifest, DiskOK
<1>5. DiskAgrees'
  <2>1. ~BuildFails(db)'
    BY <1>1, <1>2, <1>3, <1>4 DEF DiskAgrees, BuildFails, Dangling
  <2>2. ASSUME NEW h \in Ids(db)'
        PROVE  files'[<<h, db'[h].ext>>] # "absent"
    <3>1. h \in Ids(db) /\ db[h] \in Entry /\ h \in Hash /\ h # paper[t]
      BY <1>1, <1>2, <1>3, <2>2, EntryOfPaper DEF Ids, DiskOK
    <3>2. <<h, db[h].ext>> \in File /\ files[<<h, db[h].ext>>] # "absent"
      BY <1>1, <3>1, FileOfEntry DEF DiskAgrees, EntriesHaveFiles
    <3>. QED BY <1>3, <1>4, <3>1, <3>2
  <2>. QED BY <2>1, <2>2 DEF DiskAgrees, EntriesHaveFiles
<1>6. AloneKnows(t)' /\ KnowsPaper(t)'
  <2>1. CASE Return(t)
    BY <2>1 DEF Return, AloneKnows, KnowsPaper, Puts
  <2>2. CASE ~Return(t)
    <3>1. pc'[t] \in {"rmblob", "rmseed"} /\ UNCHANGED <<op, paper, pending>>
      BY <2>2 DEF RemoveStep, RemoveFile, AfterFile, RemoveBlob, RemoveManifest
    <3>. QED BY <1>2, <1>3, <3>1 DEF AloneKnows, KnowsPaper, Puts
  <2>. QED BY <2>1, <2>2
<1>. QED BY <1>5, <1>6, AloneStep

LEMMA ReadersAlone ==
  ASSUME OneThread, AloneInv, WriteInv', NEW t \in Threads,
         SearchIndex(t) \/ SeedStep(t)
  PROVE  AloneInv'
<1>. USE DEF AloneInv, WriteInv, TypeInv, TypeOK, MemoryOK, Goto
<1>1. UNCHANGED <<files, blobs, db>>
  BY DEF SearchIndex, SeedStep, ReloadForSeed, VerifyForSeed, WriteManifest, disk
<1>2. CASE Return(t)
  BY <1>1, <1>2, ReturnAlone
<1>3. CASE ~Return(t)
  <2>1. /\ UNCHANGED <<op, paper, view>> /\ op[t] \in {"search", "seed"}
        /\ \/ pc'[t] = "build" /\ pc[t] = "probe"
           \/ pc'[t] \in {"verify", "manifest"} /\ pc[t] \in {"reload", "verify"}
    BY <1>3 DEF SearchIndex, SeedStep, ReloadForSeed, VerifyForSeed, WriteManifest,
                StepOf
  <2>2. AloneKnows(t)' /\ KnowsPaper(t)'
    BY <1>1, <2>1 DEF AloneKnows, KnowsPaper, Puts
  <2>. QED BY <1>1, <2>2, SameDirectory, AloneStep
<1>. QED BY <1>2, <1>3

(* A failed call or a crash ends the operation where it is.                *)
LEMMA FailAlone ==
  ASSUME OneThread, AloneInv, WriteInv', NEW t \in Threads, FailIo(t)
  PROVE  AloneInv'
<1>1. Return(t) /\ UNCHANGED <<files, blobs, db>>
  BY DEF FailIo, disk
<1>. QED BY <1>1, ReturnAlone

LEMMA EnvironmentAlone ==
  ASSUME OneThread, AloneInv, WriteInv', Environment \/ UNCHANGED vars
  PROVE  AloneInv'
<1>. USE DEF AloneInv
<1>1. PICK t : Threads = {t}
  BY DEF OneThread
<1>2. CASE ReplaceSource \/ Damage \/ UNCHANGED vars
  <2>1. /\ UNCHANGED <<staged, blobs, db, idxTmp, memory>>
        /\ \A f \in File : files'[f] # "absent" <=> files[f] # "absent"
    BY <1>2 DEF ReplaceSource, Damage, vars, disk, WriteInv, TypeInv, TypeOK, DiskOK
  <2>2. DiskAgrees'
    <3>1. ~BuildFails(db)'
      BY <2>1 DEF DiskAgrees, BuildFails, Dangling
    <3>2. ASSUME NEW h \in Ids(db)
          PROVE  files'[<<h, db[h].ext>>] # "absent"
      <4>1. <<h, db[h].ext>> \in File
        BY EntryOfPaper, FileOfEntry DEF WriteInv, TypeInv, TypeOK, DiskOK
      <4>. QED BY <2>1, <4>1 DEF DiskAgrees, EntriesHaveFiles
    <3>. QED BY <2>1, <3>1, <3>2 DEF DiskAgrees, EntriesHaveFiles, Ids
  <2>3. KnowsPaper(t)'
    BY <1>1, <2>1 DEF memory, KnowsPaper
  <2>4. AloneKnows(t)'
    <3>1. pc[t] = "read" \/ Puts(t) => Stored(t) \in File
      BY <1>1, PutsEntry
    <3>2. /\ Puts(t)' = Puts(t) /\ Stored(t)' = Stored(t)
          /\ Imported(t)' = Imported(t)
          /\ BuildFails(view[t])' = BuildFails(view[t])
      BY <2>1 DEF memory, Puts, Stored, Imported, BuildFails, Dangling
    <3>. QED BY <1>1, <2>1, <3>1, <3>2 DEF memory, AloneKnows
  <2>. QED BY <1>1, <2>2, <2>3, <2>4, AloneStep
<1>3. ASSUME NEW p \in Processes, Crash(p)
      PROVE  AloneInv'
  <2>1. UNCHANGED disk /\ UNCHANGED <<files, blobs, db>>
    BY <1>3 DEF Crash, disk
  <2>2. CASE ProcessOf[t] = p
    <3>1. pc'[t] = "idle" /\ op'[t] = "none"
      BY <1>1, <1>3, <2>2 DEF Crash
    <3>2. AloneKnows(t)' /\ KnowsPaper(t)'
      BY <3>1 DEF AloneKnows, KnowsPaper, Puts
    <3>. QED BY <1>1, <2>1, <3>2, SameDirectory, AloneStep
  <2>3. CASE ProcessOf[t] # p
    <3>1. UNCHANGED <<op[t], pc[t], request[t], paper[t], pending[t], text[t], view[t],
                      draft[t]>>
      BY <1>1, <1>3, <2>3 DEF Crash
    <3>2. /\ Puts(t)' = Puts(t) /\ Stored(t)' = Stored(t)
          /\ Imported(t)' = Imported(t)
          /\ BuildFails(view[t])' = BuildFails(view[t])
      BY <2>1, <3>1 DEF Puts, Stored, Imported, BuildFails, Dangling
    <3>3. AloneKnows(t)' /\ KnowsPaper(t)'
      BY <1>1, <2>1, <3>1, <3>2 DEF disk, AloneKnows, KnowsPaper
    <3>. QED BY <1>1, <2>1, <3>3, SameDirectory, AloneStep
  <2>. QED BY <2>2, <2>3
<1>. QED BY <1>2, <1>3 DEF Environment

LEMMA NextAloneInv ==
  ASSUME OneThread, AloneInv, [Next]_vars
  PROVE  AloneInv'
<1>1. OneProcess
  BY DEF OneThread, OneProcess
<1>2. WriteInv'
  BY <1>1, NextWriteInv DEF AloneInv
<1>3. ASSUME NEW t \in Threads, Begin(t)
      PROVE  AloneInv'
  BY <1>2, <1>3, BeginAlone
<1>4. ASSUME NEW t \in Threads, Step(t)
      PROVE  AloneInv'
  BY <1>2, <1>4, ImportAlone, TextAlone, SaveAlone, RenameDbAlone, IndexAlone,
     RenameAlone, RemoveAlone, ReadersAlone
  DEF Step, PersistStep
<1>5. ASSUME NEW t \in Threads, FailIo(t)
      PROVE  AloneInv'
  BY <1>2, <1>5, FailAlone
<1>6. CASE Environment \/ UNCHANGED vars
  BY <1>2, <1>6, EnvironmentAlone
<1>. QED BY <1>3, <1>4, <1>5, <1>6 DEF Next

LEMMA InitAloneInv == Init => AloneInv
<1>1. Init => WriteInv
  BY InitWriteInv
<1>2. Init => \A t \in Threads : AloneKnows(t) /\ KnowsPaper(t)
  BY DEF Init, AloneKnows, KnowsPaper, Puts
<1>3. Init => DiskAgrees
  BY DEF Init, DiskAgrees, EntriesHaveFiles, BuildFails, Dangling, Ids
<1>. QED BY <1>1, <1>2, <1>3 DEF AloneInv

(* One caller at a time: the file and the text that an entry names are on  *)
(* disk, whatever failed, crashed or was refused before.                   *)
THEOREM EntriesHaveTheirFiles ==
  ASSUME OneThread PROVE Spec => []FilesMatchEntries
<1>1. Init => AloneInv
  BY InitAloneInv
<1>2. AloneInv /\ [Next]_vars => AloneInv'
  BY NextAloneInv
<1>3. AloneInv => FilesMatchEntries
  BY DEF AloneInv, DiskAgrees, EntriesHaveFiles, BuildFails, FilesMatchEntries, Ids
<1>. QED BY <1>1, <1>2, <1>3, PTL DEF Spec

-----------------------------------------------------------------------------
(* Leftovers                                                               *)

Deleting(t) == op[t] = "remove" /\ pc[t] \in {"build", "write", "rename", "rmfile"}

(* What no entry names yet, or no more, because t is at work on it.        *)
FileInHand(t, f) == f = Stored(t) /\ (Puts(t) \/ Deleting(t))

TextInHand(t, h) ==
  /\ h = paper[t] /\ pending[t].hasText
  /\ \/ pc[t] \in {"save", "commit"} /\ op[t] # "remove"
     \/ Deleting(t) \/ pc[t] = "rmblob"

ManifestInHand(t, h) ==
  h = paper[t] /\ (Deleting(t) \/ pc[t] \in {"rmblob", "rmseed"})

StagedInHand(t, f) == f = Imported(t) /\ pc[t] \in {"extract", "place"}

FilesLeft(t) ==
  \A f \in File :
    files[f] # "absent" => FileNamed(f) \/ f[1] \in loose \/ FileInHand(t, f)

TextsLeft(t) ==
  \A h \in Hash : blobs[h] # Nil => TextNamed(h) \/ h \in loose \/ TextInHand(t, h)

ManifestsLeft(t) ==
  \A h \in Hash :
    manifests[h] # Nil => db[h] # Nil \/ h \in loose \/ ManifestInHand(t, h)

StagedLeft(t) == \A f \in staged : f[1] \in loose \/ StagedInHand(t, f)

Left(t) == FilesLeft(t) /\ TextsLeft(t) /\ ManifestsLeft(t) /\ StagedLeft(t)

LeftInv == \A t \in Threads : Left(t)

LEMMA LeftStep ==
  ASSUME OneThread, NEW t \in Threads, Left(t)'
  PROVE  LeftInv'
<1>1. \A u \in Threads : u = t
  BY DEF OneThread
<1>. QED BY <1>1 DEF LeftInv

(* Nothing on disk changes, and what is let go is accounted for.           *)
LEMMA SameLeft ==
  ASSUME LeftInv, NEW t \in Threads, loose \subseteq loose',
         UNCHANGED <<staged, blobs, db, manifests>>,
         \A f \in File : files'[f] # "absent" => files[f] # "absent",
         \A f \in File : FileInHand(t, f) => FileInHand(t, f)' \/ f[1] \in loose',
         \A h \in Hash : TextInHand(t, h) => TextInHand(t, h)' \/ h \in loose',
         \A h \in Hash : ManifestInHand(t, h) => ManifestInHand(t, h)' \/ h \in loose',
         \A f \in staged : StagedInHand(t, f) => StagedInHand(t, f)' \/ f[1] \in loose'
  PROVE  Left(t)'
<1>1. Left(t)
  BY DEF LeftInv
<1>2. FilesLeft(t)'
  BY <1>1 DEF Left, FilesLeft, FileNamed
<1>3. TextsLeft(t)'
  BY <1>1 DEF Left, TextsLeft, TextNamed
<1>4. ManifestsLeft(t)'
  BY <1>1 DEF Left, ManifestsLeft
<1>5. StagedLeft(t)'
  BY <1>1 DEF Left, StagedLeft
<1>. QED BY <1>2, <1>3, <1>4, <1>5 DEF Left

(* An operation that has nothing in hand may go on or return.              *)
LEMMA NothingInHand ==
  ASSUME LeftInv, NEW t \in Threads, loose \subseteq loose',
         UNCHANGED <<staged, blobs, db, manifests>>,
         \A f \in File : files'[f] # "absent" => files[f] # "absent",
         ~Puts(t), ~Deleting(t),
         pc[t] \notin {"extract", "place", "save", "commit", "rmblob", "rmseed"}
  PROVE  Left(t)'
BY SameLeft DEF FileInHand, TextInHand, ManifestInHand, StagedInHand

(* A step in the middle of an operation that goes on.                      *)
LEMMA GoesOn ==
  ASSUME LeftInv, NEW t \in Threads, loose \subseteq loose',
         UNCHANGED <<files, staged, blobs, db, manifests, op, paper, pending>>,
         Puts(t) => Puts(t)', Deleting(t) => Deleting(t)',
         pc[t] \notin {"extract", "place", "rmblob", "rmseed"},
         pc[t] \in {"save", "commit"} => pc'[t] \in {"save", "commit"}
  PROVE  Left(t)'
<1>1. Stored(t)' = Stored(t)
  BY DEF Stored
<1>2. \A f \in File : FileInHand(t, f) => FileInHand(t, f)'
  BY <1>1 DEF FileInHand
<1>3. \A h \in Hash : TextInHand(t, h) => TextInHand(t, h)'
  BY DEF TextInHand
<1>4. \A h \in Hash : ManifestInHand(t, h) => ManifestInHand(t, h)'
  BY DEF ManifestInHand
<1>. QED BY <1>2, <1>3, <1>4, SameLeft DEF StagedInHand

(* An operation that is cut short, or refused, leaves its paper loose.     *)
LEMMA LetGoLeft ==
  ASSUME LeftInv, NEW t \in Threads, loose \subseteq loose', paper[t] \in loose',
         UNCHANGED <<staged, blobs, db, manifests>>,
         \A f \in File : files'[f] # "absent" => files[f] # "absent"
  PROVE  Left(t)'
BY SameLeft DEF FileInHand, TextInHand, ManifestInHand, StagedInHand, Stored, Imported

LEMMA BeginLeft ==
  ASSUME AloneInv, LeftInv, NEW t \in Threads, Begin(t), loose \subseteq loose'
  PROVE  Left(t)'
<1>. USE DEF AloneInv, WriteInv, TypeInv, TypeOK, MemoryOK, Goto, Start
<1>1. pc[t] = "idle" /\ UNCHANGED <<files, blobs, db, manifests>>
  BY DEF Begin, BeginImport, BeginText, BeginRemove, BeginReindex, BeginSearch,
         BeginSeed, disk
<1>2. ~Puts(t) /\ ~Deleting(t)
  BY <1>1 DEF Puts, Deleting
<1>3. CASE BeginImport(t)
  <2>1. /\ staged' \subseteq staged \cup {Imported(t)'}
        /\ pc'[t] \in {"extract", "place"}
    BY <1>3 DEF BeginImport, Imported
  <2>2. StagedLeft(t)'
    BY <1>1, <2>1 DEF LeftInv, Left, StagedLeft, StagedInHand
  <2>3. FilesLeft(t)'
    BY <1>1, <1>2 DEF LeftInv, Left, FilesLeft, FileNamed, FileInHand
  <2>4. TextsLeft(t)' /\ ManifestsLeft(t)'
    BY <1>1, <1>2 DEF LeftInv, Left, TextsLeft, ManifestsLeft, TextNamed, TextInHand,
                      ManifestInHand
  <2>. QED BY <2>2, <2>3, <2>4 DEF Left
<1>4. CASE ~BeginImport(t)
  <2>1. UNCHANGED staged
    BY <1>4 DEF Begin, BeginText, BeginRemove, BeginReindex, BeginSearch, BeginSeed, disk
  <2>. QED BY <1>1, <1>2, <2>1, NothingInHand
<1>. QED BY <1>3, <1>4

LEMMA ImportLeft ==
  ASSUME AloneInv, LeftInv, NEW t \in Threads, ImportStep(t),
         loose \subseteq loose', LetGo(t) => paper[t] \in loose'
  PROVE  Left(t)'
<1>. USE DEF AloneInv, WriteInv, TypeInv, TypeOK, MemoryOK, Goto
<1>1. CASE ExtractStaged(t)
  <2>1. /\ pc[t] = "extract" /\ UNCHANGED <<files, blobs, db, manifests>>
        /\ \/ /\ UNCHANGED <<staged, paper, request>> /\ pc'[t] = "place"
           \/ staged' = staged \ {Imported(t)}
    BY <1>1 DEF ExtractStaged
  <2>2. ~Puts(t) /\ ~Deleting(t)
    BY <2>1 DEF Puts, Deleting
  <2>3. StagedLeft(t)'
    BY <2>1 DEF LeftInv, Left, StagedLeft, StagedInHand, Imported
  <2>4. FilesLeft(t)'
    BY <2>1, <2>2 DEF LeftInv, Left, FilesLeft, FileNamed, FileInHand
  <2>5. TextsLeft(t)' /\ ManifestsLeft(t)'
    BY <2>1, <2>2 DEF LeftInv, Left, TextsLeft, ManifestsLeft, TextNamed, TextInHand,
                      ManifestInHand
  <2>. QED BY <2>3, <2>4, <2>5 DEF Left
<1>2. CASE Place(t)
  <2>. USE <1>2, PlacedFile
  <2>1. ~Puts(t) /\ ~Deleting(t)
    BY DEF Puts, Deleting
  <2>2. StagedLeft(t)'
    BY DEF LeftInv, Left, StagedLeft, StagedInHand
  <2>3. TextsLeft(t)' /\ ManifestsLeft(t)'
    BY <2>1 DEF LeftInv, Left, TextsLeft, ManifestsLeft, TextNamed, TextInHand,
                ManifestInHand
  <2>4. ASSUME NEW f \in File, files'[f] # "absent"
        PROVE  FileNamed(f)' \/ f[1] \in loose' \/ FileInHand(t, f)'
    <3>1. CASE f = Imported(t)
      <4>1. f[1] = paper[t]
        BY <3>1 DEF Imported
      <4>2. FileInHand(t, f)' \/ paper[t] \in loose'
        <5>1. CASE Return(t)
          BY <5>1 DEF Return, LetGo
        <5>2. CASE ~Return(t)
          BY <3>1, <5>2 DEF FileInHand, Puts
        <5>. QED BY <5>1, <5>2
      <4>. QED BY <4>1, <4>2
    <3>2. CASE f # Imported(t)
      BY <2>1, <2>4, <3>2 DEF LeftInv, Left, FilesLeft, FileNamed, FileInHand
    <3>. QED BY <3>1, <3>2
  <2>. QED BY <2>2, <2>3, <2>4 DEF Left, FilesLeft
<1>. QED BY <1>1, <1>2 DEF ImportStep

(* A commit may put an entry in the place of one that named more.          *)
LEMMA CommitLeft ==
  ASSUME AloneInv, LeftInv, NEW t \in Threads, RenameDb(t),
         loose \subseteq loose', \A h \in Hash : Replaced(h) => h \in loose'
  PROVE  Left(t)'
<1>. USE CommitAlone
<1>1. Left(t) /\ Stored(t)' = Stored(t)
  BY DEF LeftInv, Stored
<1>2. op[t] = "remove" => Deleting(t)' /\ db[paper[t]] = pending[t]
  BY DEF Deleting, AloneInv, KnowsPaper
<1>3. ASSUME NEW f \in File, files[f] # "absent"
      PROVE  FileNamed(f)' \/ f[1] \in loose' \/ FileInHand(t, f)'
  <2>1. f[1] \in Hash /\ f = <<f[1], f[2]>>
    BY DEF File
  <2>2. CASE f[1] # paper[t]
    <3>1. db'[f[1]] = db[f[1]] /\ ~FileInHand(t, f)
      BY <2>1, <2>2 DEF FileInHand, Stored
    <3>. QED BY <1>1, <1>3, <3>1 DEF Left, FilesLeft, FileNamed
  <2>3. CASE f[1] = paper[t] /\ op[t] = "remove"
    <3>1. FileNamed(f) => f = Stored(t)
      BY <1>2, <2>1, <2>3 DEF FileNamed, Stored
    <3>2. FileNamed(f) \/ f[1] \in loose \/ f = Stored(t)
      BY <1>1, <1>3, <2>3 DEF Left, FilesLeft, FileInHand
    <3>. QED BY <1>1, <1>2, <2>3, <3>1, <3>2 DEF FileInHand
  <2>4. CASE f[1] = paper[t] /\ op[t] # "remove"
    <3>1. db'[f[1]] = pending[t] /\ db'[f[1]] # Nil
      BY <2>4
    <3>2. CASE f = Stored(t)
      BY <3>1, <3>2 DEF FileNamed, Stored
    <3>3. CASE FileNamed(f)
      BY <2>1, <3>1, <3>3 DEF FileNamed, Replaced
    <3>4. CASE f # Stored(t) /\ ~FileNamed(f)
      BY <1>1, <1>3, <3>4 DEF Left, FilesLeft, FileInHand
    <3>. QED BY <3>2, <3>3, <3>4
  <2>. QED BY <2>2, <2>3, <2>4
<1>4. ASSUME NEW h \in Hash, blobs[h] # Nil
      PROVE  TextNamed(h)' \/ h \in loose' \/ TextInHand(t, h)'
  <2>1. TextNamed(h) \/ h \in loose \/ TextInHand(t, h)
    BY <1>1, <1>4 DEF Left, TextsLeft
  <2>2. CASE h # paper[t]
    BY <2>1, <2>2 DEF TextNamed, TextInHand
  <2>3. CASE h = paper[t] /\ op[t] = "remove"
    <3>1. TextInHand(t, h) => FALSE
      BY <2>3 DEF TextInHand, Deleting
    <3>2. TextNamed(h) => pending[t].hasText
      BY <1>2, <2>3 DEF TextNamed
    <3>. QED BY <1>2, <2>1, <2>3, <3>1, <3>2 DEF TextInHand
  <2>4. CASE h = paper[t] /\ op[t] # "remove"
    <3>1. db'[h] = pending[t] /\ db'[h] # Nil
      BY <2>4
    <3>2. CASE TextInHand(t, h)
      BY <3>1, <3>2 DEF TextInHand, TextNamed
    <3>3. CASE TextNamed(h)
      BY <3>1, <3>3 DEF TextNamed, Replaced
    <3>. QED BY <2>1, <3>2, <3>3
  <2>. QED BY <2>2, <2>3, <2>4
<1>5. ASSUME NEW h \in Hash, manifests[h] # Nil
      PROVE  db'[h] # Nil \/ h \in loose' \/ ManifestInHand(t, h)'
  <2>1. db[h] # Nil \/ h \in loose
    BY <1>1, <1>5 DEF Left, ManifestsLeft, ManifestInHand, Deleting
  <2>. QED BY <1>2, <2>1 DEF ManifestInHand
<1>6. StagedLeft(t)'
  BY <1>1 DEF Left, StagedLeft, StagedInHand
<1>. QED BY <1>3, <1>4, <1>5, <1>6 DEF Left, FilesLeft, TextsLeft, ManifestsLeft

LEMMA PersistLeft ==
  ASSUME AloneInv, LeftInv, NEW t \in Threads, PersistStep(t),
         loose \subseteq loose', \A h \in Hash : Replaced(h) => h \in loose'
  PROVE  Left(t)'
<1>. USE DEF AloneInv, WriteInv, TypeInv, TypeOK, MemoryOK, Goto
<1>1. CASE LockAndUpsert(t) \/ WriteDbTmp(t)
  <2>1. /\ UNCHANGED <<files, staged, blobs, db, manifests, op, paper, pending>>
        /\ pc[t] \in {"lock", "save"} /\ pc'[t] \in {"blob", "save", "commit"}
        /\ pc[t] = "save" => pc'[t] = "commit"
    BY <1>1 DEF LockAndUpsert, WriteDbTmp, AfterUpsert, disk
  <2>2. pc[t] = "lock" => op[t] # "remove"
    BY DEF StepOf
  <2>3. (Puts(t) => Puts(t)') /\ ~Deleting(t)
    BY <2>1, <2>2 DEF Puts, Deleting
  <2>. QED BY <2>1, <2>3, GoesOn
<1>2. CASE WriteBlob(t)
  <2>1. /\ UNCHANGED <<files, staged, db, manifests, op, paper, pending>>
        /\ pc[t] = "blob" /\ pc'[t] = "save" /\ op[t] # "remove"
        /\ paper[t] \in Hash /\ pending[t].hasText
        /\ \A h \in Hash \ {paper[t]} : blobs'[h] = blobs[h]
    BY <1>2 DEF WriteBlob, StepOf, Carries, Writers, AloneKnows, DiskOK
  <2>2. Left(t) /\ Stored(t)' = Stored(t) /\ Puts(t) /\ Puts(t)'
    BY <2>1 DEF LeftInv, Stored, Puts
  <2>3. FilesLeft(t)'
    BY <2>1, <2>2 DEF Left, FilesLeft, FileNamed, FileInHand
  <2>4. TextsLeft(t)'
    <3>1. ASSUME NEW h \in Hash, h # paper[t], blobs'[h] # Nil
          PROVE  TextNamed(h)' \/ h \in loose'
      BY <2>1, <2>2, <3>1 DEF Left, TextsLeft, TextNamed, TextInHand
    <3>2. TextInHand(t, paper[t])'
      BY <2>1 DEF TextInHand
    <3>. QED BY <2>1, <3>1, <3>2 DEF TextsLeft
  <2>5. ManifestsLeft(t)' /\ StagedLeft(t)'
    BY <2>1, <2>2 DEF Left, ManifestsLeft, StagedLeft, ManifestInHand, StagedInHand,
                      Deleting
  <2>. QED BY <2>3, <2>4, <2>5 DEF Left
<1>3. CASE RenameDb(t)
  BY <1>3, CommitLeft
<1>4. CASE UpsertIndex(t) \/ RebuildIndex(t)
  <2>1. /\ pc[t] \in {"upsert", "build"} /\ pc'[t] = "write"
        /\ UNCHANGED <<files, staged, blobs, db, manifests, op, paper, pending>>
    BY <1>4, BuildsIndex DEF disk
  <2>2. ~Puts(t) /\ (Deleting(t) => Deleting(t)')
    BY <2>1 DEF Puts, Deleting
  <2>. QED BY <2>1, <2>2, GoesOn
<1>5. CASE WriteIndexTmp(t) \/ RenameIndex(t)
  <2>1. /\ UNCHANGED <<files, staged, blobs, db, manifests>>
        /\ pc[t] \in {"write", "rename"}
        /\ \/ /\ pc'[t] \in {"rename", "rmfile"} /\ UNCHANGED <<op, paper, pending>>
           \/ op[t] # "remove"
    BY <1>5 DEF WriteIndexTmp, RenameIndex, AloneKnows
  <2>2. ~Puts(t)
    BY <2>1 DEF Puts
  <2>3. CASE op[t] # "remove"
    BY <2>1, <2>2, <2>3, NothingInHand DEF Deleting
  <2>4. CASE op[t] = "remove"
    BY <2>1, <2>2, <2>4, GoesOn DEF Deleting
  <2>. QED BY <2>3, <2>4
<1>. QED BY <1>1, <1>2, <1>3, <1>4, <1>5 DEF PersistStep

LEMMA RemoveLeft ==
  ASSUME AloneInv, LeftInv, NEW t \in Threads, RemoveStep(t), loose \subseteq loose'
  PROVE  Left(t)'
<1>. USE DEF AloneInv, WriteInv, TypeInv, TypeOK, MemoryOK, Goto
<1>1. /\ pc[t] \in {"rmfile", "rmblob", "rmseed"} /\ op[t] = "remove"
      /\ paper[t] \in Hash /\ pending[t] \in Entry /\ DiskOK /\ Left(t)
  BY DEF RemoveStep, RemoveFile, RemoveBlob, RemoveManifest, StepOf, Carries, Writers,
         KnowsPaper, LeftInv
<1>2. ~Puts(t) /\ UNCHANGED <<db, staged>>
  BY <1>1 DEF Puts, RemoveStep, RemoveFile, RemoveBlob, RemoveManifest
<1>3. StagedLeft(t)'
  BY <1>1, <1>2 DEF Left, StagedLeft, StagedInHand
<1>4. CASE RemoveFile(t)
  <2>1. /\ UNCHANGED <<blobs, manifests, op, paper, pending>>
        /\ files' = [files EXCEPT ![Stored(t)] = "absent"]
        /\ pc'[t] = IF pending[t].hasText THEN "rmblob" ELSE "rmseed"
    BY <1>1, <1>4 DEF RemoveFile, AfterFile
  <2>2. FilesLeft(t)'
    BY <1>1, <1>2, <2>1 DEF DiskOK, Left, FilesLeft, FileNamed, FileInHand
  <2>3. TextsLeft(t)'
    BY <1>1, <1>2, <2>1 DEF Left, TextsLeft, TextNamed, TextInHand, Deleting
  <2>4. ManifestsLeft(t)'
    BY <1>1, <1>2, <2>1 DEF Left, ManifestsLeft, ManifestInHand, Deleting
  <2>. QED BY <1>3, <2>2, <2>3, <2>4 DEF Left
<1>5. CASE RemoveBlob(t)
  <2>1. /\ UNCHANGED <<files, manifests, op, paper, pending>>
        /\ blobs' = [blobs EXCEPT ![paper[t]] = Nil]
        /\ pc[t] = "rmblob" /\ pc'[t] = "rmseed"
    BY <1>5 DEF RemoveBlob
  <2>2. FilesLeft(t)'
    BY <1>1, <1>2, <2>1 DEF Left, FilesLeft, FileNamed, FileInHand, Deleting
  <2>3. TextsLeft(t)'
    BY <1>1, <1>2, <2>1 DEF DiskOK, Left, TextsLeft, TextNamed, TextInHand, Deleting
  <2>4. ManifestsLeft(t)'
    BY <1>1, <1>2, <2>1 DEF Left, ManifestsLeft, ManifestInHand, Deleting
  <2>. QED BY <1>3, <2>2, <2>3, <2>4 DEF Left
<1>6. CASE RemoveManifest(t)
  <2>1. /\ UNCHANGED <<files, blobs>>
        /\ manifests' = [manifests EXCEPT ![paper[t]] = Nil]
        /\ pc[t] = "rmseed"
    BY <1>6 DEF RemoveManifest
  <2>2. FilesLeft(t)' /\ TextsLeft(t)'
    BY <1>1, <1>2, <2>1 DEF Left, FilesLeft, TextsLeft, FileNamed, TextNamed, FileInHand,
                            TextInHand, Deleting
  <2>3. ManifestsLeft(t)'
    BY <1>1, <1>2, <2>1 DEF DiskOK, Left, ManifestsLeft, ManifestInHand, Deleting
  <2>. QED BY <1>3, <2>2, <2>3 DEF Left
<1>. QED BY <1>4, <1>5, <1>6 DEF RemoveStep

LEMMA ReadersLeft ==
  ASSUME AloneInv, LeftInv, NEW t \in Threads, loose \subseteq loose',
         TextStep(t) \/ SearchIndex(t) \/ SeedStep(t)
  PROVE  Left(t)'
<1>. USE DEF AloneInv, WriteInv, TypeInv, TypeOK, MemoryOK, Goto
<1>1. /\ pc[t] \in {"read", "probe", "reload", "verify", "manifest"}
      /\ UNCHANGED <<files, blobs, db, staged>>
  BY DEF TextStep, ReadBlob, FetchText, SearchIndex, SeedStep, ReloadForSeed,
         VerifyForSeed, WriteManifest, disk
<1>2. ~Puts(t) /\ ~Deleting(t)
  BY <1>1 DEF Puts, Deleting
<1>3. CASE WriteManifest(t)
  <2>1. /\ manifests' = [manifests EXCEPT ![paper[t]] = pending[t].license]
        /\ db[paper[t]] # Nil
    BY <1>3 DEF WriteManifest, KnowsPaper
  <2>2. ManifestsLeft(t)'
    BY <1>1, <1>2, <2>1 DEF DiskOK, LeftInv, Left, ManifestsLeft, ManifestInHand
  <2>3. FilesLeft(t)' /\ TextsLeft(t)' /\ StagedLeft(t)'
    BY <1>1, <1>2 DEF LeftInv, Left, FilesLeft, TextsLeft, StagedLeft, FileNamed,
                      TextNamed, FileInHand, TextInHand, StagedInHand
  <2>. QED BY <2>2, <2>3 DEF Left
<1>4. CASE ~WriteManifest(t)
  <2>1. UNCHANGED manifests
    BY <1>4 DEF TextStep, ReadBlob, FetchText, SearchIndex, SeedStep, ReloadForSeed,
                VerifyForSeed, disk
  <2>. QED BY <1>1, <1>2, <2>1, NothingInHand
<1>. QED BY <1>3, <1>4

LEMMA EnvironmentLeft ==
  ASSUME AloneInv, LeftInv, NEW t \in Threads, Environment \/ UNCHANGED vars,
         loose \subseteq loose', LetGo(t) => paper[t] \in loose'
  PROVE  Left(t)'
<1>. USE DEF AloneInv, WriteInv, TypeInv, TypeOK
<1>1. CASE ReplaceSource \/ Damage \/ UNCHANGED vars
  <2>1. /\ UNCHANGED <<staged, blobs, db, manifests, memory>>
        /\ \A f \in File : files'[f] # "absent" => files[f] # "absent"
    BY <1>1 DEF ReplaceSource, Damage, vars, disk, DiskOK
  <2>2. \A f : FileInHand(t, f)' = FileInHand(t, f)
    BY <2>1 DEF memory, FileInHand, Stored, Puts, Deleting
  <2>3. \A h : TextInHand(t, h)' = TextInHand(t, h)
    BY <2>1 DEF memory, TextInHand, Deleting
  <2>4. \A h : ManifestInHand(t, h)' = ManifestInHand(t, h)
    BY <2>1 DEF memory, ManifestInHand, Deleting
  <2>5. \A f : StagedInHand(t, f)' = StagedInHand(t, f)
    BY <2>1 DEF memory, StagedInHand, Imported
  <2>. QED BY <2>1, <2>2, <2>3, <2>4, <2>5, SameLeft
<1>2. ASSUME NEW p \in Processes, Crash(p)
      PROVE  Left(t)'
  <2>1. UNCHANGED <<files, staged, blobs, db, manifests>> /\ faults' # faults
    BY <1>2, ConstantsAssumption DEF Crash, disk, HistoryOK
  <2>2. CASE ProcessOf[t] = p
    <3>1. pc'[t] = "idle"
      BY <1>2, <2>2 DEF Crash
    <3>. QED BY <2>1, <3>1, LetGoLeft DEF LetGo
  <2>3. CASE ProcessOf[t] # p
    <3>1. UNCHANGED <<op[t], pc[t], request[t], paper[t], pending[t]>>
      BY <1>2, <2>3 DEF Crash
    <3>2. \A f : /\ FileInHand(t, f)' = FileInHand(t, f)
                 /\ StagedInHand(t, f)' = StagedInHand(t, f)
      BY <3>1 DEF FileInHand, StagedInHand, Stored, Imported, Puts, Deleting
    <3>3. \A h : /\ TextInHand(t, h)' = TextInHand(t, h)
                 /\ ManifestInHand(t, h)' = ManifestInHand(t, h)
      BY <3>1 DEF TextInHand, ManifestInHand, Deleting
    <3>. QED BY <2>1, <3>2, <3>3, SameLeft
  <2>. QED BY <2>2, <2>3
<1>. QED BY <1>1, <1>2 DEF Environment

LEMMA NextLeftInv ==
  ASSUME OneThread, AloneInv, LeftInv, [LeftoverNext]_<<vars, loose>>
  PROVE  LeftInv'
<1>1. PICK t : Threads = {t}
  BY DEF OneThread
<1>2. CASE LeftoverNext
  <2>1. /\ loose \subseteq loose'
        /\ LetGo(t) /\ paper[t] \in Hash => paper[t] \in loose'
        /\ \A h \in Hash : Replaced(h) => h \in loose'
    BY <1>1, <1>2 DEF LeftoverNext, Dropped
  <2>2. CASE Begin(t)
    BY <1>1, <2>1, <2>2, BeginLeft, LeftStep
  <2>3. CASE ImportStep(t)
    <3>1. paper[t] \in Hash
      BY <1>1, <2>3 DEF ImportStep, ExtractStaged, Place, AloneInv, WriteInv, TypeInv,
                        TypeOK, MemoryOK, StepOf, Carries, Writers
    <3>. QED BY <1>1, <2>1, <2>3, <3>1, ImportLeft, LeftStep
  <2>4. CASE PersistStep(t)
    BY <1>1, <2>1, <2>4, PersistLeft, LeftStep
  <2>5. CASE RemoveStep(t)
    BY <1>1, <2>1, <2>5, RemoveLeft, LeftStep
  <2>6. CASE TextStep(t) \/ SearchIndex(t) \/ SeedStep(t)
    BY <1>1, <2>1, <2>6, ReadersLeft, LeftStep
  <2>7. CASE FailIo(t) \/ Environment
    <3>1. CASE paper[t] \in Hash
      <4>1. CASE FailIo(t)
        <5>1. pc'[t] = "idle" /\ faults' # faults /\ UNCHANGED disk
          BY <1>1, <4>1, ConstantsAssumption
          DEF FailIo, Return, AloneInv, WriteInv, TypeInv, TypeOK, MemoryOK, HistoryOK
        <5>2. UNCHANGED <<files, staged, blobs, db, manifests>> /\ paper[t] \in loose'
          BY <2>1, <3>1, <5>1 DEF disk, LetGo
        <5>. QED BY <1>1, <2>1, <5>2, LetGoLeft, LeftStep
      <4>2. CASE Environment
        BY <1>1, <2>1, <3>1, <4>2, EnvironmentLeft, LeftStep
      <4>. QED BY <2>7, <4>1, <4>2
    <3>2. CASE paper[t] \notin Hash
      <4>1. op[t] \notin Writers \cup {"seed"}
        BY <1>1, <3>2 DEF AloneInv, WriteInv, TypeInv, TypeOK, MemoryOK, Carries
      <4>2. /\ ~Puts(t) /\ ~Deleting(t)
            /\ pc[t] \notin {"extract", "place", "save", "commit", "rmblob", "rmseed"}
        BY <1>1, <4>1 DEF Puts, Deleting, Writers, AloneInv, WriteInv, TypeInv, StepOf
      <4>3. /\ UNCHANGED <<staged, blobs, db, manifests>>
            /\ \A f \in File : files'[f] # "absent" => files[f] # "absent"
        BY <2>7 DEF FailIo, Environment, ReplaceSource, Damage, Crash, disk, AloneInv,
                    WriteInv, TypeInv, TypeOK, DiskOK
      <4>. QED BY <1>1, <2>1, <4>2, <4>3, NothingInHand, LeftStep
    <3>. QED BY <3>1, <3>2
  <2>. QED BY <1>1, <1>2, <2>2, <2>3, <2>4, <2>5, <2>6, <2>7
           DEF LeftoverNext, Next, Step
<1>3. CASE UNCHANGED <<vars, loose>>
  <2>1. UNCHANGED vars /\ loose \subseteq loose' /\ ~LetGo(t)
    BY <1>1, <1>3 DEF vars, memory, history, LetGo, LeftInv
  <2>. QED BY <1>1, <2>1, EnvironmentLeft, LeftStep
<1>. QED BY <1>2, <1>3

(* One caller at a time: when nothing runs, a file, a text or a manifest   *)
(* that no entry names is of a paper that is loose, whatever sequence of   *)
(* calls, failures and crashes led there.                                  *)
THEOREM LeftoversAreAccounted ==
  ASSUME OneThread PROVE LeftoverSpec => []LeftoversAccounted
<1>1. LeftoverInit => AloneInv /\ LeftInv
  <2>1. LeftoverInit => LeftInv
    BY DEF LeftoverInit, Init, LeftInv, Left, FilesLeft, TextsLeft, ManifestsLeft,
           StagedLeft
  <2>. QED BY <2>1, InitAloneInv DEF LeftoverInit
<1>2. AloneInv /\ LeftInv /\ [LeftoverNext]_<<vars, loose>> => (AloneInv /\ LeftInv)'
  <2>. SUFFICES ASSUME AloneInv, LeftInv, [LeftoverNext]_<<vars, loose>>
                PROVE  AloneInv' /\ LeftInv'
    OBVIOUS
  <2>1. [Next]_vars
    BY DEF LeftoverNext
  <2>. QED BY <2>1, NextAloneInv, NextLeftInv
<1>3. LeftInv => LeftoversAccounted
  <2>. SUFFICES ASSUME LeftInv, Quiet PROVE LeftoversAccounted
    BY DEF LeftoversAccounted
  <2>1. PICK t : Threads = {t}
    BY DEF OneThread
  <2>2. ~Puts(t) /\ ~Deleting(t) /\ pc[t] = "idle" /\ Left(t)
    BY <2>1 DEF Quiet, Puts, Deleting, LeftInv
  <2>. QED BY <2>2 DEF LeftoversAccounted, Left, FilesLeft, TextsLeft, ManifestsLeft,
                       StagedLeft, FileInHand, TextInHand, ManifestInHand, StagedInHand
<1>. QED BY <1>1, <1>2, <1>3, PTL DEF LeftoverSpec

=============================================================================
