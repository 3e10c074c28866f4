-------------------------- MODULE CorpusProperties --------------------------
(***************************************************************************)
(* What is asked of the corpus store.                                      *)
(***************************************************************************)
EXTENDS Corpus

Steps == {"idle", "extract", "place", "lock", "blob", "save", "commit", "upsert",
          "build", "write", "rename", "read", "rmfile", "rmblob", "rmseed",
          "probe", "reload", "verify", "manifest"}

DiskOK ==
  /\ source \in Hash
  /\ staged \subseteq File
  /\ files \in [File -> {"absent", "intact", "damaged"}]
  /\ blobs \in [Hash -> Text \cup {Nil}]
  /\ db \in Corpora
  /\ dbTmp \in Corpora \cup {Nil}
  /\ index \in Indexes \cup {Nil}
  /\ idxTmp \in Indexes \cup {Nil}
  /\ manifests \in [Hash -> License \cup {Nil}]

MemoryOK ==
  /\ lock \in [Processes -> Threads \cup {Nil}]
  /\ op \in [Threads -> AllOps \cup {"none"}]
  /\ pc \in [Threads -> Steps]
  /\ request \in [Threads -> Requests \cup {Nil}]
  /\ paper \in [Threads -> Hash \cup {Nil}]
  /\ pending \in [Threads -> Entry \cup {Nil}]
  /\ text \in [Threads -> Text \cup {Nil}]
  /\ view \in [Threads -> Corpora \cup {Nil}]
  /\ draft \in [Threads -> Indexes \cup {Nil}]

HistoryOK ==
  /\ acked \subseteq Hash
  /\ started \in 0..MaxOps
  /\ faults \in 0..MaxFaults

(* Every variable holds a value of its kind.                               *)
TypeOK == DiskOK /\ MemoryOK /\ HistoryOK

Writers == {"import", "text", "remove"}

(* t is inside the closure given to with_corpus_write_lock.                *)
Critical(t) ==
  \/ pc[t] \in {"blob", "save", "commit", "upsert"}
  \/ pc[t] \in {"build", "write", "rename"} /\ op[t] \in Writers

Quiet == \A t \in Threads : pc[t] = "idle"

-----------------------------------------------------------------------------
(* The corpus file                                                         *)

(* The corpus a writer is about to save is the one on disk but for its own *)
(* paper: whatever the interleaving, crash or error, saving the whole file *)
(* (CorpusDb::save) undoes no other write.                                 *)
SnapshotCurrent ==
  \A t \in Threads : pc[t] \in {"blob", "save", "commit"} =>
    \A h \in Hash \ {paper[t]} : view[t][h] = db[h]

(* A paper whose import returned Ok is in the corpus until it is removed:  *)
(* concurrent imports, failed calls and restarts lose no entry.            *)
NoLostImport == acked \subseteq Ids(db)

(* The store implements the catalogue: each write of corpus.json is one    *)
(* put or one delete of one paper.                                         *)
Catalog == INSTANCE CorpusCatalog WITH catalog <- db
CatalogSpec == Catalog!Spec

-----------------------------------------------------------------------------
(* The files an entry points to                                            *)

(* The text stored for a paper was extracted from the bytes of that paper, *)
(* even if the user replaces the source file in the middle of an import.   *)
TextOfPaper == \A h \in Hash : blobs[h] \in {h, Garbled, Nil}

(* What an entry points to exists: the file under its name, and the text   *)
(* blob if it names one, whatever failed or crashed before, for callers    *)
(* who take turns.  Both are on disk before corpus.json is saved, and go   *)
(* after it: otherwise the paper cannot be read, and build_index fails for *)
(* the whole corpus.                                                       *)
FilesMatchEntries ==
  \A h \in Ids(db) : files[<<h, db[h].ext>>] # "absent" /\ ~Dangling(db, h)

-----------------------------------------------------------------------------
(* The index                                                               *)

(* When a locked writer has renamed its index into place, the index holds  *)
(* exactly the ids of the corpus, whatever failed or crashed before.       *)
PersistedIndexTracksMembership ==
  [][\A t \in Threads :
       Critical(t) /\ pc[t] = "rename" /\ idxTmp # Nil /\ RenameIndex(t)
         => Ids(index') = Ids(db')]_vars

-----------------------------------------------------------------------------
(* Progress                                                                *)

(* Every operation returns: no failure path keeps the write lock, and no   *)
(* thread waits for ever.                                                  *)
EveryOperationReturns ==
  \A t \in Threads : pc[t] # "idle" ~> pc[t] = "idle"

=============================================================================
