------------------------------- MODULE Corpus -------------------------------
(***************************************************************************)
(* The paperseed corpus store (crates/paperseed): a directory of files and *)
(* the threads that work on it, of one process (the MCP server) or several *)
(* (the server and the command line).  Operations run concurrently, each a *)
(* sequence of steps; a step is one access to the shared directory.  Only  *)
(* imports, removals and the saving of a lazily extracted text take the    *)
(* write lock of their process, and only for part of their steps.          *)
(*                                                                         *)
(* A paper is its content hash: its id is a prefix of the hash, and its    *)
(* text blob under text/ and its seed manifest are named by it.  A file in *)
(* files/ or .staging/ is named <hash>.<extension>, by the extension of    *)
(* the file the user imported, so that one content may be stored twice.    *)
(* The fields of an entry are the ones the properties tell apart: `title`  *)
(* stands for all the metadata the index stores, `ext` for the file path.  *)
(*                                                                         *)
(* A definition headed "Mistake:" is a wrong version of the one after it,  *)
(* used to see that the properties notice it.                              *)
(***************************************************************************)
EXTENDS Naturals, FiniteSets, CorpusPolicy

CONSTANTS
  Hash,        \* contents, named by their hash
  Exts,        \* extensions of the files users import
  Threads,     \* threads that call the corpus
  Processes,   \* processes that share the directory
  ProcessOf,   \* the process of each thread
  Titles,      \* values of the indexed metadata
  Requests,    \* import and ingest requests a caller may make
  Extraction,  \* what text extraction of a file yields
  Ops,         \* the operations callers use
  YamsEnabled, \* YamsConfig.enabled
  CanDamage,   \* may something outside the program damage a stored file?
  MaxOps,      \* bound: operations started
  MaxFaults,   \* bound: process crashes and failing I/O calls
  Nil,         \* absent, None
  Garbled      \* the text of a damaged file

AllOps == {"import", "text", "remove", "reindex", "search", "seed"}

(* content_addressed_path: the name of a file in files/ or .staging/.      *)
File == Hash \X Exts

Request == [title: Titles, license: LicenseOption, metaLicense: LicenseOption,
            ingest: BOOLEAN, extract: BOOLEAN, ext: Exts]

(* IndexedPaper: hasText is full_text_path.is_some(), yams is              *)
(* yams_hash.is_some(), ext is what file.path adds to the hash.            *)
Entry == [title: Titles, license: License, hasText: BOOLEAN, yams: BOOLEAN,
          ext: Exts]

Text == Hash \cup {Garbled}

(* A document of the BM25F index.                                          *)
Doc == [title: Titles, text: Text \cup {Nil}]

(* The contents of corpus.json and of corpus.idx.bin.                       *)
Corpora == [Hash -> Entry \cup {Nil}]
Indexes == [Hash -> Doc \cup {Nil}]

ASSUME ConstantsAssumption ==
  /\ Requests \subseteq Request
  /\ Extraction \in [File -> {"text", "none", "error"}]
  /\ ProcessOf \in [Threads -> Processes]
  /\ Ops \subseteq AllOps
  /\ YamsEnabled \in BOOLEAN /\ CanDamage \in BOOLEAN
  /\ MaxOps \in Nat /\ MaxFaults \in Nat

ASSUME NilAssumption ==
  /\ Nil \notin Text /\ Nil \notin Threads /\ Nil \notin Request
  /\ Nil \notin Entry /\ Nil \notin Doc
  /\ Nil \notin Corpora /\ Nil \notin Indexes
  /\ Garbled \notin Hash

VARIABLES
  source,     \* the content of the file the user points imports at
  staged,     \* the files under .staging/
  files,      \* state of each file under files/
  blobs,      \* text/<hash>.txt: whose text it holds, or Nil
  db,         \* corpus.json
  dbTmp,      \* corpus.tmp, Nil when missing
  index,      \* corpus.idx.bin, Nil when missing
  idxTmp,     \* corpus.idx.tmp, Nil when missing
  manifests,  \* seeds/<id>.json: the licence it states, or Nil
  lock,       \* CORPUS_WRITE_LOCK of each process: its holder, or Nil
  op,         \* the operation a thread is in
  pc,         \* its next step
  request,    \* the import request it serves
  paper,      \* the paper it works on
  pending,    \* the entry it carries
  text,       \* the text it carries, or Nil
  view,       \* the CorpusDb it loaded and changed in memory
  draft,      \* the Index it built in memory
  acked,      \* history: papers whose import returned Ok, not removed since
  started,    \* history: operations started
  faults      \* history: crashes and I/O failures

memory == <<op, pc, request, paper, pending, text, view, draft>>
disk == <<staged, files, blobs, db, dbTmp, index, idxTmp, manifests>>
history == <<acked, started, faults>>
vars == <<source, disk, lock, memory, history>>

Ids(f) == {h \in Hash : f[h] # Nil}

-----------------------------------------------------------------------------
(* The index: indexing.rs                                                  *)

(* read_full_text fails for an entry whose text blob is gone.              *)
Dangling(v, h) == v[h] # Nil /\ v[h].hasText /\ blobs[h] = Nil

(* build_index gives up at the first entry whose text cannot be read.      *)
BuildFails(v) == \E h \in Hash : Dangling(v, h)

DocOf(v, h) == [title |-> v[h].title,
                text  |-> IF v[h].hasText THEN blobs[h] ELSE Nil]

BuildIndex(v) ==
  [h \in Hash |-> IF v[h] = Nil THEN Nil ELSE DocOf(v, h)]

IndexMatchesCorpus(ix, v, ignored) == Ids(ix) \ ignored = Ids(v) \ ignored

(* Mistake: two corpora of the same size are taken to match.               *)
CanKeepByCount(t) ==
  index # Nil /\ Cardinality(Ids(index)) = Cardinality(Ids(view[t]))

(* persist_upsert keeps a persisted index that matches, else rebuilds.     *)
CanKeepIndex(t) ==
  index # Nil /\ IndexMatchesCorpus(index, view[t], {paper[t]})

UpsertFails(t) ==
  \/ Dangling(view[t], paper[t])
  \/ ~CanKeepIndex(t) /\ BuildFails(view[t])

(* Mistake: a paper that is in the index is not indexed again.             *)
InsertedIndex(t) ==
  LET ix == IF CanKeepIndex(t) THEN index ELSE BuildIndex(view[t])
  IN IF ix[paper[t]] # Nil THEN ix
     ELSE [ix EXCEPT ![paper[t]] = DocOf(view[t], paper[t])]

UpsertedIndex(t) ==
  [ (IF CanKeepIndex(t) THEN index ELSE BuildIndex(view[t]))
      EXCEPT ![paper[t]] = DocOf(view[t], paper[t]) ]

-----------------------------------------------------------------------------
(* Steps of an operation                                                   *)

Goto(t, step) == pc' = [pc EXCEPT ![t] = step]

(* The operation of t returns and its stack is gone.                       *)
Return(t) ==
  /\ op' = [op EXCEPT ![t] = "none"]
  /\ pc' = [pc EXCEPT ![t] = "idle"]
  /\ request' = [request EXCEPT ![t] = Nil]
  /\ paper' = [paper EXCEPT ![t] = Nil]
  /\ pending' = [pending EXCEPT ![t] = Nil]
  /\ text' = [text EXCEPT ![t] = Nil]
  /\ view' = [view EXCEPT ![t] = Nil]
  /\ draft' = [draft EXCEPT ![t] = Nil]

(* Mistake: the lock is taken from whoever has it.                         *)
LockNoWait(t) == lock' = [lock EXCEPT ![ProcessOf[t]] = t]

(* with_corpus_write_lock: a static Mutex, so one lock per process.  The   *)
(* guard is dropped on any return.                                         *)
Lock(t) ==
  /\ lock[ProcessOf[t]] = Nil
  /\ lock' = [lock EXCEPT ![ProcessOf[t]] = t]

Unlock(t) ==
  lock' = [lock EXCEPT ![ProcessOf[t]] = IF @ = t THEN Nil ELSE @]

Start(t, o) ==
  /\ pc[t] = "idle" /\ o \in Ops /\ started < MaxOps
  /\ op' = [op EXCEPT ![t] = o]
  /\ started' = started + 1
  /\ UNCHANGED <<acked, faults>>

-----------------------------------------------------------------------------
(* import and ingest                                                       *)

(* The name of the file that t imports, in .staging/ and in files/.        *)
Imported(t) == <<paper[t], request[t].ext>>

(* The file that the entry t carries has in files/.                        *)
Stored(t) == <<paper[t], pending[t].ext>>

(* copy_and_describe_file copies and hashes the source in one pass, then   *)
(* moves the copy to .staging/, or drops it if that file is there.         *)
BeginImport(t) ==
  /\ Start(t, "import")
  /\ \E r \in Requests :
       /\ request' = [request EXCEPT ![t] = r]
       /\ Goto(t, IF r.extract THEN "extract" ELSE "place")
       /\ staged' = staged \cup {<<source, r.ext>>}
  /\ paper' = [paper EXCEPT ![t] = source]
  /\ UNCHANGED <<source, files, blobs, db, dbTmp, index, idxTmp, manifests, lock,
                 pending, text, view, draft>>

(* Mistake: the text is read from the user's file.                         *)
TextOfSource(t) ==
  IF Extraction[<<source, request[t].ext>>] = "text" THEN source ELSE Nil

StagedText(t) == IF Extraction[Imported(t)] = "text" THEN paper[t] ELSE Nil

(* prepare_local_file reads the text from the staged copy.  When that      *)
(* fails the staged file is deleted and the import fails.                  *)
ExtractStaged(t) ==
  /\ pc[t] = "extract"
  /\ LET f == Imported(t) IN
       IF f \in staged /\ Extraction[f] # "error"
       THEN /\ text' = [text EXCEPT ![t] = StagedText(t)]
            /\ Goto(t, "place")
            /\ UNCHANGED <<staged, op, request, paper, pending, view, draft>>
       ELSE /\ staged' = staged \ {f}
            /\ Return(t)
  /\ UNCHANGED <<source, files, blobs, db, dbTmp, index, idxTmp, manifests, lock,
                 history>>

(* The staged copy moves to files/, or is dropped when a file of that name *)
(* is already there; either call fails when another import of the same     *)
(* content has taken the staged file away.  Only now is the licence        *)
(* checked.  With YAMS on, the paper is offered to YAMS, which may refuse. *)
Place(t) ==
  /\ pc[t] = "place"
  /\ LET f == Imported(t) IN
       /\ staged' = staged \ {f}
       /\ files' = [files EXCEPT ![f] =
                      IF f \in staged /\ @ = "absent" THEN "intact" ELSE @]
       /\ IF f \in staged
             /\ Allowed("StorePrivate", CheckedLicense(request[t]))
          THEN /\ \E y \in (IF YamsEnabled THEN BOOLEAN ELSE {FALSE}) :
                    pending' = [pending EXCEPT ![t] =
                                  [title   |-> request[t].title,
                                   license |-> StoredLicense(request[t]),
                                   hasText |-> text[t] # Nil,
                                   yams    |-> y,
                                   ext     |-> request[t].ext]]
               /\ request' = [request EXCEPT ![t] = Nil]
               /\ Goto(t, "lock")
               /\ UNCHANGED <<op, paper, text, view, draft>>
          ELSE Return(t)
  /\ UNCHANGED <<source, blobs, db, dbTmp, index, idxTmp, manifests, lock, history>>

(* Mistake: corpus.json is saved without the text being externalized.      *)
SaveAtOnce(t) == "save"

(* A text that the entry carries is written before the corpus is saved.    *)
AfterUpsert(t) == IF text[t] # Nil THEN "blob" ELSE "save"

(* persist_entry and persist_full_text: under the lock, load the corpus    *)
(* and put the entry in the place of whatever has the same hash.           *)
LockAndUpsert(t) ==
  /\ pc[t] = "lock"
  /\ Lock(t)
  /\ view' = [view EXCEPT ![t] = [db EXCEPT ![paper[t]] = pending[t]]]
  /\ Goto(t, AfterUpsert(t))
  /\ UNCHANGED <<source, disk, op, request, paper, pending, text, draft,
                 history>>

(* externalize_full_text: every other entry already has its text in a blob *)
WriteBlob(t) ==
  /\ pc[t] = "blob"
  /\ blobs' = [blobs EXCEPT ![paper[t]] = text[t]]
  /\ Goto(t, "save")
  /\ UNCHANGED <<source, staged, files, db, dbTmp, index, idxTmp, manifests,
                 lock,
                 op, request, paper, pending, text, view, draft, history>>

(* CorpusDb::save: the new corpus is written to corpus.tmp, a name all     *)
(* writers share, and renamed over corpus.json.                            *)
WriteDbTmp(t) ==
  /\ pc[t] = "save"
  /\ dbTmp' = view[t]
  /\ Goto(t, "commit")
  /\ UNCHANGED <<source, staged, files, blobs, db, index, idxTmp, manifests,
                 lock, op, request, paper, pending, text, view, draft, history>>

(* The rename fails when a writer of another process has renamed the file  *)
(* first.                                                                  *)
RenameDb(t) ==
  /\ pc[t] = "commit"
  /\ dbTmp' = Nil
  /\ IF dbTmp = Nil
     THEN /\ Return(t) /\ Unlock(t)
          /\ UNCHANGED <<db, acked>>
     ELSE /\ db' = dbTmp
          /\ acked' = IF op[t] = "remove" THEN acked \ {paper[t]} ELSE acked
          /\ Goto(t, IF op[t] = "remove" THEN "build" ELSE "upsert")
          /\ UNCHANGED <<lock, op, request, paper, pending, text, view, draft>>
  /\ UNCHANGED <<source, staged, files, blobs, index, idxTmp, manifests,
                 started, faults>>

(* persist_upsert, up to Index::save.                                      *)
UpsertIndex(t) ==
  /\ pc[t] = "upsert"
  /\ IF UpsertFails(t)
     THEN Return(t) /\ Unlock(t)
     ELSE /\ draft' = [draft EXCEPT ![t] = UpsertedIndex(t)]
          /\ Goto(t, "write")
          /\ UNCHANGED <<lock, op, request, paper, pending, text, view>>
  /\ UNCHANGED <<source, disk, history>>

(* persist_index, and the rebuild of a search, up to Index::save.          *)
RebuildIndex(t) ==
  /\ pc[t] = "build"
  /\ IF BuildFails(view[t])
     THEN Return(t) /\ Unlock(t)
     ELSE /\ draft' = [draft EXCEPT ![t] = BuildIndex(view[t])]
          /\ Goto(t, "write")
          /\ UNCHANGED <<lock, op, request, paper, pending, text, view>>
  /\ UNCHANGED <<source, disk, history>>

(* Index::save: every saver, locked or not, uses the same temporary name.  *)
WriteIndexTmp(t) ==
  /\ pc[t] = "write"
  /\ idxTmp' = draft[t]
  /\ Goto(t, "rename")
  /\ UNCHANGED <<source, staged, files, blobs, db, dbTmp, index, manifests, lock,
                 op, request, paper, pending, text, view, draft, history>>

(* The rename fails when another saver has renamed the file first.  After  *)
(* it the lock is released: an import is done and returns Ok, a removal    *)
(* goes on to delete the paper's files.                                    *)
RenameIndex(t) ==
  /\ pc[t] = "rename"
  /\ idxTmp' = Nil
  /\ index' = IF idxTmp = Nil THEN index ELSE idxTmp
  /\ Unlock(t)
  /\ acked' = IF op[t] = "import" /\ idxTmp # Nil
              THEN acked \cup {paper[t]} ELSE acked
  /\ IF op[t] = "remove" /\ idxTmp # Nil
     THEN /\ Goto(t, "rmfile")
          /\ view' = [view EXCEPT ![t] = Nil]
          /\ draft' = [draft EXCEPT ![t] = Nil]
          /\ UNCHANGED <<op, request, paper, pending, text>>
     ELSE Return(t)
  /\ UNCHANGED <<source, staged, files, blobs, db, dbTmp, manifests, started,
                 faults>>

-----------------------------------------------------------------------------
(* get_full_text                                                           *)

(* The corpus is loaded without the lock; an unknown paper is an error.    *)
BeginText(t) ==
  /\ Start(t, "text")
  /\ \E h \in Ids(db) :
       /\ paper' = [paper EXCEPT ![t] = h]
       /\ pending' = [pending EXCEPT ![t] = db[h]]
  /\ Goto(t, "read")
  /\ UNCHANGED <<source, disk, lock, request, text, view, draft>>

(* The blob is returned, or cannot be read, which is an error.             *)
ReadBlob(t) ==
  /\ pc[t] = "read" /\ pending[t].hasText
  /\ Return(t)
  /\ UNCHANGED <<source, disk, lock, history>>

(* What extract_full_text may return for a stored file.                    *)
ExtractedFromFile(f) ==
  IF files[f] = "intact" /\ Extraction[f] = "text" THEN {f[1]}
  ELSE IF files[f] = "damaged" THEN {Garbled, Nil} ELSE {Nil}

(* No text yet: YAMS is asked, then the stored file.  The entry read at    *)
(* the start, with the text in it, goes to persist_full_text.              *)
FetchText(t) ==
  /\ pc[t] = "read" /\ ~pending[t].hasText
  /\ LET fromYams == IF YamsEnabled /\ pending[t].yams THEN {paper[t]} ELSE {}
     IN \E x \in fromYams \cup ExtractedFromFile(Stored(t)) :
          IF x # Nil
          THEN /\ text' = [text EXCEPT ![t] = x]
               /\ pending' = [pending EXCEPT ![t].hasText = TRUE]
               /\ Goto(t, "lock")
               /\ UNCHANGED <<op, request, paper, view, draft>>
          ELSE Return(t)
  /\ UNCHANGED <<source, disk, lock, history>>

-----------------------------------------------------------------------------
(* remove_entry                                                            *)

(* Mistake: papers are compared by title.                                  *)
WithoutTitle(v, h) ==
  [g \in Hash |-> IF v[g] # Nil /\ v[g].title = v[h].title THEN Nil ELSE v[g]]

(* papers.retain: every entry but the ones with this hash                  *)
Without(v, h) == [v EXCEPT ![h] = Nil]

(* An unknown paper is an error; the lock is dropped and nothing changes.  *)
BeginRemove(t) ==
  /\ Start(t, "remove")
  /\ Lock(t)
  /\ \E h \in Ids(db) :
       /\ paper' = [paper EXCEPT ![t] = h]
       /\ pending' = [pending EXCEPT ![t] = db[h]]
       /\ view' = [view EXCEPT ![t] = Without(db, h)]
  /\ Goto(t, "save")
  /\ UNCHANGED <<source, disk, request, text, draft>>

(* Mistake: the text blob is forgotten.                                    *)
SkipBlob(t) == "rmseed"

AfterFile(t) == IF pending[t].hasText THEN "rmblob" ELSE "rmseed"

(* After the lock is released: the file that the removed entry named, then *)
(* the blob it named, then the manifest.  A missing file is no error.      *)
RemoveFile(t) ==
  /\ pc[t] = "rmfile"
  /\ files' = [files EXCEPT ![Stored(t)] = "absent"]
  /\ Goto(t, AfterFile(t))
  /\ UNCHANGED <<source, staged, blobs, db, dbTmp, index, idxTmp, manifests, lock,
                 op, request, paper, pending, text, view, draft, history>>

RemoveBlob(t) ==
  /\ pc[t] = "rmblob"
  /\ blobs' = [blobs EXCEPT ![paper[t]] = Nil]
  /\ Goto(t, "rmseed")
  /\ UNCHANGED <<source, staged, files, db, dbTmp, index, idxTmp, manifests,
                 lock,
                 op, request, paper, pending, text, view, draft, history>>

RemoveManifest(t) ==
  /\ pc[t] = "rmseed"
  /\ manifests' = [manifests EXCEPT ![paper[t]] = Nil]
  /\ Return(t)
  /\ UNCHANGED <<source, staged, files, blobs, db, dbTmp, index, idxTmp, lock,
                 history>>

-----------------------------------------------------------------------------
(* reindex, and a search that finds no readable index: no lock             *)

BeginReindex(t) ==
  /\ Start(t, "reindex")
  /\ view' = [view EXCEPT ![t] = db]
  /\ Goto(t, "build")
  /\ UNCHANGED <<source, disk, lock, request, paper, pending, text, draft>>

BeginSearch(t) ==
  /\ Start(t, "search")
  /\ view' = [view EXCEPT ![t] = db]
  /\ Goto(t, "probe")
  /\ UNCHANGED <<source, disk, lock, request, paper, pending, text, draft>>

SearchIndex(t) ==
  /\ pc[t] = "probe"
  /\ IF index # Nil
     THEN Return(t)
     ELSE /\ Goto(t, "build")
          /\ UNCHANGED <<op, request, paper, pending, text, view, draft>>
  /\ UNCHANGED <<source, disk, lock, history>>

-----------------------------------------------------------------------------
(* seed create                                                             *)

(* seed_check, on a first load of the corpus.                              *)
BeginSeed(t) ==
  /\ Start(t, "seed")
  /\ \E h \in Ids(db) :
       /\ Allowed("SeedRedistribute", db[h].license)
       /\ paper' = [paper EXCEPT ![t] = h]
  /\ Goto(t, "reload")
  /\ UNCHANGED <<source, disk, lock, request, pending, text, view, draft>>

(* The entry the manifest is made from comes from a second load.           *)
ReloadForSeed(t) ==
  /\ pc[t] = "reload"
  /\ IF db[paper[t]] # Nil
     THEN /\ pending' = [pending EXCEPT ![t] = db[paper[t]]]
          /\ Goto(t, "verify")
          /\ UNCHANGED <<op, request, paper, text, view, draft>>
     ELSE Return(t)
  /\ UNCHANGED <<source, disk, lock, history>>

(* hash_file: a missing or damaged file is refused.                        *)
VerifyForSeed(t) ==
  /\ pc[t] = "verify"
  /\ IF files[Stored(t)] = "intact"
     THEN /\ Goto(t, "manifest")
          /\ UNCHANGED <<op, request, paper, pending, text, view, draft>>
     ELSE Return(t)
  /\ UNCHANGED <<source, disk, lock, history>>

WriteManifest(t) ==
  /\ pc[t] = "manifest"
  /\ manifests' = [manifests EXCEPT ![paper[t]] = pending[t].license]
  /\ Return(t)
  /\ UNCHANGED <<source, staged, files, blobs, db, dbTmp, index, idxTmp, lock,
                 history>>

-----------------------------------------------------------------------------
(* The surroundings                                                        *)

(* The user replaces the file that imports read.                           *)
ReplaceSource ==
  /\ \E h \in Hash : source' = h
  /\ UNCHANGED <<disk, lock, memory, history>>

(* Something outside the program changes the bytes of a stored file.       *)
Damage ==
  /\ CanDamage
  /\ \E f \in File : files[f] = "intact"
                     /\ files' = [files EXCEPT ![f] = "damaged"]
  /\ UNCHANGED <<source, staged, blobs, db, dbTmp, index, idxTmp, manifests, lock,
                 memory, history>>

(* Mistake: the error is returned with the lock held.                      *)
FailLocked(t) ==
  /\ pc[t] # "idle" /\ faults < MaxFaults
  /\ faults' = faults + 1
  /\ Return(t)
  /\ UNCHANGED <<source, disk, lock, acked, started>>

(* An I/O call of t fails before it has an effect: `?` returns the error.  *)
FailIo(t) ==
  /\ pc[t] # "idle" /\ faults < MaxFaults
  /\ faults' = faults + 1
  /\ Return(t) /\ Unlock(t)
  /\ UNCHANGED <<source, disk, acked, started>>

(* A process dies and is started again: the directory is what is left.     *)
Crash(p) ==
  LET Reset(f, idle) ==
        [t \in Threads |-> IF ProcessOf[t] = p THEN idle ELSE f[t]]
  IN
  /\ faults < MaxFaults
  /\ faults' = faults + 1
  /\ lock' = [lock EXCEPT ![p] = Nil]
  /\ op' = Reset(op, "none")
  /\ pc' = Reset(pc, "idle")
  /\ request' = Reset(request, Nil)
  /\ paper' = Reset(paper, Nil)
  /\ pending' = Reset(pending, Nil)
  /\ text' = Reset(text, Nil)
  /\ view' = Reset(view, Nil)
  /\ draft' = Reset(draft, Nil)
  /\ UNCHANGED <<source, disk, acked, started>>

-----------------------------------------------------------------------------
Init ==
  /\ source \in Hash
  /\ staged = {}
  /\ files = [f \in File |-> "absent"]
  /\ blobs = [h \in Hash |-> Nil]
  /\ db = [h \in Hash |-> Nil]
  /\ dbTmp = Nil
  /\ index = Nil
  /\ idxTmp = Nil
  /\ manifests = [h \in Hash |-> Nil]
  /\ lock = [p \in Processes |-> Nil]
  /\ op = [t \in Threads |-> "none"]
  /\ pc = [t \in Threads |-> "idle"]
  /\ request = [t \in Threads |-> Nil]
  /\ paper = [t \in Threads |-> Nil]
  /\ pending = [t \in Threads |-> Nil]
  /\ text = [t \in Threads |-> Nil]
  /\ view = [t \in Threads |-> Nil]
  /\ draft = [t \in Threads |-> Nil]
  /\ acked = {}
  /\ started = 0
  /\ faults = 0

Begin(t) ==
  BeginImport(t) \/ BeginText(t) \/ BeginRemove(t) \/ BeginReindex(t)
    \/ BeginSearch(t) \/ BeginSeed(t)

ImportStep(t) == ExtractStaged(t) \/ Place(t)
TextStep(t) == ReadBlob(t) \/ FetchText(t)
PersistStep(t) ==
  LockAndUpsert(t) \/ WriteBlob(t) \/ WriteDbTmp(t) \/ RenameDb(t) \/ UpsertIndex(t)
    \/ RebuildIndex(t) \/ WriteIndexTmp(t) \/ RenameIndex(t)
RemoveStep(t) == RemoveFile(t) \/ RemoveBlob(t) \/ RemoveManifest(t)
SeedStep(t) == ReloadForSeed(t) \/ VerifyForSeed(t) \/ WriteManifest(t)

(* A step of an operation that is under way.                               *)
Step(t) ==
  ImportStep(t) \/ TextStep(t) \/ PersistStep(t) \/ RemoveStep(t)
    \/ SearchIndex(t) \/ SeedStep(t)

Environment == ReplaceSource \/ Damage \/ \E p \in Processes : Crash(p)

Next ==
  \/ \E t \in Threads : Begin(t) \/ Step(t) \/ FailIo(t)
  \/ Environment

Spec == Init /\ [][Next]_vars

(* The scheduler runs every thread that can run.                           *)
FairSpec == Spec /\ \A t \in Threads : WF_vars(Step(t))

=============================================================================
