------------------------------ MODULE IndexFile ------------------------------
(***************************************************************************)
(* corpus.idx.bin and the index decoded from it that a process keeps       *)
(* (crates/paperseed/src/indexing.rs).  Threads of one process import and  *)
(* remove under the write lock, and rebuild and search without it, each a  *)
(* sequence of steps.  corpus.json is changed at once here: its own steps  *)
(* are in Corpus.  The index is written beside the old one, under one name *)
(* that all who save share, and renamed: who opens it last empties what    *)
(* another has written, who renames it puts in place whatever it holds,    *)
(* and a writer whose file was renamed meanwhile writes where it went.  A  *)
(* search ends with the index it answers from; what a query finds in it is *)
(* Search.                                                                 *)
(*                                                                         *)
(* `behind` and `stamps` are no program state: the papers whose document   *)
(* may be older than the corpus because a save failed or an index of an    *)
(* older corpus was put in place, and the stamp of every version of the    *)
(* file, by which a version is named.                                      *)
(***************************************************************************)
EXTENDS PaperIndex

CONSTANTS
  Ids,       \* paper ids
  Tokens,    \* the terms that the tokenizer makes
  Texts,     \* what papers say, by field
  Threads,   \* threads of the process
  MaxTime,   \* bound: ticks of the file system's clock
  MaxOps,    \* bound: operations started
  MaxFaults, \* bound: failing saves and files damaged from outside
  Nil,       \* None, absent
  Broken     \* what Index::load refuses

ASSUME BoundsAssumption ==
  /\ MaxTime \in Nat /\ MaxOps \in Nat /\ MaxFaults \in Nat
  /\ Nil # Broken

ASSUME TextsAssumption ==
  /\ Texts \subseteq [Fields -> Seq(Tokens)]
  /\ Nil \notin Texts

VARIABLES
  corpus,  \* CorpusDb::papers: documents
  file,    \* corpus.idx.bin: an index, Broken or Nil
  tmp,     \* the temporary file and the papers its index was made from, or Nil
  handles, \* where the file is by now that a thread has open for writing
  cache,   \* INDEX_CACHE
  threads, \* what each thread holds
  time, ops, faults, behind, stamps

disk == <<file, tmp, handles, behind, stamps>>
vars == <<corpus, disk, cache, threads, time, ops, faults>>

Idle == [at |-> "idle"]

IdsOf(documents) == {documents[i].id : i \in DOMAIN documents}
TextOf(documents, id) ==
  IF id \in IdsOf(documents) THEN documents[Position([i \in DOMAIN documents |-> documents[i].id], id)].text
  ELSE Nil

Version == Len(stamps)

(* The length of an encoded index grows with what it holds.                *)
LengthOf(index) ==
  Len(index.ids) + FoldFunction(LAMBDA list, sum : Len(list) + sum, 0, index.postings)

(* IndexFileStamp of a file that is written now, over one of that length.  *)
Stamp(index, before) ==
  [modified |-> time, len |-> IF index = Broken THEN before ELSE Max({LengthOf(index), before})]

IsIndex(content) == content \notin {Nil, Broken}

----------------------------------------------------------------------------
At(t, step) == threads[t].at = step
Becomes(t, state) == threads' = [threads EXCEPT ![t] = state]
Starts == ops < MaxOps /\ ops' = ops + 1
Saving == {"save", "write", "rename"}
Unlocked == \A t \in Threads :
  threads[t].at # "load" /\ (threads[t].at \in Saving => threads[t].by # "writer")

(* A thread that saves an index: made from which papers, behind in which,  *)
(* and by whom: a writer has the lock, a search answers afterwards.        *)
Saver(step, by, papers, since, index, late) ==
  [at |-> step, by |-> by, papers |-> papers, since |-> since, index |-> index, behind |-> late]

(* CorpusDb::upsert: in its place, or at the end.                          *)
Upserted(document) ==
  LET i == Position([j \in DOMAIN corpus |-> corpus[j].id], document.id)
  IN IF i = 0 THEN Append(corpus, document) ELSE [corpus EXCEPT ![i] = document]

Import(t, document) ==
  /\ At(t, "idle") /\ Unlocked /\ Starts
  /\ corpus' = Upserted(document)
  /\ behind' = behind \cup {document.id}
  /\ Becomes(t, [at |-> "load", document |-> document])
  /\ UNCHANGED <<file, tmp, handles, cache, time, faults, stamps>>

(* persist_upsert keeps an index of the same ids but for the pending one.  *)
IndexMatchesCorpus(index, pending) ==
  ToSet(index.ids) \ pending = IdsOf(corpus) \ pending

LoadBase(t) ==
  LET document == threads[t].document
      keeps == IsIndex(file) /\ IndexMatchesCorpus(file, {document.id})
      base == IF keeps THEN file ELSE Build(corpus)
  IN /\ At(t, "load")
     /\ Becomes(t, Saver("save", "writer", corpus, 0, UpsertDocument(base, document),
                          IF keeps THEN behind \ {document.id} ELSE {}))
     /\ UNCHANGED <<corpus, disk, cache, time, ops, faults>>

(* remove_entry saves the corpus, then an index built from it.             *)
RemoveEntry(t, id) ==
  LET left == Retained(corpus, {i \in DOMAIN corpus : corpus[i].id # id})
  IN /\ At(t, "idle") /\ Unlocked /\ Starts
     /\ id \in IdsOf(corpus)
     /\ corpus' = left
     /\ behind' = behind \cup {id}
     /\ Becomes(t, Saver("save", "writer", left, 0, Build(left), {}))
     /\ UNCHANGED <<file, tmp, handles, cache, time, faults, stamps>>

(* reindex takes no lock.                                                  *)
Reindex(t) ==
  /\ At(t, "idle") /\ Starts
  /\ Becomes(t, Saver("save", "reindex", corpus, 0, Build(corpus), {}))
  /\ UNCHANGED <<corpus, disk, cache, time, faults>>

ChangedSince(papers) == {id \in Ids : TextOf(papers, id) # TextOf(corpus, id)}

(* The file gets another content, which was made from other papers than    *)
(* the corpus lists by now in those that have changed.                     *)
Put(content, stamp, papers, late) ==
  /\ file' = content
  /\ stamps' = Append(stamps, stamp)
  /\ behind' = late \cup ChangedSince(papers)

(* Index::save: fs::write opens and empties the temporary file,            *)
OpenTmp(t) ==
  LET x == threads[t]
  IN /\ At(t, "save")
     /\ tmp' = [index |-> Broken, stamp |-> Stamp(Broken, 0), papers |-> <<>>, behind |-> {}]
     /\ handles' = [handles EXCEPT ![t] = "tmp"]
     /\ Becomes(t, Saver("write", x.by, x.papers, x.since, x.index, x.behind))
     /\ UNCHANGED <<corpus, file, cache, time, ops, faults, behind, stamps>>

(* and writes into it, wherever it is by now;                              *)
Write(t) ==
  LET x == threads[t]
  IN /\ At(t, "write")
     /\ Becomes(t, Saver("rename", x.by, x.papers, x.since, x.index, x.behind))
     /\ handles' = [handles EXCEPT ![t] = "closed"]
     /\ \/ /\ handles[t] = "tmp"
           /\ tmp' = [index |-> x.index, stamp |-> Stamp(x.index, tmp.stamp.len),
                      papers |-> x.papers, behind |-> x.behind]
           /\ UNCHANGED <<file, behind, stamps>>
        \/ /\ handles[t] = "file"
           /\ Put(x.index, Stamp(x.index, stamps[Version].len), x.papers, x.behind)
           /\ UNCHANGED tmp
        \/ /\ handles[t] = "unlinked"
           /\ UNCHANGED <<file, tmp, behind, stamps>>
     /\ UNCHANGED <<corpus, cache, time, ops, faults>>

(* The file in place is unlinked, by a rename over it or from outside; a   *)
(* rename also puts the temporary file in its place.                       *)
Unlinked(handle) == IF handle = "file" THEN "unlinked" ELSE handle
Moved(handle) == IF handle = "tmp" THEN "file" ELSE Unlinked(handle)

(* the rename puts what the temporary file holds in place; the search that *)
(* found no index answers from the one it built.                           *)
Rename(t) ==
  LET x == threads[t]
  IN /\ At(t, "rename") /\ tmp # Nil
     /\ Put(tmp.index, tmp.stamp, tmp.papers, tmp.behind)
     /\ tmp' = Nil
     /\ handles' = [u \in Threads |-> Moved(handles[u])]
     /\ Becomes(t, IF x.by = "search"
                   THEN [at |-> "answer", papers |-> x.papers, since |-> x.since,
                         index |-> x.index, version |-> Version + 1]
                   ELSE Idle)
     /\ UNCHANGED <<corpus, cache, time, ops, faults>>

(* Another has renamed the file: the operation fails.                      *)
RenameFails(t) ==
  /\ At(t, "rename") /\ tmp = Nil
  /\ Becomes(t, Idle)
  /\ UNCHANGED <<corpus, disk, cache, time, ops, faults>>

SaveFails(t) ==
  /\ threads[t].at \in Saving
  /\ faults < MaxFaults /\ faults' = faults + 1
  /\ handles' = [handles EXCEPT ![t] = "closed"]
  /\ Becomes(t, Idle)
  /\ UNCHANGED <<corpus, file, tmp, cache, time, ops, behind, stamps>>

----------------------------------------------------------------------------
(* A search: the corpus is read, the file's stamp is taken, the cache is   *)
(* looked up, the file is read if need be, and the cache is filled.        *)

Ask(t) ==
  /\ At(t, "idle") /\ Starts
  /\ Becomes(t, [at |-> "stamp", papers |-> corpus, since |-> Version])
  /\ UNCHANGED <<corpus, disk, cache, time, faults>>

TakeStamp(t) ==
  /\ At(t, "stamp")
  /\ Becomes(t, [at |-> "look up", papers |-> threads[t].papers, since |-> threads[t].since,
                 stamp |-> IF file = Nil THEN Nil ELSE stamps[Version]])
  /\ UNCHANGED <<corpus, disk, cache, time, ops, faults>>

Answering(t, index, version) ==
  [at |-> "answer", papers |-> threads[t].papers, since |-> threads[t].since,
   index |-> index, version |-> version]

SameFile(cached, stamp) == cached.stamp = stamp

LookUp(t) ==
  LET stamp == threads[t].stamp
      hit == stamp # Nil /\ cache # Nil /\ SameFile(cache, stamp)
  IN /\ At(t, "look up")
     /\ Becomes(t, IF hit THEN Answering(t, cache.index, cache.version)
                   ELSE [threads[t] EXCEPT !.at = "read"])
     /\ UNCHANGED <<corpus, disk, cache, time, ops, faults>>

Load(t) ==
  /\ At(t, "read") /\ IsIndex(file)
  /\ Becomes(t, [at |-> "fill", stamp |-> threads[t].stamp,
                 answering |-> Answering(t, file, Version)])
  /\ UNCHANGED <<corpus, disk, cache, time, ops, faults>>

(* An index that is missing or refused is built from the corpus that was   *)
(* read, and saved.                                                        *)
LoadFails(t) ==
  /\ At(t, "read") /\ ~IsIndex(file)
  /\ Becomes(t, Saver("save", "search", threads[t].papers, threads[t].since,
                       Build(threads[t].papers), {}))
  /\ UNCHANGED <<corpus, disk, cache, time, ops, faults>>

(* Mistake: the stamp is taken when the index has been read.               *)
FillLate(t) ==
  /\ At(t, "fill")
  /\ cache' = [stamp |-> stamps[Version], index |-> threads[t].answering.index,
               version |-> threads[t].answering.version]
  /\ Becomes(t, threads[t].answering)
  /\ UNCHANGED <<corpus, disk, time, ops, faults>>

Fill(t) ==
  /\ At(t, "fill")
  /\ cache' = IF threads[t].stamp = Nil THEN cache
              ELSE [stamp |-> threads[t].stamp, index |-> threads[t].answering.index,
                    version |-> threads[t].answering.version]
  /\ Becomes(t, threads[t].answering)
  /\ UNCHANGED <<corpus, disk, time, ops, faults>>

Answer(t) ==
  /\ At(t, "answer")
  /\ Becomes(t, Idle)
  /\ UNCHANGED <<corpus, disk, cache, time, ops, faults>>

----------------------------------------------------------------------------
(* Outside: the clock, and whatever damages or deletes the file.           *)
Tick ==
  /\ time < MaxTime /\ time' = time + 1
  /\ UNCHANGED <<corpus, disk, cache, threads, ops, faults>>

Damage ==
  /\ file # Nil
  /\ faults < MaxFaults /\ faults' = faults + 1
  /\ \/ /\ file' = Broken /\ stamps' = Append(stamps, Stamp(Broken, 0))
        /\ UNCHANGED handles
     \/ /\ file' = Nil /\ UNCHANGED stamps
        /\ handles' = [u \in Threads |-> Unlinked(handles[u])]
  /\ UNCHANGED <<corpus, tmp, cache, threads, time, ops, behind>>

Init ==
  /\ corpus = <<>> /\ file = Nil /\ cache = Nil
  /\ tmp = Nil /\ handles = [t \in Threads |-> "closed"]
  /\ threads = [t \in Threads |-> Idle]
  /\ time = 0 /\ ops = 0 /\ faults = 0
  /\ behind = {} /\ stamps = <<>>

Next ==
  \/ \E t \in Threads :
       \/ \E id \in Ids, text \in Texts : Import(t, [id |-> id, text |-> text])
       \/ \E id \in Ids : RemoveEntry(t, id)
       \/ Reindex(t) \/ LoadBase(t)
       \/ OpenTmp(t) \/ Write(t) \/ Rename(t) \/ RenameFails(t) \/ SaveFails(t)
       \/ Ask(t) \/ TakeStamp(t) \/ LookUp(t) \/ Load(t) \/ LoadFails(t) \/ Fill(t) \/ Answer(t)
  \/ Tick \/ Damage

Spec == Init /\ [][Next]_vars

-----------------------------------------------------------------------------
CONSTANT Queries  \* sets of terms that are looked for

(* Whatever sequence of upserts, rebuilds, failures and damage led to it,  *)
(* an index that the program put in place is one that it will read, and a  *)
(* query finds in it each paper that is not behind by the terms of its     *)
(* present text and no others: the upsert of a finished index forgets the  *)
(* old text and leaves the other papers alone.  With no paper behind, its  *)
(* averages are those of the corpus.                                       *)
IndexMirrorsCorpus ==
  IsIndex(file) =>
    /\ Valid(file)
    /\ \A id \in Ids \ behind, query \in Queries :
         id \in Search(file, query) <=>
           id \in IdsOf(corpus) /\ query \cap Terms(TextOf(corpus, id)) # {}
    /\ behind = {} => file.averages = Build(corpus).averages

Repeated == \E i, j \in DOMAIN stamps : i # j /\ stamps[i] = stamps[j]

(* No search answers from an index that had been replaced before the       *)
(* search began, although the decoded copy is shared and is filled by      *)
(* whoever read the file last; unless two versions of the file got the     *)
(* same time and length, which the stamp cannot tell apart.                *)
AnswersCurrent ==
  \A t \in Threads : At(t, "answer") => threads[t].version >= threads[t].since \/ Repeated

=============================================================================
