--------------------------- MODULE CorpusLeftovers ---------------------------
(***************************************************************************)
(* What is left on disk of papers that no entry names any more, and how it *)
(* came to be left: the corpus store with one more history variable.       *)
(***************************************************************************)
EXTENDS CorpusProperties

VARIABLE loose  \* papers of which something may have been left behind

(* The operation of t ends before it is done: a failing call, a crash, or  *)
(* the policy, which Place asks after it has stored the file.              *)
LetGo(t) == pc'[t] = "idle" /\ (faults' # faults \/ pc[t] = "place")

(* A re-import puts an entry in the place of one that named another file,  *)
(* or that had a text which the new one has not.                           *)
Replaced(h) ==
  /\ db[h] # Nil /\ db'[h] # Nil
  /\ db'[h].ext # db[h].ext \/ (db[h].hasText /\ ~db'[h].hasText)

Dropped ==
  {h \in Hash : Replaced(h) \/ \E t \in Threads : paper[t] = h /\ LetGo(t)}

LeftoverInit == Init /\ loose = {}

LeftoverNext == Next /\ loose' = loose \cup Dropped

LeftoverSpec == LeftoverInit /\ [][LeftoverNext]_<<vars, loose>>

-----------------------------------------------------------------------------
FileNamed(f) == db[f[1]] # Nil /\ db[f[1]].ext = f[2]

TextNamed(h) == db[h] # Nil /\ db[h].hasText

(* When nothing runs, what is on disk belongs to an entry: the stored      *)
(* files, the text blobs and the seed manifests, and nothing is staged.    *)
(* Imports, lazily read texts, seeds and removals clean up after each      *)
(* other, with no exception but the papers of which an operation failed or *)
(* was refused, and those that were imported again under another extension *)
(* or without their text.                                                  *)
LeftoversAccounted ==
  Quiet =>
    /\ \A f \in File : files[f] # "absent" => FileNamed(f) \/ f[1] \in loose
    /\ \A h \in Hash : blobs[h] # Nil => TextNamed(h) \/ h \in loose
    /\ \A h \in Hash : manifests[h] # Nil => db[h] # Nil \/ h \in loose
    /\ \A f \in staged : f[1] \in loose

=============================================================================
