---------------------------- MODULE CorpusCatalog ----------------------------
(***************************************************************************)
(* What the corpus promises its callers: a catalogue of papers that        *)
(* changes one paper at a time.  A paper is put under its hash, with the   *)
(* whole of its entry; an import is acknowledged only for a paper that is  *)
(* in the catalogue, and an acknowledged paper leaves it only by being     *)
(* deleted.  No write loses another one.                                   *)
(***************************************************************************)
CONSTANTS Hash, Entry, Nil

VARIABLES
  catalog,  \* the entry of each paper, or Nil
  acked     \* the papers whose import was acknowledged

Papers == {h \in Hash : catalog[h] # Nil}

Init ==
  /\ catalog = [h \in Hash |-> Nil]
  /\ acked = {}

Put(h, e) ==
  /\ catalog' = [catalog EXCEPT ![h] = e]
  /\ UNCHANGED acked

Acknowledge(h) ==
  /\ h \in Papers
  /\ acked' = acked \cup {h}
  /\ UNCHANGED catalog

Delete(h) ==
  /\ h \in Papers
  /\ catalog' = [catalog EXCEPT ![h] = Nil]
  /\ acked' = acked \ {h}

Next ==
  \E h \in Hash :
    \/ \E e \in Entry : Put(h, e)
    \/ Acknowledge(h)
    \/ Delete(h)

Spec == Init /\ [][Next]_<<catalog, acked>>

=============================================================================
