----------------------------- MODULE RequestPool -----------------------------
(***************************************************************************)
(* What the request router promises the providers it talks to: at any time *)
(* at most PerOriginLimit calls are active at one origin, and at most      *)
(* GlobalLimit in all.                                                     *)
(***************************************************************************)
EXTENDS Naturals, FiniteSets

CONSTANTS Calls, Origins, OriginOf, PerOriginLimit, GlobalLimit

VARIABLE active  \* the calls that may send, are sending or read a body

At(o) == {c \in active : OriginOf[c] = o}

Init == active = {}

Enter(c) ==
  /\ c \notin active
  /\ Cardinality(At(OriginOf[c])) < PerOriginLimit
  /\ Cardinality(active) < GlobalLimit
  /\ active' = active \cup {c}

Leave(c) ==
  /\ c \in active
  /\ active' = active \ {c}

Next == \E c \in Calls : Enter(c) \/ Leave(c)

Spec == Init /\ [][Next]_active

=============================================================================
