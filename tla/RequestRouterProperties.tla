----------------------- MODULE RequestRouterProperties -----------------------
(***************************************************************************)
(* What is asked of the request router.                                    *)
(***************************************************************************)
EXTENDS RequestRouter

Steps == {"idle", "cooldown", "sleep", "origin", "global", "recheck", "send",
          "sending", "extend", "body", "done"}

(* Every variable holds a value of its kind; permits and in_flight never   *)
(* go below zero, where the program's counters would wrap around.          *)
TypeOK ==
  /\ pc \in [Calls -> Steps]
  /\ attempt \in [Calls -> Nat]
  /\ wait \in [Calls -> 0..MaxDelay]
  /\ cooldown \in [Origins -> 0..MaxDelay]
  /\ originFree \in [Origins -> Nat]
  /\ globalFree \in Nat
  /\ inFlight \in Nat
  /\ metrics \in [Metrics -> Nat]
  /\ earlySends \in [Origins -> Nat]

-----------------------------------------------------------------------------
(* Permits                                                                 *)

OriginHolders(o) == {c \in Calls : OriginOf[c] = o /\ HoldsOrigin(c)}
GlobalHolders == {c \in Calls : HoldsGlobal(c)}

(* No permit is lost or made: not by a retry, by a second look at the      *)
(* cooldown, by an error, nor by a call dropped at any await.              *)
PermitsConserved ==
  /\ \A o \in Origins :
       originFree[o] + Cardinality(OriginHolders(o)) = PerOriginLimit
  /\ globalFree + Cardinality(GlobalHolders) = GlobalLimit

(* The router implements the bounded pool: the calls that talk to a        *)
(* provider, or still read its answer, keep within both limits.            *)
Pool == INSTANCE RequestPool WITH active <- GlobalHolders
PoolSpec == Pool!Spec

-----------------------------------------------------------------------------
(* Rate limits                                                             *)

(* A call is sent at most twice, however often its wait starts over, and a *)
(* second attempt is counted as a retry.                                   *)
OneRetry ==
  /\ \A c \in Calls : attempt[c] <= 2
  /\ metrics["attempts"] <= metrics["requests"] + metrics["retries"]

(* While an origin cools down, the only calls sent to it are the ones that *)
(* had found no cooldown before it began: fewer than the origin's limit,   *)
(* as the call that met the rate limit held a permit.                      *)
CooldownHolds == \A o \in Origins : earlySends[o] < PerOriginLimit

-----------------------------------------------------------------------------
(* in_flight                                                               *)

Exchanging == {c \in Calls : pc[c] \in {"sending", "extend", "body"}}

(* in_flight counts every exchange under way, so lowering it never wraps.  *)
InFlightCovers == inFlight >= Cardinality(Exchanging)

(* What the router counts is so, over retries, errors and calls dropped at *)
(* any await: permits and exchanges.                                       *)
CountersHold == PermitsConserved /\ InFlightCovers

-----------------------------------------------------------------------------
(* Progress                                                                *)

(* Every call returns: the permits taken in turn never block each other,   *)
(* and no cooldown makes a call wait for ever.                             *)
EveryCallReturns ==
  \A c \in Calls : pc[c] = "cooldown" ~> pc[c] = "done"

=============================================================================
