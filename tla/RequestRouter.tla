---------------------------- MODULE RequestRouter ----------------------------
(***************************************************************************)
(* RequestRouter::send (src/request_router.rs): calls to external          *)
(* providers compete for the permits of their origin and for global ones,  *)
(* wait out the cooldown that a 429 or 503 begins, and are sent again once *)
(* when they meet one.  A step of a call is what it does between two       *)
(* awaits; between steps the other calls run, time passes, and the         *)
(* caller's timeout may drop the call.                                     *)
(*                                                                         *)
(* Durations are counted in ticks and kept as what is left of them, so     *)
(* that a deadline is a counter that every tick lowers.                    *)
(*                                                                         *)
(* A definition headed "Mistake:" is a wrong version of the one after it.  *)
(***************************************************************************)
EXTENDS Integers, FiniteSets

CONSTANTS
  Calls,           \* calls of RequestRouter::send, each made once
  Origins,
  OriginOf,        \* scheme, host and port of a call's URL
  Unroutable,      \* calls that request_origin refuses
  GlobalLimit,     \* DEFAULT_GLOBAL_LIMIT
  PerOriginLimit,  \* DEFAULT_PER_ORIGIN_LIMIT
  MaxDelay,        \* RETRY_DELAY_CAP_MS, in ticks
  CanCancel        \* do callers put a timeout around calls?

ASSUME RouterAssumption ==
  /\ IsFiniteSet(Calls)
  /\ OriginOf \in [Calls -> Origins]
  /\ Unroutable \subseteq Calls
  /\ GlobalLimit \in Nat \ {0} /\ PerOriginLimit \in Nat \ {0}
  /\ MaxDelay \in Nat
  /\ CanCancel \in BOOLEAN

VARIABLES
  pc,           \* the next step of a call
  attempt,      \* attempts it has made
  wait,         \* what is left of the delay it carries
  cooldown,     \* what is left of the cooldown of an origin
  originFree,   \* permits of an origin
  globalFree,   \* global permits
  inFlight,     \* metrics.in_flight
  metrics,      \* the metrics that only grow
  earlySends    \* history: attempts sent since the origin's cooldown began

permits == <<originFree, globalFree>>
vars == <<pc, attempt, wait, cooldown, permits, inFlight, metrics, earlySends>>

-----------------------------------------------------------------------------
(* RouterMetrics, but for in_flight.                                       *)
Metrics == {"requests", "attempts", "retries", "rateLimited", "transportFailures"}

Goto(c, step) == pc' = [pc EXCEPT ![c] = step]

Bump(field) == metrics' = [metrics EXCEPT ![field] = @ + 1]

(* Where a call holds the permit of its origin, and the global one.        *)
HoldsGlobal(c) == pc[c] \in {"recheck", "send", "sending", "extend", "body"}
HoldsOrigin(c) == pc[c] = "global" \/ HoldsGlobal(c)

(* Mistake: the permit of the origin is forgotten.                         *)
ReleaseGlobalOnly(c) ==
  /\ globalFree' = IF HoldsGlobal(c) THEN globalFree + 1 ELSE globalFree
  /\ UNCHANGED originFree

(* The permits a call holds are dropped.                                   *)
Release(c) ==
  /\ originFree' = [originFree EXCEPT ![OriginOf[c]] =
                      IF HoldsOrigin(c) THEN @ + 1 ELSE @]
  /\ globalFree' = IF HoldsGlobal(c) THEN globalFree + 1 ELSE globalFree

-----------------------------------------------------------------------------
(* The steps of send                                                       *)

(* A request without a host, or that cannot be cloned, is refused.         *)
Call(c) ==
  /\ pc[c] = "idle"
  /\ Bump("requests")
  /\ Goto(c, IF c \in Unroutable THEN "done" ELSE "cooldown")
  /\ UNCHANGED <<attempt, wait, cooldown, permits, inFlight, earlySends>>

(* wait_for_cooldown sleeps for what is left when it looks; an extension   *)
(* that comes later does not make the sleep longer.                        *)
ReadCooldown(c) ==
  /\ pc[c] = "cooldown"
  /\ wait' = [wait EXCEPT ![c] = cooldown[OriginOf[c]]]
  /\ Goto(c, IF cooldown[OriginOf[c]] > 0 THEN "sleep" ELSE "origin")
  /\ UNCHANGED <<attempt, cooldown, permits, inFlight, metrics, earlySends>>

Wake(c) ==
  /\ pc[c] = "sleep" /\ wait[c] = 0
  /\ Goto(c, "origin")
  /\ UNCHANGED <<attempt, wait, cooldown, permits, inFlight, metrics, earlySends>>

AcquireOrigin(c) ==
  /\ pc[c] = "origin" /\ originFree[OriginOf[c]] > 0
  /\ originFree' = [originFree EXCEPT ![OriginOf[c]] = @ - 1]
  /\ Goto(c, "global")
  /\ UNCHANGED <<attempt, wait, cooldown, globalFree, inFlight, metrics, earlySends>>

(* Mistake: a full pool is not waited for.                                 *)
AcquireGlobalAnyway(c) ==
  /\ pc[c] = "global"
  /\ globalFree' = IF globalFree > 0 THEN globalFree - 1 ELSE globalFree
  /\ Goto(c, "recheck")
  /\ UNCHANGED <<attempt, wait, cooldown, originFree, inFlight, metrics, earlySends>>

AcquireGlobal(c) ==
  /\ pc[c] = "global" /\ globalFree > 0
  /\ globalFree' = globalFree - 1
  /\ Goto(c, "recheck")
  /\ UNCHANGED <<attempt, wait, cooldown, originFree, inFlight, metrics, earlySends>>

(* Mistake: the cooldown is not looked at again.                           *)
NoRecheck(c) ==
  /\ pc[c] = "recheck"
  /\ Goto(c, "send")
  /\ UNCHANGED <<attempt, wait, cooldown, permits, inFlight, metrics, earlySends>>

(* With both permits the cooldown is looked at again; if another call hit  *)
(* a rate limit meanwhile, the permits go back and the wait starts over.   *)
Recheck(c) ==
  /\ pc[c] = "recheck"
  /\ IF cooldown[OriginOf[c]] > 0
     THEN Goto(c, "cooldown") /\ Release(c)
     ELSE Goto(c, "send") /\ UNCHANGED permits
  /\ UNCHANGED <<attempt, wait, cooldown, inFlight, metrics, earlySends>>

(* No await separates this step from the look at the cooldown, but calls   *)
(* on other threads run in between.                                        *)
Send(c) ==
  /\ pc[c] = "send"
  /\ attempt' = [attempt EXCEPT ![c] = @ + 1]
  /\ Bump("attempts")
  /\ inFlight' = inFlight + 1
  /\ earlySends' = [earlySends EXCEPT ![OriginOf[c]] =
                      IF cooldown[OriginOf[c]] > 0 THEN @ + 1 ELSE @]
  /\ Goto(c, "sending")
  /\ UNCHANGED <<wait, cooldown, permits>>

(* No response: the error is returned.                                     *)
TransportFails(c) ==
  /\ pc[c] = "sending"
  /\ inFlight' = inFlight - 1
  /\ Bump("transportFailures")
  /\ Release(c)
  /\ Goto(c, "done")
  /\ UNCHANGED <<attempt, wait, cooldown, earlySends>>

Answered(c) ==
  /\ pc[c] = "sending"
  /\ Goto(c, "body")
  /\ UNCHANGED <<attempt, wait, cooldown, permits, inFlight, metrics, earlySends>>

(* retry_delay: the longer delay of the two headers, up to the cap.        *)
RetryDelays == 0..MaxDelay

(* A 429 or 503.  The deadline is fixed before the cooldown can be locked. *)
RateLimited(c) ==
  /\ pc[c] = "sending"
  /\ Bump("rateLimited")
  /\ \E delay \in RetryDelays : wait' = [wait EXCEPT ![c] = delay]
  /\ Goto(c, "extend")
  /\ UNCHANGED <<attempt, cooldown, permits, inFlight, earlySends>>

Longer(a, b) == IF a > b THEN a ELSE b

Retries(c) == attempt[c] = 1

(* extend_cooldown, then the first attempt starts over, without permits,   *)
(* and the second is handed to the caller as it is.                        *)
ExtendCooldown(c) ==
  /\ pc[c] = "extend"
  /\ cooldown' = [cooldown EXCEPT ![OriginOf[c]] = Longer(@, wait[c])]
  /\ IF Retries(c)
     THEN /\ Bump("retries")
          /\ inFlight' = inFlight - 1
          /\ Release(c)
          /\ Goto(c, "cooldown")
     ELSE /\ Goto(c, "body")
          /\ UNCHANGED <<permits, inFlight, metrics>>
  /\ UNCHANGED <<attempt, wait, earlySends>>

(* The caller has read the body, or drops it: RoutedResponse holds the     *)
(* permits and the InFlightGuard until then.                               *)
Finish(c) ==
  /\ pc[c] = "body"
  /\ inFlight' = inFlight - 1
  /\ Release(c)
  /\ Goto(c, "done")
  /\ UNCHANGED <<attempt, wait, cooldown, metrics, earlySends>>

-----------------------------------------------------------------------------
(* The surroundings                                                        *)

(* The timeout around the call (run_source) drops its future at an await:  *)
(* the permits go back, but only a RoutedResponse has an InFlightGuard.    *)
Cancel(c) ==
  /\ CanCancel
  /\ pc[c] \notin {"idle", "send", "done"}
  /\ inFlight' = IF pc[c] = "body" THEN inFlight - 1 ELSE inFlight
  /\ Release(c)
  /\ Goto(c, "done")
  /\ UNCHANGED <<attempt, wait, cooldown, metrics, earlySends>>

Left(n) == IF n > 0 THEN n - 1 ELSE 0

(* Time passes; the count of early sends ends with the cooldown.           *)
Tick ==
  /\ \/ \E o \in Origins : cooldown[o] > 0
     \/ \E c \in Calls : wait[c] > 0
  /\ cooldown' = [o \in Origins |-> Left(cooldown[o])]
  /\ wait' = [c \in Calls |-> Left(wait[c])]
  /\ earlySends' = [o \in Origins |->
                      IF cooldown[o] <= 1 THEN 0 ELSE earlySends[o]]
  /\ UNCHANGED <<pc, attempt, permits, inFlight, metrics>>

-----------------------------------------------------------------------------
Init ==
  /\ pc = [c \in Calls |-> "idle"]
  /\ attempt = [c \in Calls |-> 0]
  /\ wait = [c \in Calls |-> 0]
  /\ cooldown = [o \in Origins |-> 0]
  /\ originFree = [o \in Origins |-> PerOriginLimit]
  /\ globalFree = GlobalLimit
  /\ inFlight = 0
  /\ metrics = [m \in Metrics |-> 0]
  /\ earlySends = [o \in Origins |-> 0]

Queue(c) ==
  ReadCooldown(c) \/ Wake(c) \/ AcquireOrigin(c) \/ AcquireGlobal(c) \/ Recheck(c)

(* The provider answers or the transport gives up; the caller reads on.    *)
Exchange(c) ==
  TransportFails(c) \/ Answered(c) \/ RateLimited(c) \/ ExtendCooldown(c) \/ Finish(c)

Step(c) == Queue(c) \/ Send(c) \/ Exchange(c)

Next ==
  \/ \E c \in Calls : Call(c) \/ Step(c) \/ Cancel(c)
  \/ Tick

Spec == Init /\ [][Next]_vars

(* The runtime polls every task that can go on, and time passes.  An       *)
(* exchange ends: the HTTP clients have timeouts.                          *)
FairSpec ==
  /\ Spec
  /\ WF_vars(Tick)
  /\ \A c \in Calls : WF_vars(Step(c))

=============================================================================
