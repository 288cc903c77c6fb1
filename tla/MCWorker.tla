------------------------------ MODULE MCWorker ------------------------------
(* What a worker does around one request: the time of a task (TaskBudget),    *)
(* the lane of an endpoint (Lane), its health (EndpointHealth) and the         *)
(* outbound client (Outbound).                                                 *)
(*                                                                             *)
(* The components share no variable here.  part says which one of them runs,   *)
(* so that a run explores the sum of their state spaces and not the product.   *)
EXTENDS TaskBudget, TLC

CONSTANTS Parts

VARIABLES
  part,
  lane, current, hs,                                     \* Lane
  row, snap, marks, senders, owner, seen,
  verdicts, warned, surprised, failed, switches,         \* EndpointHealth
  clock, dns, entry, call, changes, calls, dialled, served  \* Outbound

Off == "off"
laneVars == <<lane, current, hs>>
healthVars == <<row, snap, marks, senders, owner, seen, verdicts, warned, surprised, failed, switches>>
outVars == <<clock, dns, entry, call, changes, calls, dialled, served>>

\* Three deliveries on one rate-limited lane that grows from one slot to two.
L == INSTANCE Lane WITH
  Handlers <- {"h1", "h2", "h3"}, LaneIds <- {"l1"}, InitialConcurrency <- 1, MaxConcurrency <- 2,
  SuccessesPerIncrease <- 1, MaxWaiters <- 2, RateLimited <- TRUE,
  FailureThreshold <- 2, Cooldown <- 1, MaxCooldown <- 3, None <- "none"

\* One worker, a failed write, quarantine and the owner's switch.
H == INSTANCE EndpointHealth WITH
  Workers <- {"w1"}, Handlers <- {"h1"}, DisableAfter <- 2, MaxAge <- 2,
  Quarantines <- TRUE, Notifies <- FALSE, MaxFaults <- 1, MaxSwitches <- 1,
  lane <- marks, hs <- senders, faults <- failed

\* One worker that sends operational events, and the owner's switch.
N == INSTANCE EndpointHealth WITH
  Workers <- {"w1"}, Handlers <- {"h1"}, DisableAfter <- 2, MaxAge <- 2,
  Quarantines <- FALSE, Notifies <- TRUE, MaxFaults <- 0, MaxSwitches <- 1,
  lane <- marks, hs <- senders, faults <- failed

\* Two deliveries, two addresses of which one is allowed, a change of addresses.
O == INSTANCE Outbound WITH
  Calls <- {"c1", "c2"}, Addrs <- {"a1", "a2"}, Allowed <- {"a1"}, TTL <- 2, NegTTL <- 1,
  MaxTime <- 3, MaxChanges <- 1, MaxCalls <- 2, now <- clock

ASSUME WorkerSizes == L!LaneAssumption /\ H!HealthAssumption /\ N!HealthAssumption /\ O!OutboundAssumption

\* A component that does not take part has no state.
LaneOff == lane = Off /\ current = Off /\ hs = Off
HealthOff ==
  /\ row = Off /\ snap = Off /\ marks = Off /\ senders = Off /\ owner = Off /\ seen = Off
  /\ verdicts = Off /\ warned = Off /\ surprised = Off /\ failed = Off /\ switches = Off
OutOff ==
  /\ clock = Off /\ dns = Off /\ entry = Off /\ call = Off
  /\ changes = Off /\ calls = Off /\ dialled = Off /\ served = Off

MCInit ==
  /\ part \in Parts /\ Init
  /\ IF part = "lane" THEN L!Init ELSE LaneOff
  /\ CASE part = "health" -> H!Init [] part = "events" -> N!Init [] OTHER -> HealthOff
  /\ IF part = "client" THEN O!Init ELSE OutOff
MCNext ==
  /\ UNCHANGED part
  /\ \/ part = "time" /\ Next /\ UNCHANGED <<laneVars, healthVars, outVars>>
     \/ part = "lane" /\ L!Next /\ UNCHANGED <<vars, healthVars, outVars>>
     \/ part = "health" /\ H!Next /\ UNCHANGED <<vars, laneVars, outVars>>
     \/ part = "events" /\ N!Next /\ UNCHANGED <<vars, laneVars, outVars>>
     \/ part = "client" /\ O!Next /\ UNCHANGED <<vars, laneVars, healthVars>>
MCSpec == MCInit /\ [][MCNext]_<<part, vars, laneVars, healthVars, outVars>>
-----------------------------------------------------------------------------
(* On every exit of handleDeliver the lane of an endpoint adds up: it      *)
(* counts the goroutines that hold a slot and those that wait, the waiter  *)
(* list holds each parked goroutine once (so no channel is closed twice),  *)
(* and while someone is parked every free slot has a goroutine on its way  *)
(* to it, unless a woken waiter timed out (Lane.Acquire, Release,          *)
(* cancelWaiter, wakeWaitersLocked).                                       *)
LaneAddsUp ==
  part = "lane" => L!TypeOK /\ L!SlotsCounted /\ L!WakeupsReachWaiters /\ L!WaitersAreParked

(* A half-open breaker lets one probe through at a time, as long as no     *)
(* delivery from before it opened reports meanwhile, and a closed one is   *)
(* always short of its threshold, whatever late reports arrive             *)
(* (Breaker.Allow, OnSuccess, OnFailure).                                  *)
BreakerAdmitsOne ==
  part = "lane" => L!OneProbe /\ L!ClosedBelowThreshold

(* A single failure never switches the endpoint off: whatever stale start  *)
(* a worker adopted, the first failure ever lies at least DisableAfter     *)
(* before a switch-off by the engine (applyHealthTransitions,              *)
(* Lane.FailureRunStart).                                                  *)
BlipNeverDisables ==
  /\ (part = "health" => H!TypeOK /\ H!BlipNeverDisables)
  /\ (part = "events" => N!TypeOK /\ N!BlipNeverDisables)

(* Every address dialled is one the guard allows, also when the name       *)
(* changes its addresses between the lookup and the dial, and an answer    *)
(* served from the cache is never older than its lifetime, however slow    *)
(* lookups are and in whatever order they store their answers              *)
(* (guardedDialer.DialContext, DNSCache.Lookup).                           *)
OutboundIsGuarded ==
  part = "client" => O!TypeOK /\ O!AnswersAreFresh /\ O!DialledWasAllowed
=============================================================================
