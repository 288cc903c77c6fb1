------------------------------ MODULE TaskBudget ------------------------------
(* Time of a claimed task: the claim's lock, the wait for an in-flight slot,     *)
(* the task's context, the wait for a lane, the request and the hand-over of     *)
(* the attempt (claimAndDispatch, handleDeliver, configs).                       *)
(*                                                                               *)
(* until is the deadline of the context a handler waits on: time does not pass   *)
(* it, because the wait ends there.                                              *)
EXTENDS Integers, FiniteSets

CONSTANTS
  Tasks,
  RequestTimeout, TaskLockTTL, LaneWaitTimeout,
  Slack,          \* what a task's context has beyond the request (30 s)
  MaxInflight, ClaimBatchSize,
  MaxTime

(* The lock's default, and what Validate asks of it. *)
LockTTL == IF TaskLockTTL <= 0 THEN RequestTimeout + 2 * Slack ELSE TaskLockTTL
Validate == LockTTL > RequestTimeout

ASSUME BudgetAssumption ==
  /\ {RequestTimeout, TaskLockTTL, LaneWaitTimeout, Slack, MaxInflight, ClaimBatchSize, MaxTime} \subseteq Nat
  /\ MaxInflight > 0 /\ ClaimBatchSize > 0
ASSUME Validated == Validate
ASSUME TasksFinite == IsFiniteSet(Tasks)

VARIABLES now, task
vars == <<now, task>>

Holding == {"run", "wire", "record"}
Active == Holding \cup {"lane", "slot"}
Fresh == [at |-> "queued", claimed |-> 0, started |-> 0, until |-> 0]

(* One type invariant. *)
TypeOK ==
  /\ now \in Nat
  /\ task \in [Tasks -> [at: {"queued", "claimed", "done"} \cup Active,
                         claimed: Nat, started: Nat, until: Nat]]

Init == now = 0 /\ task = [t \in Tasks |-> Fresh]

-------------------------------------------------------------------------------
held == {t \in Tasks : task[t].at \in Holding}
Deadline(t) == task[t].started + RequestTimeout + Slack
\* Mutant: the parent's deadline is not taken over.
WithTimeoutAlone(t, d) == now + d
\* context.WithTimeout: the earlier of the parent's deadline and the new one.
WithTimeout(t, d) == IF now + d < Deadline(t) THEN now + d ELSE Deadline(t)
Goto(t, at, until) == task' = [task EXCEPT ![t].at = at, ![t].until = until]

Tick ==
  /\ now < MaxTime /\ \A t \in Tasks : task[t].at \in Active => now < task[t].until
  /\ now' = now + 1 /\ UNCHANGED task

\* The claim takes as many tasks as there is room for; the batch before it has been started.
Claim ==
  /\ \A t \in Tasks : task[t].at # "claimed"
  /\ \E B \in SUBSET {t \in Tasks : task[t].at = "queued"} :
       /\ B # {} /\ Cardinality(B) <= ClaimBatchSize /\ Cardinality(B) <= MaxInflight - Cardinality(held)
       /\ task' = [t \in Tasks |-> IF t \in B THEN [task[t] EXCEPT !.at = "claimed", !.claimed = now] ELSE task[t]]
  /\ UNCHANGED now

\* inflightSlot.acquire.
SlotIgnored == TRUE
SlotFree == Cardinality(held) < MaxInflight
\* The handler starts once it has a slot, and its context with it.
Dispatch(t) ==
  /\ task[t].at = "claimed" /\ SlotFree
  /\ task' = [task EXCEPT ![t].at = "run", ![t].started = now, ![t].until = now + RequestTimeout + Slack]
  /\ UNCHANGED now
\* The lane is full: the slot is given back for the wait.
LaneFull(t) == task[t].at = "run" /\ Goto(t, "lane", WithTimeout(t, LaneWaitTimeout)) /\ UNCHANGED now
LaneAcquired(t) == task[t].at = "lane" /\ Goto(t, "slot", Deadline(t)) /\ UNCHANGED now
SlotAgain(t) == task[t].at = "slot" /\ SlotFree /\ Goto(t, "run", Deadline(t)) /\ UNCHANGED now
\* Deferred, dropped or failed before the request.
Leave(t) == task[t].at \in {"run", "lane", "slot"} /\ Goto(t, "done", 0) /\ UNCHANGED now
Send(t) == task[t].at = "run" /\ Goto(t, "wire", WithTimeout(t, RequestTimeout)) /\ UNCHANGED now
Deliver(t) == task[t].at = "wire" /\ Goto(t, "record", Deadline(t)) /\ UNCHANGED now
recordAttempt(t) == task[t].at = "record" /\ Goto(t, "done", 0) /\ UNCHANGED now

Step(t) ==
  \/ Dispatch(t) \/ LaneFull(t) \/ LaneAcquired(t) \/ SlotAgain(t)
  \/ Leave(t) \/ Send(t) \/ Deliver(t) \/ recordAttempt(t)
Next == Tick \/ Claim \/ \E t \in Tasks : Step(t)
Spec == Init /\ [][Next]_vars

-------------------------------------------------------------------------------
(* Properties. *)

(* A request is on the wire past its claim's lock only if the task waited for    *)
(* its first slot for longer than the lock has beyond the task's context: lane   *)
(* waits, slow requests and a full attempt writer alone cannot do it             *)
(* (claimAndDispatch's task context against TaskLockTTL).                        *)
OverrunNeedsAWait ==
  \A t \in Tasks : (task[t].at \in Active /\ now > task[t].claimed + LockTTL)
    => task[t].started - task[t].claimed > LockTTL - (RequestTimeout + Slack)

(* However many handlers give their slot back while they wait for a lane and     *)
(* take it again later, no more than MaxInflight hold one (inflightSlot).        *)
InflightIsBounded == Cardinality(held) <= MaxInflight

(* Both, with the types: a claimed task stays within its time and its slots.     *)
WithinBudget == TypeOK /\ OverrunNeedsAWait /\ InflightIsBounded

(* The claim lock outlives the slowest possible delivery: no request is on the   *)
(* wire when its lock has run out.                                               *)
LockOutlivesRequest == \A t \in Tasks : task[t].at = "wire" => now <= task[t].claimed + LockTTL
===============================================================================
