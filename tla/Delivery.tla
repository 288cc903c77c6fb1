------------------------------ MODULE Delivery ------------------------------
(***************************************************************************)
(* The life of a queued task: ingest, claim, fan-out, delivery, the batched *)
(* attempt writer, and the ways a worker stops (shutdown and crash).        *)
(*                                                                         *)
(* Postgres holds row (delivery_task), stored (message) and attempts        *)
(* (delivery_attempt).  A worker's memory is hs: one entry per claim, from  *)
(* the Claim statement until the row's fate has been written.  What decides *)
(* between the outcomes of a handler (config snapshot, lane, breaker) is    *)
(* left open here, so every module that models one of them narrows this one.*)
(***************************************************************************)
EXTENDS Naturals, FiniteSets

CONSTANTS
  Workers,         \* worker processes
  Handlers,        \* claims a worker can have in memory at once
  TaskIds,         \* delivery_task.id values
  Msgs, Endpoints,
  Subscribed,      \* Snapshot.MatchingEndpoints: the endpoints of a message
  Unsendable,      \* messages whose payload does not decode or does not sign
  ScheduleLen,     \* len(retry.Policy.schedule)
  ClaimBatchSize, MaxInflight, BufferSize, BatchSize,
  MaxFaults,       \* bound on what disturbs a delivery: crashes, shutdowns,
                   \* failed statements, slow or deferred handlers, resends,
                   \* full lanes, deactivated endpoints, messages past retention
  None

ASSUME DeliveryAssumption ==
  /\ ScheduleLen \in Nat
  /\ MaxFaults \in Nat
  /\ ClaimBatchSize \in Nat \ {0}
  /\ MaxInflight \in Nat \ {0}
  /\ BufferSize \in Nat \ {0}
  /\ BatchSize \in Nat \ {0}
  /\ Subscribed \in [Msgs -> SUBSET Endpoints]
  /\ Unsendable \subseteq Msgs
  /\ None \notin Workers \cup TaskIds \cup Msgs \cup Endpoints

VARIABLES
  row,          \* delivery_task: row[i] is the row with id i
  stored,       \* messages still in the message table
  attempts,     \* delivery_attempt, before retention drops its oldest days
  deactivated,  \* endpoints that were disabled or deleted at some time
  hs,           \* worker memory: hs[h] is one claimed task and how far it got
  batch,        \* ids of the batch claimAndDispatch is working through
  mode,         \* each worker: up, stopping (context cancelled) or down
  \* History for the properties.  Guards read accepted (a message is ingested
  \* once, before it is resent) and the bound on faults, nothing else of it.
  accepted,     \* messages whose ingest committed (the caller got its 202)
  acked,        \* rows some endpoint answered with a 2xx
  lapse,        \* how the row first lost a lock that somebody still relied on
  dropped,      \* why a row was removed without an attempt of its own
  faults        \* disturbances so far

vars == <<row, stored, attempts, deactivated, hs, batch, mode, accepted,
          acked, lapse, dropped, faults>>

-----------------------------------------------------------------------------
(* Types *)

RowState == {"unborn", "live", "gone"}
Kind == {"fanout", "deliver"}
Trigger == {"scheduled", "manual"}
AttemptStatus == {"succeeded", "pending_retry", "failed"}
Phase == {"claimed", "running", "waiting", "admitted", "sent",
          "recording", "buffered", "batched", "copied"}
DropReason == {"fanned_out", "no_match", "msg_gone", "endpoint_gone",
               "unsendable", "breaker_exhausted"}

Row == [st : RowState, kind : Kind, trig : Trigger,
        msg : Msgs \cup {None}, ep : Endpoints \cup {None},
        attempt : Nat, lockedBy : Workers \cup {None},
        expired : BOOLEAN, visible : BOOLEAN]

\* One claim in memory: the task as Claim returned it, how far its handler got
\* and, once there is one, the outcome.
NoClaim == [pc |-> "idle", worker |-> None, task |-> None, attempt |-> 0,
            status |-> "failed"]

Handler == [pc : Phase, worker : Workers, task : TaskIds, attempt : Nat,
            status : AttemptStatus]

Attempt == [task : TaskIds, number : Nat, status : AttemptStatus]

\* The shape of the tables, of a worker's claims and of the history: a claim
\* always names a worker and a row that delivery_task could have returned, and
\* the attempt counter stays a natural number (DeliveryTask, AttemptRecord).
TypeOK ==
  /\ row \in [TaskIds -> Row]
  /\ stored \subseteq Msgs
  /\ attempts \subseteq Attempt
  /\ deactivated \subseteq Endpoints
  /\ hs \in [Handlers -> Handler \cup {NoClaim}]
  /\ batch \in [Workers -> SUBSET TaskIds]
  /\ mode \in [Workers -> {"up", "stopping", "down"}]
  /\ accepted \subseteq Msgs
  /\ acked \subseteq TaskIds
  /\ lapse \in [TaskIds -> {"none", "expiry", "release"}]
  /\ dropped \in [TaskIds -> DropReason \cup {"none"}]
  /\ faults \in 0 .. MaxFaults

-----------------------------------------------------------------------------
(* State functions *)

NoRow == [st |-> "unborn", kind |-> "fanout", trig |-> "scheduled",
          msg |-> None, ep |-> None, attempt |-> 0, lockedBy |-> None,
          expired |-> FALSE, visible |-> FALSE]

\* EnqueueTask: a fresh row is unlocked and visible at once.
NewRow(kind, trig, m, e) ==
  [st |-> "live", kind |-> kind, trig |-> trig, msg |-> m, ep |-> e,
   attempt |-> 0, lockedBy |-> None, expired |-> FALSE, visible |-> TRUE]

SameTask(r, q) == /\ q.kind = r.kind /\ q.trig = r.trig
                  /\ q.msg = r.msg /\ q.ep = r.ep

Live(i) == row[i].st = "live"

Fresh == {i \in TaskIds : row[i].st = "unborn"}

\* The claims on row i that are still in some worker's memory.
Holders(i) == {h \in Handlers : hs[h].pc # "idle" /\ hs[h].task = i}

InPhase(w, ph) == {h \in Handlers : hs[h].pc = ph /\ hs[h].worker = w}

\* Engine.inflight: a handler goroutine holds a slot of the budget until its
\* record is in the writer's channel, except while it waits for its lane.
SlotsHeld(w) == Cardinality({h \in Handlers :
                  /\ hs[h].worker = w
                  /\ hs[h].pc \in {"running", "admitted", "sent", "recording"}})

\* Mutant: the last retry is counted one too late.
ExhaustedLate(attempt) == attempt > ScheduleLen

\* retry.Policy.Exhausted
Exhausted(attempt) == attempt >= ScheduleLen

Fault == faults < MaxFaults /\ faults' = faults + 1
NoFault == UNCHANGED faults

-----------------------------------------------------------------------------
(* Queue statements.  None of them but Claim looks at who holds the lock.  *)

\* locked_by = NULL, locked_until = NULL
Unlocked(r) == [r EXCEPT !.lockedBy = None, !.expired = FALSE]

\* ... and visible_at = later
Postponed(r) == [Unlocked(r) EXCEPT !.visible = FALSE]

\* Mutant: the column counts the attempts that are left.
RetriedCountsDown(r) == [Postponed(r) EXCEPT !.attempt = @ - 1]

\* Mutant: the retry does not count.
RetriedUncounted(r) == Postponed(r)

\* ... and attempt = attempt + 1
Retried(r) == [Postponed(r) EXCEPT !.attempt = @ + 1]

Deleted(r) == [Unlocked(r) EXCEPT !.st = "gone"]

\* DELETE ... WHERE id = ANY(S)
Complete(S) ==
  row' = [i \in TaskIds |->
            IF i \in S /\ Live(i) THEN Deleted(row[i]) ELSE row[i]]

\* UPDATE ... SET attempt = attempt + 1, visible_at = later, unlocked
Retry(i) == row' = IF Live(i) THEN [row EXCEPT ![i] = Retried(@)] ELSE row

\* UPDATE ... SET visible_at = later, unlocked
Defer(i) == row' = IF Live(i) THEN [row EXCEPT ![i] = Postponed(@)] ELSE row

\* UPDATE ... SET unlocked WHERE id = ANY(S)
Release(S) ==
  row' = [i \in TaskIds |->
            IF i \in S /\ Live(i) THEN Unlocked(row[i]) ELSE row[i]]

\* Where a claim stands.
Goto(h, ph) == hs' = [hs EXCEPT ![h] = [@ EXCEPT !.pc = ph]]

Forget(S) == hs' = [h \in Handlers |-> IF h \in S THEN NoClaim ELSE hs[h]]

\* The handler is done with its claim.
Finish(h) == hs' = [hs EXCEPT ![h] = NoClaim]

Drop(h, reason) ==
  /\ Complete({hs[h].task})
  /\ dropped' = IF Live(hs[h].task)
                THEN [dropped EXCEPT ![hs[h].task] = reason] ELSE dropped
  /\ Finish(h)

-----------------------------------------------------------------------------
(* The API *)

\* IngestUseCase.Ingest: the message and its fan-out row commit together.
Ingest(m) ==
  /\ m \notin accepted
  /\ \E i \in Fresh :
       row' = [row EXCEPT ![i] = NewRow("fanout", "scheduled", m, None)]
  /\ accepted' = accepted \cup {m}
  /\ stored' = stored \cup {m}
  /\ UNCHANGED <<attempts, deactivated, hs, batch, mode, acked, lapse,
                 dropped, faults>>

\* AttemptUseCase.Resend, and each delivery of Recover and Replay, which trust
\* the message id: a deliver row that gets one attempt.
Resend(m, e) ==
  /\ m \in accepted
  /\ \E i \in Fresh :
       row' = [row EXCEPT ![i] = NewRow("deliver", "manual", m, e)]
  /\ Fault
  /\ UNCHANGED <<stored, attempts, deactivated, hs, batch, mode, accepted,
                 acked, lapse, dropped>>

\* EndpointUseCase.SetDisabled / DeleteEndpoint, or the engine's auto-disable.
Deactivate(e) ==
  /\ e \notin deactivated
  /\ deactivated' = deactivated \cup {e}
  /\ Fault
  /\ UNCHANGED <<row, stored, attempts, hs, batch, mode, accepted, acked,
                 lapse, dropped>>

\* MaintenanceRepo.DropPartitionsBefore: retention removes the message.
AgeOut(m) ==
  /\ m \in stored
  /\ stored' = stored \ {m}
  /\ Fault
  /\ UNCHANGED <<row, attempts, deactivated, hs, batch, mode, accepted, acked,
                 lapse, dropped>>

-----------------------------------------------------------------------------
(* Time, as the queue sees it *)

\* visible_at <= now()
BecomeVisible(i) ==
  /\ Live(i) /\ ~row[i].visible
  /\ row' = [row EXCEPT ![i] = [@ EXCEPT !.visible = TRUE]]
  /\ UNCHANGED <<stored, attempts, deactivated, hs, batch, mode, accepted,
                 acked, lapse, dropped, faults>>

\* locked_until < now().  With the claim still in memory this is a fault: the
\* handler or the writer was slower than LockTTL.
Expire(i) ==
  /\ Live(i) /\ row[i].lockedBy # None /\ ~row[i].expired
  /\ row' = [row EXCEPT ![i] = [@ EXCEPT !.expired = TRUE]]
  /\ IF Holders(i) = {}
     THEN NoFault /\ UNCHANGED lapse
     ELSE Fault /\ lapse' = [lapse EXCEPT ![i] = IF @ = "none" THEN "expiry" ELSE @]
  /\ UNCHANGED <<stored, attempts, deactivated, hs, batch, mode, accepted,
                 acked, dropped>>

\* Mutant: the comparison with now() is the wrong way round.
RescueUnexpired ==
  /\ \E i \in TaskIds : Live(i) /\ row[i].lockedBy # None /\ ~row[i].expired
  /\ row' = [i \in TaskIds |->
               IF Live(i) /\ ~row[i].expired THEN Unlocked(row[i]) ELSE row[i]]
  /\ UNCHANGED <<stored, attempts, deactivated, hs, batch, mode, accepted,
                 acked, lapse, dropped, faults>>

\* QueueRepo.RescueStuck, run by the maintenance leader and by the admin API.
RescueStuck ==
  /\ \E i \in TaskIds : Live(i) /\ row[i].expired
  /\ row' = [i \in TaskIds |->
               IF Live(i) /\ row[i].expired THEN Unlocked(row[i]) ELSE row[i]]
  /\ UNCHANGED <<stored, attempts, deactivated, hs, batch, mode, accepted,
                 acked, lapse, dropped, faults>>

-----------------------------------------------------------------------------
(* The claim loop *)

\* Mutant: the claim does not test locked_until.
ClaimableLocked(i) == Live(i) /\ row[i].visible

\* The WHERE clause of ClaimQuery.
Claimable(i) == Live(i) /\ row[i].visible /\ row[i].lockedBy = None

Locked(S, w) ==
  [i \in TaskIds |-> IF i \in S THEN [row[i] EXCEPT !.lockedBy = w] ELSE row[i]]

\* What claimAndDispatch may ask for: the loop is through with its last batch
\* and the batch fits both the batch size and the free in-flight budget.
MayClaim(w, n) ==
  /\ mode[w] = "up"
  /\ InPhase(w, "claimed") = {}
  /\ n > 0
  /\ n <= ClaimBatchSize
  /\ n + SlotsHeld(w) <= MaxInflight

\* QueueRepo.Claim: one statement locks the batch; g pairs each new claim in
\* memory with the row it got.
Claim(w) ==
  \E H \in SUBSET {h \in Handlers : hs[h].pc = "idle"} :
    /\ MayClaim(w, Cardinality(H))
    /\ \E g \in [H -> {i \in TaskIds : Claimable(i)}] :
         /\ \A a, b \in H : g[a] = g[b] => a = b
         /\ row' = Locked({g[h] : h \in H}, w)
         /\ hs' = [h \in Handlers |->
                     IF h \in H
                     THEN [pc |-> "claimed", worker |-> w, task |-> g[h],
                           attempt |-> row[g[h]].attempt, status |-> "failed"]
                     ELSE hs[h]]
         /\ batch' = [batch EXCEPT ![w] = {g[h] : h \in H}]
    /\ UNCHANGED <<stored, attempts, deactivated, mode, accepted, acked,
                   lapse, dropped, faults>>

\* The statement commits but its result does not reach the worker: the rows
\* are locked and nobody works on them.
ClaimLost(w) ==
  \E S \in SUBSET {i \in TaskIds : Claimable(i)} :
    /\ MayClaim(w, Cardinality(S))
    /\ row' = Locked(S, w)
    /\ Fault
    /\ UNCHANGED <<stored, attempts, deactivated, hs, batch, mode, accepted,
                   acked, lapse, dropped>>

\* slot.acquire succeeds and the goroutine starts.  With the context cancelled
\* and a slot free, the select may still take the slot.
Start(h) ==
  /\ hs[h].pc = "claimed"
  /\ SlotsHeld(hs[h].worker) < MaxInflight
  /\ Goto(h, "running")
  /\ UNCHANGED <<row, stored, attempts, deactivated, batch, mode, accepted,
                 acked, lapse, dropped, faults>>

\* slot.acquire fails because the context is cancelled: the loop releases the
\* batch it claimed, the tasks it already started included, and returns.  The
\* release itself may fail, which leaves the locks to expire.
ReleaseBatch(w) ==
  /\ mode[w] = "stopping"
  /\ InPhase(w, "claimed") # {}
  /\ Forget(InPhase(w, "claimed"))
  /\ \/ /\ Release(batch[w])
        /\ lapse' = [i \in TaskIds |->
                       IF /\ i \in batch[w] /\ lapse[i] = "none"
                          /\ Holders(i) \ InPhase(w, "claimed") # {}
                       THEN "release" ELSE lapse[i]]
        /\ NoFault
     \/ /\ UNCHANGED <<row, lapse>>
        /\ Fault
  /\ batch' = [batch EXCEPT ![w] = {}]
  /\ UNCHANGED <<stored, attempts, deactivated, mode, accepted, acked, dropped>>

-----------------------------------------------------------------------------
(* Engine.handle *)

\* Every return that leaves the row locked: no snapshot, a failed read, a
\* failed fan-out transaction, a failed Complete, Retry or Defer.
KeepLock(h) ==
  /\ hs[h].pc \in {"running", "waiting", "admitted"}
  /\ Finish(h)
  /\ Fault
  /\ UNCHANGED <<row, stored, attempts, deactivated, batch, mode, accepted,
                 acked, lapse, dropped>>

\* deferTask: the config snapshot predates the task.
DeferTask(h) ==
  /\ hs[h].pc = "running"
  /\ Defer(hs[h].task)
  /\ Finish(h)
  /\ Fault
  /\ UNCHANGED <<stored, attempts, deactivated, batch, mode, accepted, acked,
                 lapse, dropped>>

\* Mutant: an endpoint missing from the snapshot is taken not to exist.
MatchesUnchecked(m) == SUBSET Subscribed[m]

\* What MatchingEndpoints can return: a snapshot of any age leaves out at most
\* the endpoints that were not deliverable at some time.
Matches(m) == {M \in SUBSET Subscribed[m] : Subscribed[m] \ M \subseteq deactivated}

\* handleFanout ends without deliver rows: the message is gone, or nothing
\* matches it.
FanoutDrop(h) ==
  /\ hs[h].pc = "running" /\ row[hs[h].task].kind = "fanout"
  /\ LET m == row[hs[h].task].msg IN
       \/ m \notin stored /\ Drop(h, "msg_gone")
       \/ m \in stored /\ {} \in Matches(m) /\ Drop(h, "no_match")
  /\ UNCHANGED <<stored, attempts, deactivated, batch, mode, accepted, acked,
                 lapse, faults>>

\* Mutant: the inserts commit without the delete.
ExpandedOnly(t, F, g) ==
  [i \in TaskIds |->
     IF i \in F THEN NewRow("deliver", row[t].trig, row[t].msg, g[i]) ELSE row[i]]

\* Enqueue(tasks) and Complete(t) in one transaction.
Expanded(t, F, g) ==
  [i \in TaskIds |->
     IF i \in F THEN NewRow("deliver", row[t].trig, row[t].msg, g[i])
     ELSE IF i = t /\ Live(i) THEN Deleted(row[i])
     ELSE row[i]]

\* The transaction of handleFanout: insert one deliver row per matching
\* endpoint and delete the fan-out row, without checking that it was there.
FanoutExpand(h) ==
  /\ hs[h].pc = "running" /\ row[hs[h].task].kind = "fanout"
  /\ LET t == hs[h].task
         m == row[t].msg
     IN /\ m \in stored
        /\ \E M \in Matches(m) \ {{}}, F \in SUBSET Fresh :
             \E g \in [F -> M] :
               /\ \A i, j \in F : g[i] = g[j] => i = j
               /\ \A e \in M : \E i \in F : g[i] = e
               /\ row' = Expanded(t, F, g)
        /\ dropped' = IF Live(t) THEN [dropped EXCEPT ![t] = "fanned_out"] ELSE dropped
  /\ Finish(h)
  /\ UNCHANGED <<stored, attempts, deactivated, batch, mode, accepted, acked,
                 lapse, faults>>

Delivering(h) == hs[h].pc = "running" /\ row[hs[h].task].kind = "deliver"

\* The lane is full: the handler gives its slot back and waits.
WaitForLane(h) ==
  /\ Delivering(h)
  /\ Goto(h, "waiting")
  /\ Fault
  /\ UNCHANGED <<row, stored, attempts, deactivated, batch, mode, accepted,
                 acked, lapse, dropped>>

\* It gets the lane, then a slot of the in-flight budget.
LaneAcquired(h) ==
  /\ hs[h].pc = "waiting"
  /\ SlotsHeld(hs[h].worker) < MaxInflight
  /\ Goto(h, "admitted")
  /\ UNCHANGED <<row, stored, attempts, deactivated, batch, mode, accepted,
                 acked, lapse, dropped, faults>>

\* deferForSaturation: neither came in time.
DeferForSaturation(h) ==
  /\ hs[h].pc = "waiting"
  /\ Defer(hs[h].task)
  /\ Finish(h)
  /\ UNCHANGED <<stored, attempts, deactivated, batch, mode, accepted, acked,
                 lapse, dropped, faults>>

\* Past the lane, either at once (TryAcquire) or after waiting.
PastLane(h) == Delivering(h) \/ hs[h].pc = "admitted"

\* handleDeliver removes the row without a request.
DeliverDrop(h) ==
  /\ \/ Delivering(h) /\ row[hs[h].task].ep \in deactivated /\ Drop(h, "endpoint_gone")
     \/ PastLane(h) /\ row[hs[h].task].msg \notin stored /\ Drop(h, "msg_gone")
     \/ PastLane(h) /\ row[hs[h].task].msg \in Unsendable /\ Drop(h, "unsendable")
  /\ UNCHANGED <<stored, attempts, deactivated, batch, mode, accepted, acked,
                 lapse, faults>>

\* requeueForBreaker: the attempt counter moves although no request was made.
RequeueForBreaker(h) ==
  /\ Delivering(h)
  /\ IF Exhausted(hs[h].attempt)
     THEN Drop(h, "breaker_exhausted")
     ELSE Retry(hs[h].task) /\ Finish(h) /\ UNCHANGED dropped
  /\ UNCHANGED <<stored, attempts, deactivated, batch, mode, accepted, acked,
                 lapse, faults>>

\* The payload is loaded and signed and the request goes out.
Send(h) ==
  /\ PastLane(h)
  /\ row[hs[h].task].msg \in stored \ Unsendable
  /\ Goto(h, "sent")
  /\ UNCHANGED <<row, stored, attempts, deactivated, batch, mode, accepted,
                 acked, lapse, dropped, faults>>

\* Mutant: recordAttempt asks the policy about the attempt it just made.
StatusEarly(ok, trig, attempt) ==
  IF ok THEN "succeeded"
  ELSE IF trig = "scheduled" /\ ~Exhausted(attempt + 1) THEN "pending_retry"
  ELSE "failed"

\* recordAttempt: the attempt's status, which also decides the row's fate.
StatusOf(ok, trig, attempt) ==
  IF ok THEN "succeeded"
  ELSE IF trig = "scheduled" /\ ~Exhausted(attempt) THEN "pending_retry"
  ELSE "failed"

\* Deliver returns, with a 2xx or with any failure, and recordAttempt runs up
\* to the sink.
Respond(h, ok) ==
  /\ hs[h].pc = "sent"
  /\ hs' = [hs EXCEPT ![h] = [@ EXCEPT !.pc = "recording",
                 !.status = StatusOf(ok, row[hs[h].task].trig, hs[h].attempt)]]
  /\ acked' = IF ok THEN acked \cup {hs[h].task} ELSE acked
  /\ UNCHANGED <<row, stored, attempts, deactivated, batch, mode, accepted,
                 lapse, dropped, faults>>

-----------------------------------------------------------------------------
(* The attempt writer: one goroutine per worker *)

\* AttemptWriter.Enqueue, which blocks while the buffer is full.
EnqueueRecord(h) ==
  /\ hs[h].pc = "recording"
  /\ Cardinality(InPhase(hs[h].worker, "buffered")) < BufferSize
  /\ Goto(h, "buffered")
  /\ UNCHANGED <<row, stored, attempts, deactivated, batch, mode, accepted,
                 acked, lapse, dropped, faults>>

\* ... or gives up when the task's context runs out: the lock is left alone.
EnqueueTimesOut(h) ==
  /\ hs[h].pc = "recording"
  /\ Finish(h)
  /\ Fault
  /\ UNCHANGED <<row, stored, attempts, deactivated, batch, mode, accepted,
                 acked, lapse, dropped>>

AttemptOf(h) == [task |-> hs[h].task, number |-> hs[h].attempt + 1,
                 status |-> hs[h].status]

\* Run takes a record from the channel into its batch.
Collect(h) ==
  LET w == hs[h].worker IN
  /\ hs[h].pc = "buffered"
  /\ InPhase(w, "copied") = {}
  /\ Cardinality(InPhase(w, "batched")) < BatchSize
  /\ Goto(h, "batched")
  /\ UNCHANGED <<row, stored, attempts, deactivated, batch, mode, accepted,
                 acked, lapse, dropped, faults>>

\* Mutant: the error of CopyAttempts is logged and finalize runs all the same.
FlushIgnoringError(w) ==
  LET B == InPhase(w, "batched") IN
  /\ B # {}
  /\ \/ attempts' = attempts \cup {AttemptOf(h) : h \in B} /\ NoFault
     \/ UNCHANGED attempts /\ Fault
  /\ hs' = [h \in Handlers |->
              IF h \in B THEN [hs[h] EXCEPT !.pc = "copied"] ELSE hs[h]]
  /\ UNCHANGED <<row, stored, deactivated, batch, mode, accepted, acked,
                 lapse, dropped>>

\* The batch is full, its timer fired, or the worker drains: flush writes it
\* with one COPY.  When that fails the batch is forgotten.
Flush(w) ==
  LET B == InPhase(w, "batched") IN
  /\ B # {}
  /\ \/ /\ attempts' = attempts \cup {AttemptOf(h) : h \in B}
        /\ hs' = [h \in Handlers |->
                    IF h \in B THEN [hs[h] EXCEPT !.pc = "copied"] ELSE hs[h]]
        /\ NoFault
     \/ /\ Forget(B)
        /\ Fault
        /\ UNCHANGED attempts
  /\ UNCHANGED <<row, stored, deactivated, batch, mode, accepted, acked,
                 lapse, dropped>>

\* finalize, first half: one Retry statement per record that asks for it.
FinalizeRetry(h) ==
  /\ hs[h].pc = "copied" /\ hs[h].status = "pending_retry"
  /\ Finish(h)
  /\ \/ Retry(hs[h].task) /\ NoFault
     \/ UNCHANGED row /\ Fault
  /\ UNCHANGED <<stored, attempts, deactivated, batch, mode, accepted, acked,
                 lapse, dropped>>

\* finalize, second half: one CompleteMany for the rest of the batch.
FinalizeComplete(w) ==
  LET done == InPhase(w, "copied") IN
  /\ done # {}
  /\ \A h \in done : hs[h].status # "pending_retry"
  /\ Forget(done)
  /\ \/ Complete({hs[h].task : h \in done}) /\ NoFault
     \/ UNCHANGED row /\ Fault
  /\ UNCHANGED <<stored, attempts, deactivated, batch, mode, accepted, acked,
                 lapse, dropped>>

-----------------------------------------------------------------------------
(* The worker process *)

\* SIGTERM: the context of the claim loop is cancelled.
Shutdown(w) ==
  /\ mode[w] = "up"
  /\ mode' = [mode EXCEPT ![w] = "stopping"]
  /\ Fault
  /\ UNCHANGED <<row, stored, attempts, deactivated, hs, batch, accepted,
                 acked, lapse, dropped>>

ClaimsOf(w) == {h \in Handlers : hs[h].pc # "idle" /\ hs[h].worker = w}

\* Runner.Run returns: the engines drained, the writer flushed.
Stopped(w) ==
  /\ mode[w] = "stopping"
  /\ ClaimsOf(w) = {}
  /\ mode' = [mode EXCEPT ![w] = "down"]
  /\ UNCHANGED <<row, stored, attempts, deactivated, hs, batch, accepted,
                 acked, lapse, dropped, faults>>

\* The process dies: what it held in memory is gone, its locks are not.
Crash(w) ==
  /\ mode[w] # "down"
  /\ mode' = [mode EXCEPT ![w] = "down"]
  /\ Forget(ClaimsOf(w))
  /\ batch' = [batch EXCEPT ![w] = {}]
  /\ Fault
  /\ UNCHANGED <<row, stored, attempts, deactivated, accepted, acked, lapse,
                 dropped>>

\* The supervisor starts the process again.
Restart(w) ==
  /\ mode[w] = "down"
  /\ mode' = [mode EXCEPT ![w] = "up"]
  /\ UNCHANGED <<row, stored, attempts, deactivated, hs, batch, accepted,
                 acked, lapse, dropped, faults>>

-----------------------------------------------------------------------------
Init ==
  /\ row = [i \in TaskIds |-> NoRow]
  /\ stored = {} /\ attempts = {} /\ deactivated = {}
  /\ hs = [h \in Handlers |-> NoClaim]
  /\ batch = [w \in Workers |-> {}]
  /\ mode = [w \in Workers |-> "up"]
  /\ accepted = {} /\ acked = {}
  /\ lapse = [i \in TaskIds |-> "none"]
  /\ dropped = [i \in TaskIds |-> "none"]
  /\ faults = 0

HandlerStep(h) ==
  \/ Start(h) \/ KeepLock(h) \/ DeferTask(h)
  \/ FanoutDrop(h) \/ FanoutExpand(h)
  \/ WaitForLane(h) \/ LaneAcquired(h) \/ DeferForSaturation(h)
  \/ DeliverDrop(h) \/ RequeueForBreaker(h) \/ Send(h)
  \/ \E ok \in BOOLEAN : Respond(h, ok)
  \/ EnqueueRecord(h) \/ EnqueueTimesOut(h) \/ Collect(h) \/ FinalizeRetry(h)

WorkerStep(w) ==
  \/ Claim(w) \/ ClaimLost(w) \/ ReleaseBatch(w)
  \/ Flush(w) \/ FinalizeComplete(w)
  \/ Shutdown(w) \/ Stopped(w) \/ Crash(w) \/ Restart(w)

QueueStep(i) == BecomeVisible(i) \/ Expire(i)

Environment ==
  \/ \E m \in Msgs : Ingest(m) \/ AgeOut(m)
  \/ \E m \in Msgs, e \in Endpoints : Resend(m, e)
  \/ \E e \in Endpoints : Deactivate(e)

Next ==
  \/ \E h \in Handlers : HandlerStep(h)
  \/ \E w \in Workers : WorkerStep(w)
  \/ \E i \in TaskIds : QueueStep(i)
  \/ RescueStuck
  \/ Environment

Spec == Init /\ [][Next]_vars

\* The process scheduler, the supervisor, the maintenance loop and the clock
\* keep going; callers of the API, faults and shutdowns are never forced.
FairSpec ==
  /\ Spec
  /\ \A h \in Handlers : WF_vars(HandlerStep(h))
  /\ \A w \in Workers : /\ WF_vars(Claim(w) \/ ReleaseBatch(w) \/ Stopped(w))
                         /\ WF_vars(Flush(w) \/ FinalizeComplete(w))
                         /\ WF_vars(Restart(w))
  /\ \A i \in TaskIds : WF_vars(BecomeVisible(i)) /\ WF_vars(Expire(i))
  /\ WF_vars(RescueStuck)

-----------------------------------------------------------------------------
(* Properties *)

Terminal == {"succeeded", "failed"}

Exclusive(i) ==
  \A h \in Holders(i) :
    /\ Live(i) /\ row[i].lockedBy = hs[h].worker /\ ~row[i].expired
    /\ hs[h].attempt = row[i].attempt
    /\ \A g \in Holders(i) : g = h

\* Claiming gives exclusive use of a task: as long as no lock on row i ran out
\* or was released under a running handler, at most one claim on i is in any
\* worker's memory, the row still exists, is locked by that worker, and the
\* attempt counter the handler read is the row's (QueueRepo.ClaimQuery; none of
\* Complete, Retry, Defer and Release checks the owner of the lock).
ExclusiveClaim == \A i \in TaskIds : lapse[i] = "none" => Exclusive(i)

\* The promise a removed row keeps: its own terminal attempt is durable, or it
\* was dropped for a reason that holds (AttemptWriter.flush before finalize;
\* the drop paths of handleFanout, handleDeliver and requeueForBreaker).
Excused(i) ==
  LET m == row[i].msg IN
  \/ /\ dropped[i] = "fanned_out" /\ row[i].kind = "fanout"
     /\ \A e \in Subscribed[m] \ deactivated : \E j \in TaskIds :
          /\ row[j].st # "unborn" /\ row[j].kind = "deliver"
          /\ row[j].trig = "scheduled" /\ row[j].msg = m /\ row[j].ep = e
  \/ dropped[i] = "no_match" /\ row[i].kind = "fanout" /\ Subscribed[m] \subseteq deactivated
  \/ dropped[i] = "msg_gone" /\ m \notin stored
  \/ dropped[i] = "endpoint_gone" /\ row[i].kind = "deliver" /\ row[i].ep \in deactivated
  \/ dropped[i] = "unsendable" /\ row[i].kind = "deliver" /\ m \in Unsendable
  \/ dropped[i] = "breaker_exhausted" /\ row[i].kind = "deliver" /\ Exhausted(row[i].attempt)

\* No acknowledged work is lost: a queue row only disappears once its outcome
\* is durable or there is nothing left to deliver, whatever crashes, expired
\* locks, stale handlers and failed writes came before (attempt_writer.go:
\* "flushes attempts before finalizing their queue rows").
NoSilentLoss ==
  \A i \in TaskIds : row[i].st = "gone" =>
    \/ \E a \in attempts : a.task = i /\ a.status \in Terminal
    \/ Excused(i)

\* The log tells the truth: a success was answered with a 2xx, a scheduled
\* delivery is only called failed once its schedule is used up, and only
\* scheduled deliveries promise another attempt (Engine.recordAttempt).
HonestLog ==
  \A a \in attempts :
    /\ row[a.task].st # "unborn" /\ row[a.task].kind = "deliver"
    /\ a.status = "succeeded" => a.task \in acked
    /\ a.status = "failed" => row[a.task].trig = "manual" \/ a.number > ScheduleLen
    /\ a.status = "pending_retry" => row[a.task].trig = "scheduled" /\ a.number <= ScheduleLen

\* A message reaches an endpoint through one scheduled row: while the fan-out
\* row never lost its lock, it is expanded at most once, and not at all while
\* it is still queued (the transaction of Engine.handleFanout).
FanoutOnce ==
  \A f \in TaskIds : row[f].kind = "fanout" /\ row[f].st # "unborn" /\ lapse[f] = "none" =>
    \A i, j \in TaskIds :
      (/\ row[i].kind = "deliver" /\ row[i].trig = "scheduled" /\ row[i].msg = row[f].msg
       /\ row[j].kind = "deliver" /\ row[j].trig = "scheduled" /\ row[j].msg = row[f].msg
       /\ row[i].ep = row[j].ep)
      => i = j /\ row[f].st = "gone"

\* README, "Eight attempts": a row whose locks never lapsed is attempted at most
\* len(schedule) + 1 times (QueueRepo.Retry adds to whatever counter it finds).
AttemptsWithinSchedule ==
  \A i \in TaskIds : lapse[i] = "none" =>
    /\ row[i].attempt <= ScheduleLen
    /\ \A a \in attempts : a.task = i => a.number <= ScheduleLen + 1

\* What no step takes back: a row keeps what it is for, its attempt counter never
\* goes down, a deleted row stays deleted, the attempt log only grows, and an
\* expired message does not return.  Stale handlers write by id alone, so this
\* is what stands between them and a row that somebody else has moved on
\* (QueueRepo.Complete, Retry, Defer and Release; AttemptRepo.CopyAttempts).
Advances ==
  /\ \A i \in TaskIds :
       /\ row[i].st # "unborn" =>
            /\ row'[i].st # "unborn" /\ SameTask(row[i], row'[i])
            /\ row[i].attempt <= row'[i].attempt
       /\ row[i].st = "gone" => row'[i] = row[i] /\ dropped'[i] = dropped[i]
       /\ lapse[i] # "none" => lapse'[i] = lapse[i]
  /\ attempts \subseteq attempts' /\ acked \subseteq acked'
  /\ accepted \subseteq accepted' /\ deactivated \subseteq deactivated'
  /\ stored' \cap accepted \subseteq stored

\* No step of any actor takes back what Advances lists (QueueRepo's statements
\* match by id only, so this also holds for a handler that lost its lock).
OnlyAdvances == [][Advances]_vars

-----------------------------------------------------------------------------
(* What the proofs add to make the properties above inductive *)

RowOK(i) ==
  /\ row[i].st # "live" => row[i].lockedBy = None
  /\ row[i].lockedBy = None => ~row[i].expired
  /\ row[i].st = "unborn" => row[i].kind = "fanout"
  /\ row[i].st # "unborn" => row[i].msg \in accepted
  /\ row[i].kind = "fanout" => row[i].trig = "scheduled"

DeliverPhase == {"waiting", "admitted", "sent", "recording", "buffered",
                 "batched", "copied"}
OutcomePhase == {"recording", "buffered", "batched", "copied"}

ClaimOK(h) ==
  LET i == hs[h].task IN
  hs[h].pc # "idle" =>
    /\ row[i].st # "unborn" /\ hs[h].attempt <= row[i].attempt
    /\ hs[h].pc \in DeliverPhase => row[i].kind = "deliver"
    /\ hs[h].pc \in OutcomePhase =>
         /\ hs[h].status = "succeeded" => i \in acked
         /\ hs[h].status = "failed" => row[i].trig = "manual" \/ Exhausted(hs[h].attempt)
         /\ hs[h].status = "pending_retry" => row[i].trig = "scheduled" /\ ~Exhausted(hs[h].attempt)
    /\ hs[h].pc = "copied" => AttemptOf(h) \in attempts

OneFanout ==
  \A f, g \in TaskIds :
    /\ row[f].st # "unborn" /\ row[f].kind = "fanout"
    /\ row[g].st # "unborn" /\ row[g].kind = "fanout"
    /\ row[f].msg = row[g].msg
    => f = g

\* What a worker believes about a row it claimed: the row was created by an
\* accepted message, its counter is not behind the claim's, an outcome in memory
\* is one the endpoint gave, and a record on its way to finalize is durable
\* (Engine.recordAttempt and AttemptWriter.flush, across every stale claim).
ClaimsConsistent ==
  /\ \A i \in TaskIds : RowOK(i)
  /\ \A h \in Handlers : ClaimOK(h)
  /\ OneFanout

-----------------------------------------------------------------------------
(* Liveness, and what a comment claims *)

\* Every queued row eventually leaves the queue, faults being finite: whatever
\* return left it locked, the lock expires and RescueStuck hands it on, and the
\* retry schedule ends (Engine.handle, Maintenance.rescueStuckTasks).
QueueDrains == \A i \in TaskIds : Live(i) ~> row[i].st = "gone"

\* engine.go:308: "Give back what has not been started".  A lock that nobody's
\* slowness ran out is never taken from a handler that is already working.
OnlyUnstartedReleased == \A i \in TaskIds : lapse[i] # "release"

-----------------------------------------------------------------------------
(* Delivery implements DeliveryContract *)

Owed == {p \in Msgs \X Endpoints : p[1] \in accepted /\ p[2] \in Subscribed[p[1]]}

IsFor(i, p) == row[i].msg = p[1] /\ row[i].kind = "deliver" /\ row[i].ep = p[2]

\* Settled for the sender: some attempt succeeded, the scheduled attempts ran
\* out, or the code gave the pair up for a reason it logs.
SettledPairs ==
  {p \in Owed :
     \/ p[1] \notin stored \/ p[1] \in Unsendable \/ p[2] \in deactivated
     \/ \E a \in attempts :
          /\ IsFor(a.task, p)
          /\ \/ a.status = "succeeded"
             \/ a.status = "failed" /\ row[a.task].trig = "scheduled"
     \/ \E i \in TaskIds : /\ IsFor(i, p) /\ row[i].trig = "scheduled"
                           /\ dropped[i] = "breaker_exhausted"}

QueuedPairs ==
  {p \in Owed : \E i \in TaskIds :
     /\ Live(i) /\ row[i].msg = p[1]
     /\ row[i].kind = "fanout" \/ row[i].ep = p[2]}

Contract == INSTANCE DeliveryContract
  WITH owed <- Owed, settled <- SettledPairs, queued <- QueuedPairs

\* README: huxio "takes responsibility for delivering it ... until it succeeds
\* or is provably exhausted": no step takes an unsettled pair out of the queue,
\* and nothing unsettles a pair.
KeepsContract == Contract!Spec

\* The other half of the promise: every pair an ingest made owed is eventually
\* settled, through fan-out, retries, crashes and rescues (Engine.handleFanout,
\* Engine.handleDeliver).
OwedIsSettled == \A p \in Msgs \X Endpoints : p \in Owed ~> p \in SettledPairs

=============================================================================
