-------------------------------- MODULE Replay --------------------------------
(* Recover, replay and resend (AttemptUseCase): what failed for good is read   *)
(* from the delivery log and put back into the queue while workers go on       *)
(* delivering and their attempts reach the log late.                           *)
(*                                                                             *)
(* Message ids are numbers in the order ListFailedDeliveries sorts them.  They *)
(* are minted by the program, so the branch for an id that does not parse is   *)
(* not reachable.  Every recorded attempt has a time of its own.               *)
EXTENDS Integers, FiniteSets, FiniteSetsExt

CONSTANTS
  Msgs, Endpoints,
  EventType,       \* the event type of each message
  TypeSets,        \* the event types callers of replay name
  Windows,         \* the windows callers ask for: [since, until], until = -1 is open
  MaxReplayBatch,  \* usecases.MaxReplayBatch
  MaxTasks,        \* bound on queued tasks per delivery
  MaxBuffered,     \* capacity of the attempt writers
  MaxAttempts,     \* bound on recorded attempts
  MaxFailures,     \* bound on failing requests
  MaxFaults,       \* bound on failing Enqueue statements
  MaxResends       \* bound on manual resends

Deliveries == Msgs \X Endpoints
Types == {EventType[m] : m \in Msgs}

ReplayAssumption ==
  /\ Msgs \subseteq Nat /\ EventType \in [Msgs -> Types]
  /\ {MaxReplayBatch, MaxTasks, MaxBuffered} \subseteq Nat \ {0}
  /\ {MaxAttempts, MaxFailures, MaxFaults, MaxResends} \subseteq Nat
  /\ TypeSets \subseteq SUBSET Types
  /\ \A w \in Windows : w.since \in Nat /\ w.until \in Nat \cup {-1}

VARIABLES
  clock,     \* time of the last recorded attempt
  log,       \* delivery_attempt
  buffered,  \* attempts not yet copied, with the retry they carry
  queue,     \* deliver tasks per delivery: scheduled ones and those with one attempt
  call,      \* the replay in progress, or the last one
  failures, faults, resends

vars == <<clock, log, buffered, queue, call, failures, faults, resends>>

Status == {"succeeded", "pending", "failed"}
NoCall == [phase |-> "none", open |-> TRUE, todo |-> {}, listed |-> {}, put |-> {},
           truncated |-> FALSE, enqueued |-> 0, wanted |-> {}, types |-> {}, settled |-> {}]

(* One type invariant. *)
TypeOK ==
  /\ clock \in Nat
  /\ \A a \in log \cup buffered : a.d \in Deliveries /\ a.at \in 1..clock /\ a.status \in Status
  /\ queue \in [Deliveries -> [scheduled: 0..1, once: 0..MaxTasks]]
  /\ call.phase \in {"none", "enqueue", "ok", "error"}
  /\ {call.todo, call.listed, call.put, call.wanted, call.settled} \subseteq SUBSET Deliveries
  /\ call.enqueued \in 0..Cardinality(Deliveries)
  /\ failures \in 0..MaxFailures /\ faults \in 0..MaxFaults /\ resends \in 0..MaxResends

Init ==
  /\ clock = 0 /\ log = {} /\ buffered = {} /\ call = NoCall
  /\ queue = [d \in Deliveries |-> [scheduled |-> 1, once |-> 0]]
  /\ failures = 0 /\ faults = 0 /\ resends = 0

-------------------------------------------------------------------------------
(* The workers. *)

\* recordAttempt: success, a retry of a scheduled task, or the final failure.
\* A task with trigger manual or bulk replay has no retry.
Attempt(d, kind, status) ==
  /\ queue[d][kind] > 0 /\ Cardinality(buffered) < MaxBuffered /\ clock < MaxAttempts
  /\ status = "pending" => kind = "scheduled"
  /\ status # "succeeded" => failures < MaxFailures
  /\ failures' = IF status = "succeeded" THEN failures ELSE failures + 1
  /\ clock' = clock + 1
  /\ buffered' = buffered \cup {[d |-> d, at |-> clock + 1, status |-> status]}
  /\ queue' = [queue EXCEPT ![d][kind] = @ - 1]
  /\ UNCHANGED <<log, call, faults, resends>>

\* A task leaves the queue without an attempt: its endpoint is gone or switched
\* off, its message is gone or cannot be decoded or signed, or the breaker was open
\* until its attempts were used up.
Drop(d, kind) ==
  /\ queue[d][kind] > 0
  /\ queue' = [queue EXCEPT ![d][kind] = @ - 1]
  /\ UNCHANGED <<clock, log, buffered, call, failures, faults, resends>>

\* The writer copies an attempt, then retries or completes its task.
Copy(a) ==
  /\ buffered' = buffered \ {a}
  /\ log' = log \cup {a}
  /\ queue' = IF a.status = "pending" THEN [queue EXCEPT ![a.d].scheduled = 1] ELSE queue
  /\ UNCHANGED <<clock, call, failures, faults, resends>>

-------------------------------------------------------------------------------
(* The callers. *)

InWindow(a, w) == a.at >= w.since /\ (w.until # -1 => a.at < w.until)
validateReplayWindow(w) == w.until # -1 => w.until > w.since

\* DISTINCT ON (msg_id, endpoint_id) ... ORDER BY created_at DESC over the rows
\* that pass the filter.
Latest(S, d) ==
  LET rows == {a \in S : a.d = d}
  IN {a \in rows : \A b \in rows : b.at <= a.at}
FailedAny(S) == {d \in Deliveries : \E a \in S : a.d = d /\ a.status = "failed"}
FailedLatest(S) == {d \in Deliveries : \E a \in Latest(S, d) : a.status = "failed"}

\* ORDER BY msg_id LIMIT n; within a message the order is the database's choice.
ListFailedDeliveries(S, n) ==
  LET failed == FailedLatest(S)
  IN {T \in SUBSET failed :
        /\ Cardinality(T) = Min({n, Cardinality(failed)})
        /\ \A d \in T, e \in failed \ T : d[1] <= e[1]}

\* The rows the endpoint filter and the window select.  Replay's event types
\* are accepted and do not reach the filter.
Selected(eps, w) == {a \in log : a.d[2] \in eps /\ InWindow(a, w)}

\* The first MaxReplayBatch of one more than that.
ReadBatchExact(eps, w) ==
  {[rows |-> T, truncated |-> FALSE] : T \in ListFailedDeliveries(Selected(eps, w), MaxReplayBatch)}
ReadBatch(eps, w) ==
  LET listings == ListFailedDeliveries(Selected(eps, w), MaxReplayBatch + 1)
      firsts(F) == {T \in SUBSET F : /\ Cardinality(T) = Min({Cardinality(F), MaxReplayBatch})
                                     /\ \A d \in T, e \in F \ T : d[1] <= e[1]}
  IN UNION {{[rows |-> T, truncated |-> Cardinality(F) > MaxReplayBatch] : T \in firsts(F)} : F \in listings}

\* Recover (one endpoint) and Replay (a set, or all) up to the listing.
replay(eps, types, w) ==
  /\ call.phase # "enqueue" /\ validateReplayWindow(w)
  /\ \E batch \in ReadBatch(eps, w) :
       call' = [phase |-> IF batch.rows = {} THEN "ok" ELSE "enqueue",
                open |-> w.until = -1,
                todo |-> batch.rows, listed |-> batch.rows, put |-> {},
                truncated |-> batch.truncated, enqueued |-> 0, types |-> types,
                \* what the definition of a failed delivery says at this point
                wanted |-> {d \in Deliveries : \E a \in log :
                              /\ a.d = d /\ a.status = "failed" /\ d[2] \in eps /\ InWindow(a, w)
                              /\ \A b \in log : b.d = d => b.at <= a.at},
                settled |-> {d \in Deliveries : \E a \in log :
                              /\ a.d = d /\ a.status = "succeeded"
                              /\ \A b \in log : b.d = d => b.at <= a.at}]
  /\ UNCHANGED <<clock, log, buffered, queue, failures, faults, resends>>
Recover(ep, w) == replay({ep}, Types, w)
ReplayByFilter(eps, types, w) == replay(IF eps = {} THEN Endpoints ELSE eps, types, w)

\* One statement inserts the tasks of one message.
Tasks(m) == {d \in call.todo : d[1] = m}
Queued(D) ==
  /\ \A d \in D : queue[d].once < MaxTasks
  /\ queue' = [d \in Deliveries |-> IF d \in D THEN [queue[d] EXCEPT !.once = @ + 1] ELSE queue[d]]

enqueueReplays(m) ==
  LET D == Tasks(m)
      more == call.todo \ D
  IN /\ call.phase = "enqueue" /\ D # {} /\ Queued(D)
     /\ call' = [call EXCEPT !.todo = more, !.put = @ \cup D, !.enqueued = @ + Cardinality(D),
                             !.phase = IF more = {} THEN "ok" ELSE "enqueue"]
     /\ UNCHANGED <<clock, log, buffered, failures, faults, resends>>

\* The statement fails, or its answer is lost: the call returns an error, and the
\* tasks of earlier messages stay queued.
enqueueFails(m) ==
  /\ call.phase = "enqueue" /\ Tasks(m) # {} /\ faults < MaxFaults
  /\ faults' = faults + 1
  /\ \/ call' = [call EXCEPT !.phase = "error"] /\ UNCHANGED queue
     \/ call' = [call EXCEPT !.phase = "error", !.put = @ \cup Tasks(m)] /\ Queued(Tasks(m))
  /\ UNCHANGED <<clock, log, buffered, failures, resends>>

\* Resend: one more attempt, whatever the log says.
Resend(d) ==
  /\ resends < MaxResends /\ queue[d].once < MaxTasks
  /\ resends' = resends + 1
  /\ queue' = [queue EXCEPT ![d].once = @ + 1]
  /\ UNCHANGED <<clock, log, buffered, call, failures, faults>>

Deliver(d) ==
  \E kind \in {"scheduled", "once"} : Drop(d, kind) \/ \E status \in Status : Attempt(d, kind, status)
RecoverAll == \E ep \in Endpoints, w \in Windows : Recover(ep, w)

Next ==
  \/ \E d \in Deliveries : Deliver(d) \/ Resend(d)
  \/ \E a \in buffered : Copy(a)
  \/ RecoverAll
  \/ \E eps \in SUBSET Endpoints, w \in Windows, types \in TypeSets : ReplayByFilter(eps, types, w)
  \/ \E m \in Msgs : enqueueReplays(m) \/ enqueueFails(m)

Spec == Init /\ [][Next]_vars

\* Workers, writers and the request's goroutine go on, and the operator of each
\* endpoint keeps asking for a recovery until nothing is left.  What comes of a
\* task, success, failure or nothing, is left open.
FairSpec ==
  /\ Spec
  /\ \A d \in Deliveries : WF_vars(Deliver(d))
  /\ WF_vars(\E a \in buffered : Copy(a))
  /\ WF_vars(\E m \in Msgs : enqueueReplays(m))
  /\ \A ep \in Endpoints : SF_vars(\E w \in Windows : Recover(ep, w))

-------------------------------------------------------------------------------
(* Properties. *)

(* A replay that is answered without error and without "truncated" has queued  *)
(* every delivery whose last attempt, of all the log held when it was read,    *)
(* failed inside the window, and its count is the number of tasks it queued,   *)
(* although the tasks go in message by message; a call that ends in an error   *)
(* has queued at least what it counted (replay, enqueueReplays).               *)
AnswerIsComplete ==
  /\ call.phase = "ok" /\ ~call.truncated => call.wanted \subseteq call.put
  /\ call.enqueued <= Cardinality(call.put)
  /\ call.phase # "error" => call.enqueued = Cardinality(call.put)

(* With an open-ended window no delivery is queued whose last attempt in the   *)
(* log succeeded or is to be retried (ListFailedDeliveries).                   *)
OpenReplayTakesOnlyFailed == call.phase # "none" /\ call.open => call.put \subseteq call.wanted

(* The most recent attempt of a delivery failed for good: nothing but a        *)
(* recovery sends it again.                                                    *)
FailedForGood(d) == \E a \in Latest(log, d) : a.status = "failed"
\* The failed deliveries that a recovery of d's endpoint lists before d.
Ahead(d) == {e \in Deliveries : e[2] = d[2] /\ e[1] < d[1] /\ FailedForGood(e)}

(* Every recovery starts from the first failed message and is cut off at       *)
(* MaxReplayBatch.  An operator who repeats it has a failed delivery queued    *)
(* again, however often it fails again or is dropped, unless a full batch of   *)
(* deliveries of earlier messages is failed at some later moment.  So only a   *)
(* full batch that keeps failing, or whose tasks are dropped, shuts a delivery *)
(* out for good (replay, ListFailedDeliveries).                                *)
RepeatedRecoveryReaches ==
  \A d \in Deliveries :
    FailedForGood(d) ~> \/ queue[d].once > 0 \/ ~FailedForGood(d)
                        \/ Cardinality(Ahead(d)) >= MaxReplayBatch

(* A message that failed once and then succeeded on retry is not replayed,     *)
(* whatever window the caller asks for.                                        *)
DeliveredIsNotReplayed == call.put \cap call.settled = {}

(* Replay goes by filter across endpoints and event types: a delivery of an    *)
(* event type the caller did not name is not queued.                           *)
OnlyNamedEventTypes == \A d \in call.put : EventType[d[1]] \in call.types
===============================================================================
