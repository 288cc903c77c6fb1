---------------------------- MODULE MCApiProgress ----------------------------
(* That requests, deliveries, replays, counts and processes get somewhere, under  *)
(* the fairness of the FairSpecs of Idempotency, Outbound, Replay, RateLimit and  *)
(* Process.                                                                       *)
(*                                                                                *)
(* The components share no variable here.  part says which one of them runs; the  *)
(* others stay in their initial states.                                           *)
EXTENDS Integers

CONSTANTS Parts

VARIABLES
  part,
  hour, dns, entry, call, changes, calls, dialled, served,   \* Outbound
  proc, schema, lock, workers, routed, launches, sent, work, procFaults, clashed,
  bounced, killed, lost, leftover, timedOut,   \* Process
  keyRow, req, created, excuse, overlap, keyFaults,   \* Idempotency
  now, up, beat, count, limiter, sweep, admitted, fresh, total, changed,
  rateFaults,   \* RateLimit
  time, history, unwritten, queue, replay, failures, replayFaults, resends   \* Replay

outVars == <<hour, dns, entry, call, changes, calls, dialled, served>>
procVars == <<proc, schema, lock, workers, routed, launches, sent, work, procFaults,
              clashed, bounced, killed, lost, leftover, timedOut>>
keyVars == <<keyRow, req, created, excuse, overlap, keyFaults>>
rateVars == <<now, up, beat, count, limiter, sweep, admitted, fresh, total, changed,
              rateFaults>>
replayVars == <<time, history, unwritten, queue, replay, failures, replayFaults, resends>>

\* A recovery of all failed deliveries, with no end.
Everything == {[since |-> 0, until |-> -1]}

\* Two deliveries, two addresses of which one is allowed.
Client == INSTANCE Outbound WITH
  Calls <- {"c1", "c2"}, Addrs <- {"a1", "a2"}, Allowed <- {"a1"}, TTL <- 2, NegTTL <- 1,
  MaxTime <- 1, MaxChanges <- 0, MaxCalls <- 2,
  now <- hour

\* Two processes, one of them misconfigured, with a request and a delivery.
Drain == INSTANCE Process WITH
  Nodes <- {"n1", "n2"}, Misset <- {"n1"}, Target <- 0, MaxLaunches <- 1,
  MaxReqs <- 1, MaxWork <- 1, MaxFaults <- 1,
  registry <- workers, faults <- procFaults

\* Two clients with one key, two crashes.
Sends == INSTANCE Idempotency WITH
  Requests <- {"r1", "r2"}, MaxMessages <- 2, MaxFaults <- 2,
  row <- keyRow, faults <- keyFaults

\* Two nodes that come and go.
Counts == INSTANCE RateLimit WITH
  Nodes <- {"n1", "n2"}, Keys <- {}, Limit <- 2, PerSecond <- 1, IdleEviction <- 2, TTL <- 2,
  MaxTime <- 5, MaxFaults <- 2,
  seen <- beat, faults <- rateFaults

\* Two messages whose every attempt may fail or be dropped, a batch of one, repeated
\* recoveries of everything.
Recoveries == INSTANCE Replay WITH
  Msgs <- {1, 2}, Endpoints <- {"e1"}, EventType <- <<"invoice", "user">>, TypeSets <- {},
  Windows <- Everything, MaxReplayBatch <- 1, MaxTasks <- 1, MaxBuffered <- 1, MaxAttempts <- 4,
  MaxFailures <- 3, MaxFaults <- 1, MaxResends <- 0,
  clock <- time, log <- history, buffered <- unwritten, call <- replay, faults <- replayFaults

ASSUME ProgressSizes ==
  /\ Client!OutboundAssumption /\ Drain!ProcessAssumption
  /\ Sends!IdempotencyAssumption /\ Counts!RateAssumption
  /\ Recoveries!ReplayAssumption

\* The component that runs leaves the others alone.
InClient ==
  /\ part = "client"
  /\ UNCHANGED <<part, procVars, keyVars, rateVars, replayVars>>
InDrain ==
  /\ part = "process"
  /\ UNCHANGED <<part, outVars, keyVars, rateVars, replayVars>>
InSends ==
  /\ part = "keys"
  /\ UNCHANGED <<part, outVars, procVars, rateVars, replayVars>>
InCounts ==
  /\ part = "counts"
  /\ UNCHANGED <<part, outVars, procVars, keyVars, replayVars>>
InRecoveries ==
  /\ part = "replay"
  /\ UNCHANGED <<part, outVars, procVars, keyVars, rateVars>>

MCInit ==
  /\ part \in Parts /\ Client!Init /\ Drain!Init /\ Sends!Init /\ Counts!Init /\ Recoveries!Init
  /\ (part # "counts" => up = {"n1", "n2"})
  /\ (part # "client" => dns = {})
MCNext ==
  \/ InClient /\ Client!Next
  \/ InDrain /\ Drain!Next
  \/ InSends /\ Sends!Next
  \/ InCounts /\ Counts!Next
  \/ InRecoveries /\ Recoveries!Next
MCVars == <<part, outVars, procVars, keyVars, rateVars, replayVars>>

\* Each component takes the steps its own FairSpec promises.
ClientFair ==
  /\ WF_outVars(part = "client" /\ Client!Tick)
  /\ \A c \in {"c1", "c2"} :
       /\ WF_outVars(part = "client" /\ Client!Progress(c))
DrainFair ==
  /\ \A n \in {"n1", "n2"} :
       /\ WF_procVars(part = "process" /\ Drain!Starting(n))
       /\ WF_procVars(part = "process" /\ Drain!listenOnce(n))
       /\ WF_procVars(part = "process" /\ Drain!ListenStops(n))
       /\ WF_procVars(part = "process" /\ Drain!ListenAndServe(n))
       /\ WF_procVars(part = "process" /\ Drain!register(n))
       /\ WF_procVars(part = "process" /\ Drain!Attempted(n))
       /\ WF_procVars(part = "process" /\ Drain!Flush(n))
       /\ WF_procVars(part = "process" /\ Drain!Stopping(n))
       /\ WF_procVars(part = "process" /\ Drain!Wait(n))
       /\ WF_procVars(part = "process" /\ Drain!Exit(n))
SendsFair ==
  /\ WF_keyVars(part = "keys" /\ Sends!Expire)
  /\ \A r \in {"r1", "r2"} :
       /\ WF_keyVars(part = "keys" /\ Sends!Send(r))
       /\ WF_keyVars(part = "keys" /\ Sends!Serve(r))
CountsFair ==
  /\ WF_rateVars(part = "counts" /\ Counts!Tick)
  /\ \A n \in {"n1", "n2"} :
       /\ WF_rateVars(part = "counts" /\ Counts!refresh(n))
RecoveriesFair ==
  /\ \A d \in Recoveries!Deliveries :
       /\ WF_replayVars(part = "replay" /\ Recoveries!Deliver(d))
  /\ WF_replayVars(part = "replay" /\ (\E a \in unwritten : Recoveries!Copy(a)))
  /\ WF_replayVars(part = "replay" /\ (\E m \in {1, 2} : Recoveries!enqueueReplays(m)))
  /\ SF_replayVars(part = "replay" /\ (\E w \in Everything : Recoveries!Recover("e1", w)))
MCFairSpec ==
  /\ MCInit /\ [][MCNext]_MCVars
  /\ ClientFair /\ DrainFair /\ SendsFair /\ CountsFair /\ RecoveriesFair

------------------------------------------------------------------------------
(* Every delivery gets its result: the lookup and the attempts at each     *)
(* address come to an end (DialContext's loop). A signalled process exits, *)
(* whatever it was doing and whoever keeps a connection to it open         *)
(* (serve's shutdown as a whole).                                          *)
WorkEnds ==
  /\ (part = "client" => Client!DeliveryEnds)
  /\ (part = "process" => Drain!SignalledExits)

(* A key is never blocked for good: clients that retry are handled or answered
   again and again, whatever crashed holding the lock (idempotency.go:26-27),
   without the help of the purge. *)
KeyIsNotWedged == part = "keys" => Sends!KeyIsNotWedged

(* When processes stop coming and going, with a TTL of time left in the run,   *)
(* every node ends up with the number of nodes that are there (refresh, the    *)
(* registry's TTL).                                                            *)
CountsConverge == part = "counts" => Counts!CountsConverge

(* Every recovery starts from the first failed message and is cut off at   *)
(* MaxReplayBatch. An operator who repeats it has a failed delivery queued *)
(* again, however often it fails again or is dropped, unless a full batch  *)
(* of deliveries of earlier messages is failed at some later moment; only  *)
(* a batch that keeps failing, or whose tasks are dropped, shuts it out    *)
(* for good (replay, ListFailedDeliveries).                                *)
RepeatedRecoveryReaches == part = "replay" => Recoveries!RepeatedRecoveryReaches
==============================================================================
