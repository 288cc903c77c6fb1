---------------------------- MODULE MessageIntake ----------------------------
(* Accepting messages of one application: validation, the id and its time, the  *)
(* transaction with the unique index of event ids, replies that get lost, the   *)
(* read by id and the drop of old days.                                         *)
(*                                                                              *)
(* Time runs in seconds, which is what a message id carries.  A day has         *)
(* DaySecs of them.  A transaction's rows are visible once it has committed;    *)
(* an insert whose key another open transaction holds waits for that one.       *)
EXTENDS Integers, FiniteSets

CONSTANTS
  Callers,
  EventIDs,
  Periods,       \* retention periods callers ask for, in days
  MaxPeriod,     \* the longest one validate accepts (365)
  DefaultPeriod, \* RetentionMessagesDays: the default, and what maintenance keeps
  DaySecs,
  MaxTime, MaxRequests, MaxFaults

IntakeAssumption ==
  /\ Periods \subseteq Nat /\ {MaxPeriod, MaxTime, MaxRequests, MaxFaults} \subseteq Nat
  /\ DefaultPeriod \in Nat \ {0} /\ DaySecs \in Nat \ {0}

NoUID == "no event id"
NoPeriod == -1

VARIABLES
  now, call,
  stored,   \* message rows committed and not dropped
  queued,   \* history: messages whose fan-out row has committed
  dropped,  \* history: messages dropped with their day, and the day it was
  requests, faults

vars == <<now, call, stored, queued, dropped, requests, faults>>

Day(s) == s \div DaySecs
\* A message; id numbers it, at is the time in its id, created and expires its columns.
Message == [id: 1..MaxRequests, at: 0..MaxTime, uid: EventIDs \cup {NoUID}, created: 0..MaxTime, expires: Nat]
Nobody == [id |-> 0, at |-> 0, uid |-> NoUID, created |-> 0, expires |-> 0]
Call == [step: {"idle", "insert", "enqueue", "commit"}, msg: Message \cup {Nobody},
         reply: {"none", "202", "400", "409", "500"}]
Idle == [step |-> "idle", msg |-> Nobody, reply |-> "none"]

(* One type invariant. *)
TypeOK ==
  /\ now \in 0..MaxTime /\ requests \in 0..MaxRequests /\ faults \in 0..MaxFaults
  /\ call \in [Callers -> Call]
  /\ stored \subseteq Message /\ queued \subseteq Message
  /\ dropped \subseteq Message \X Nat

Init ==
  /\ now = 0 /\ call = [c \in Callers |-> Idle]
  /\ stored = {} /\ queued = {} /\ dropped = {} /\ requests = 0 /\ faults = 0

Reply(c, code) == call' = [call EXCEPT ![c] = [Idle EXCEPT !.reply = code]]
Fault == faults < MaxFaults /\ faults' = faults + 1

-------------------------------------------------------------------------------
Tick == now < MaxTime /\ now' = now + 1 /\ UNCHANGED <<call, stored, queued, dropped, requests, faults>>

\* The other fields that validate looks at decide nothing that is modelled.
validate(period) == period = NoPeriod \/ (0 < period /\ period <= MaxPeriod)

\* The row's created_at is the time in the id.
\* Mutant: the time of the insert.
CreatedNow(m) == now
CreatedAt(m) == m.at
ExpiresAt(at, period) == Day(at) + (IF period = NoPeriod THEN DefaultPeriod ELSE period)

\* A request arrives and is checked; its message gets an id.
Ingest(c) ==
  /\ call[c].step = "idle" /\ requests < MaxRequests /\ requests' = requests + 1
  /\ \E uid \in EventIDs \cup {NoUID}, period \in Periods \cup {NoPeriod} :
       IF validate(period)
       THEN LET m == [id |-> requests + 1, at |-> now, uid |-> uid, created |-> now,
                      expires |-> ExpiresAt(now, period)] IN
            call' = [call EXCEPT ![c] = [step |-> "insert", msg |-> m, reply |-> "none"]]
       ELSE Reply(c, "400")
  /\ UNCHANGED <<now, stored, queued, dropped, faults>>

\* The unique index covers the event id and the time.
SameKey(m, n) == m.uid # NoUID /\ m.uid = n.uid /\ m.created = n.created
Open(c) == {call[d].msg : d \in {e \in Callers \ {c} : call[e].step \in {"enqueue", "commit"}}}
\* What an insert meets: an open transaction to wait for, or a row.
\* Mutant: an open transaction is not noticed.
WaitsNever(c, m) == FALSE
Waits(c, m) == \E n \in Open(c) : SameKey(m, n)
Conflicts(m) == \E n \in stored : SameKey(m, n)
CreateMessage(c) ==
  LET m == [call[c].msg EXCEPT !.created = CreatedAt(call[c].msg)] IN
  /\ call[c].step = "insert" /\ ~Waits(c, m)
  /\ IF Conflicts(m)
     THEN Reply(c, "409")
     ELSE call' = [call EXCEPT ![c].step = "enqueue", ![c].msg = m]
  /\ UNCHANGED <<now, stored, queued, dropped, requests, faults>>
\* The fan-out row joins the transaction.
\* Mutant: the message commits on its own.
AtEnqueueAlone(m) == stored' = stored \cup {m}
AtEnqueue(m) == UNCHANGED stored
Enqueue(c) ==
  /\ call[c].step = "enqueue" /\ call' = [call EXCEPT ![c].step = "commit"] /\ AtEnqueue(call[c].msg)
  /\ UNCHANGED <<now, queued, dropped, requests, faults>>
\* The commit; its answer may be lost.
Commit(c) ==
  /\ call[c].step = "commit"
  /\ stored' = stored \cup {call[c].msg} /\ queued' = queued \cup {call[c].msg}
  /\ \/ Reply(c, "202") /\ UNCHANGED faults
     \/ Fault /\ Reply(c, "500")
  /\ UNCHANGED <<now, dropped, requests>>
\* A statement fails, or the process dies: the transaction is rolled back.
Rollback(c) ==
  /\ call[c].step # "idle" /\ Fault /\ Reply(c, "500")
  /\ UNCHANGED <<now, stored, queued, dropped, requests>>

\* Maintenance drops a whole day that is past the configured retention.
DropDay ==
  LET old == {m \in stored : Day(m.created) < Day(now) - DefaultPeriod} IN
  /\ old # {} /\ stored' = stored \ old
  /\ dropped' = dropped \cup {<<m, Day(now)>> : m \in old}
  /\ UNCHANGED <<now, call, queued, requests, faults>>

\* GetMessage looks in the day its id names.
GetMessage(m) == {n \in stored : n.id = m.id /\ Day(n.created) = Day(m.at)}

Serve(c) == Ingest(c) \/ CreateMessage(c) \/ Enqueue(c) \/ Commit(c) \/ Rollback(c)
Next == Tick \/ DropDay \/ \E c \in Callers : Serve(c)
Spec == Init /\ [][Next]_vars

-------------------------------------------------------------------------------
(* Properties. *)

(* A message and its fan-out row are there together or not at all, whatever     *)
(* fails in between (Ingest's transaction).                                     *)
StoredIsQueued == stored \subseteq queued

(* Of requests with one event id in the same second one is accepted, also when  *)
(* they run at once (message_uid_idx).                                          *)
OncePerSecond == \A m, n \in stored : SameKey(m, n) => m = n

(* A stored message is found by its id, although only one day is searched       *)
(* (Ingest takes created_at from the id; MessageUseCase.GetMessage).            *)
FoundById == \A m \in stored : GetMessage(m) = {m}

(* What a caller may rely on once its message is accepted. *)
IntakeIsSound == TypeOK /\ StoredIsQueued /\ OncePerSecond /\ FoundById

(* An event id is accepted once: it is the tenant's deduplication key.          *)
EventIdIsUnique == \A m, n \in stored : m.uid # NoUID /\ m.uid = n.uid => m = n

(* A message is kept for the retention period its request asked for.            *)
PeriodIsHonoured == \A p \in dropped : p[2] > p[1].expires
===============================================================================
