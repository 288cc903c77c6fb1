---------------------------- MODULE Maintenance ----------------------------
(***************************************************************************)
(* The maintenance loop (maintenance/loop.go): the named lease that elects  *)
(* its leader (lease_repo.go), the housekeeping of a rescue tick, and the   *)
(* daily partitions of the message and attempt tables                       *)
(* (maintenance_repo.go), statement by statement.  What the rescue, reap    *)
(* and purge statements do to their tables is in Delivery, PartitionLeases  *)
(* and Idempotency.                                                         *)
(***************************************************************************)
EXTENDS Integers

CONSTANTS Processes,
          Ahead,             \* PartitionsAhead
          RetainMessages, RetainAttempts,   \* days
          MaxDay,            \* the last day looked at
          MaxFaults          \* failed statements and crashes

NoOne == "nobody"   \* the lease row without an owner

MaintenanceAssumption ==
    /\ Ahead \in Nat /\ RetainMessages \in Nat \ {0} /\ RetainAttempts \in Nat \ {0}
    /\ MaxDay \in Nat \ {0} /\ MaxFaults \in Nat /\ NoOne \notin Processes

VARIABLES today,
          parts,     \* parts[t]: the days table t has a partition for
          lease,     \* the named_lease row
          pr,        \* the maintenance loops
          covered,   \* history: the last day table t had a complete creation pass
          faults
vars == <<today, parts, lease, pr, covered, faults>>

Tables == {"message", "attempt"}
Retention(t) == IF t = "message" THEN RetainMessages ELSE RetainAttempts
Day == -(RetainMessages + RetainAttempts) .. MaxDay + Ahead + 1
NoLease == [owner |-> NoOne, expired |-> FALSE]

(* rescue, reap, purge: the statement that comes next; ensure, list, drop: of
   managePartitions for table t.  lapsed is history: the lease ran out during
   the work it was taken for. *)
Phase == {"down", "boot", "idle", "rescue", "reap", "purge", "ensure", "list", "drop"}
Loop == [pc : Phase, leader : BOOLEAN, t : Tables, from : Day, next : Day,
         doomed : SUBSET Day, lapsed : BOOLEAN]
Resting(pc, leader) == [pc |-> pc, leader |-> leader, t |-> "message", from |-> 0, next |-> 0,
                        doomed |-> {}, lapsed |-> FALSE]
Working == {"rescue", "reap", "purge", "ensure", "list", "drop"}

TypeOK ==
    /\ today \in 1 .. MaxDay
    /\ parts \in [Tables -> SUBSET Day] /\ covered \in [Tables -> 1 .. MaxDay]
    /\ lease \in [owner : Processes \cup {NoOne}, expired : BOOLEAN]
    /\ pr \in [Processes -> Loop] /\ faults \in 0 .. MaxFaults

(* The migration creates yesterday and the days ahead. *)
Init ==
    /\ today = 1 /\ parts = [t \in Tables |-> 0 .. 1 + Ahead] /\ covered = [t \in Tables |-> 1]
    /\ lease = NoLease /\ faults = 0
    /\ pr = [p \in Processes |-> Resting("down", FALSE)]

Fail == faults < MaxFaults /\ faults' = faults + 1
Step(p, l) == pr' = [pr EXCEPT ![p] = l]

-----------------------------------------------------------------------------
(* Leadership.                                                              *)

(* A mutant: an expired lease is never taken over. *)
GrantedUnexpired(p) == lease.owner \in {NoOne, p}

(* A mutant: the lease is taken whoever owns it. *)
GrantedAlways(p) == TRUE

Granted(p) == lease.owner \in {NoOne, p} \/ lease.expired

ManageFrom(p) == [Resting("ensure", TRUE) EXCEPT !.from = today, !.next = today]

(* acquireLeadership at a tick; job is what the leader goes on to do. *)
Acquire(p, job) ==
    \/ /\ Granted(p)
       /\ lease' = [owner |-> p, expired |-> FALSE]
       /\ Step(p, job) /\ UNCHANGED faults
    \/ /\ ~Granted(p)
       /\ Step(p, Resting("idle", FALSE)) /\ UNCHANGED <<lease, faults>>
    \/ Fail /\ Step(p, Resting("idle", FALSE)) /\ UNCHANGED lease

Start(p) ==
    /\ pr[p].pc = "down" /\ Step(p, Resting("boot", FALSE))
    /\ UNCHANGED <<today, parts, lease, covered, faults>>

Boot(p) ==
    /\ pr[p].pc = "boot" /\ Acquire(p, ManageFrom(p))
    /\ UNCHANGED <<today, parts, covered>>

RescueTick(p) ==
    /\ pr[p].pc = "idle" /\ Acquire(p, Resting("rescue", TRUE))
    /\ UNCHANGED <<today, parts, covered>>

PartitionTick(p) ==
    /\ pr[p].pc = "idle" /\ Acquire(p, ManageFrom(p))
    /\ UNCHANGED <<today, parts, covered>>

(* The context ends: whatever statement is next fails, and the lease is given
   back by the loop that thinks it leads.  That statement may fail too. *)
Released(p) == IF lease.owner = p THEN NoLease ELSE lease

Stop(p) ==
    /\ pr[p].pc # "down" /\ Step(p, Resting("down", FALSE))
    /\ \/ lease' = (IF pr[p].leader THEN Released(p) ELSE lease) /\ UNCHANGED faults
       \/ Fail /\ UNCHANGED lease
    /\ UNCHANGED <<today, parts, covered>>

-----------------------------------------------------------------------------
(* The leader's work.                                                       *)

(* Each statement may fail, which is logged; the next one runs all the same. *)
Housekeep(p) ==
    /\ pr[p].pc \in {"rescue", "reap", "purge"}
    /\ Step(p, CASE pr[p].pc = "rescue" -> [pr[p] EXCEPT !.pc = "reap"]
                 [] pr[p].pc = "reap" -> [pr[p] EXCEPT !.pc = "purge"]
                 [] pr[p].pc = "purge" -> Resting("idle", TRUE))
    /\ UNCHANGED <<today, parts, lease, covered, faults>>

(* continue with the attempt table, or leave managePartitions. *)
NextTable(p) ==
    IF pr[p].t = "message"
    THEN [pr[p] EXCEPT !.pc = "ensure", !.t = "attempt", !.from = today, !.next = today,
                       !.doomed = {}]
    ELSE Resting("idle", TRUE)

(* A mutant: one day too few. *)
LastDayShort(from) == from + Ahead - 1

LastDay(from) == from + Ahead

(* CREATE TABLE IF NOT EXISTS for one day; an error skips the drop as well. *)
EnsureDay(p) ==
    LET l == pr[p] IN
    /\ l.pc = "ensure"
    /\ \/ /\ parts' = [parts EXCEPT ![l.t] = @ \cup {l.next}]
          /\ IF l.next < LastDay(l.from)
             THEN Step(p, [l EXCEPT !.next = l.next + 1]) /\ UNCHANGED covered
             ELSE /\ Step(p, [l EXCEPT !.pc = "list"])
                  /\ covered' = [covered EXCEPT ![l.t] = IF @ < l.from THEN l.from ELSE @]
          /\ UNCHANGED faults
       \/ Fail /\ Step(p, NextTable(p)) /\ UNCHANGED <<parts, covered>>
    /\ UNCHANGED <<today, lease>>

(* A mutant: both tables are cut by the retention of the messages. *)
CutoffShared(t) == today - RetainMessages

Cutoff(t) == today - Retention(t)

ListPartitions(p) ==
    LET l == pr[p] IN
    /\ l.pc = "list"
    /\ \/ /\ Step(p, [l EXCEPT !.pc = "drop", !.doomed = {d \in parts[l.t] : d < Cutoff(l.t)}])
          /\ UNCHANGED faults
       \/ Fail /\ Step(p, NextTable(p))
    /\ UNCHANGED <<today, parts, lease, covered>>

(* DROP TABLE IF EXISTS, oldest first; an error ends the table's pass. *)
DropPartition(p) ==
    LET l == pr[p] IN
    /\ l.pc = "drop"
    /\ \/ /\ l.doomed = {} /\ Step(p, NextTable(p)) /\ UNCHANGED <<parts, faults>>
       \/ \E d \in l.doomed :
            /\ \A e \in l.doomed : d <= e
            /\ parts' = [parts EXCEPT ![l.t] = @ \ {d}]
            /\ Step(p, [l EXCEPT !.doomed = @ \ {d}]) /\ UNCHANGED faults
       \/ Fail /\ l.doomed # {} /\ Step(p, NextTable(p)) /\ UNCHANGED parts
    /\ UNCHANGED <<today, lease, covered>>

-----------------------------------------------------------------------------
(* Time and crashes.                                                        *)

Crash(p) ==
    /\ pr[p].pc # "down" /\ Fail /\ Step(p, Resting("down", FALSE))
    /\ UNCHANGED <<today, parts, lease, covered>>

(* LeaseTTL passes without a heartbeat, also while its owner is at work. *)
LeaseExpires ==
    /\ lease.owner # NoOne /\ ~lease.expired
    /\ lease' = [lease EXCEPT !.expired = TRUE]
    /\ pr' = [p \in Processes |->
                [pr[p] EXCEPT !.lapsed = @ \/ (p = lease.owner /\ pr[p].pc \in Working)]]
    /\ UNCHANGED <<today, parts, covered, faults>>

NewDay ==
    /\ today < MaxDay /\ today' = today + 1
    /\ UNCHANGED <<parts, lease, pr, covered, faults>>

Work(p) == Boot(p) \/ Housekeep(p) \/ EnsureDay(p) \/ ListPartitions(p) \/ DropPartition(p)

Next ==
    \/ \E p \in Processes : \/ Start(p) \/ Stop(p) \/ Crash(p) \/ Work(p)
                            \/ RescueTick(p) \/ PartitionTick(p)
    \/ LeaseExpires \/ NewDay

Spec == Init /\ [][Next]_vars

(* The tickers fire and the statements return; time passes.  A leader renews its
   lease at every tick, so leadership does not change hands just before each
   hourly partition tick for ever: a tick that would be granted again and again
   is granted in the end.  Processes are not obliged to start. *)
FairSpec ==
    /\ Spec /\ WF_vars(LeaseExpires)
    /\ \A p \in Processes : WF_vars(Work(p)) /\ SF_vars(PartitionTick(p) /\ pr'[p].pc = "ensure")

-----------------------------------------------------------------------------
(* Properties.                                                              *)

(* Data is dropped only past its own table's retention, also by a loop that
   lost the lease long ago and drops what it listed then. *)
DropsOnlyOld ==
    \A t \in Tables : \A d \in parts[t] \ parts'[t] : d < today - Retention(t)
RetentionIsKept == [][DropsOnlyOld]_vars

(* A table whose last complete creation pass is at most Ahead days old takes
   every write of today and of the rest of the days that pass prepared,
   whatever other leaders, old or new, do meanwhile. *)
WritesArePrepared ==
    \A t \in Tables : today .. covered[t] + Ahead \subseteq parts[t]

(* Two loops are at work at once only if the lease of one ran out under it. *)
OneLeaderUnlessLapsed ==
    \A p, q \in Processes :
        p # q /\ pr[p].pc \in Working /\ pr[q].pc \in Working => pr[p].lapsed \/ pr[q].lapsed

(* What the maintenance loop keeps up, whoever leads it. *)
MaintenanceKeepsUp == TypeOK /\ WritesArePrepared /\ OneLeaderUnlessLapsed

(* Once no process starts or stops any more and one is up, leaders that crashed
   or whose statements failed are replaced: the coming days get their partitions
   and the days past retention lose theirs. *)
PartitionsCatchUp ==
    /\ \A p \in Processes : <>[](pr[p].pc = "down") \/ <>[](pr[p].pc # "down")
    /\ \E p \in Processes : <>[](pr[p].pc # "down")
    => <>[](\A t \in Tables : /\ today .. today + Ahead \subseteq parts[t]
                              /\ \A d \in parts[t] : d >= today - Retention(t))

(* loop.go:5-6: the lease is there "so exactly one instance is active
   cluster-wide". *)
OneInstanceActive ==
    \A p, q \in Processes : pr[p].pc \in Working /\ pr[q].pc \in Working => p = q
=============================================================================
