------------------------------ MODULE MCCluster ------------------------------
(* Several huxio processes on one database: the partition leases of workers    *)
(* (PartitionLeases), the maintenance leader (Maintenance), the start and stop  *)
(* of processes (Process) and their copies of the configuration                 *)
(* (ConfigSnapshot).                                                            *)
(*                                                                              *)
(* The components share no variable here.  part says which one of them runs,    *)
(* so that a run explores the sum of their state spaces and not the product.    *)
EXTENDS Naturals, TLC

CONSTANTS Parts, n1, n2, n3, None, e1, e2

VARIABLES
  part,
  registry, lease, wk, failed,                          \* PartitionLeases
  today, parts, leader, pr, covered, broken,            \* Maintenance
  proc, schema, lock, workers, routed, launches, sent, work, faults,
  clashed, bounced, killed, lost, leftover, timedOut,   \* Process
  clock, app, ep, since, unannounced, mgr, fan, dlv, missed, misses  \* ConfigSnapshot

Off == "off"
leaseVars == <<registry, lease, wk, failed>>
maintVars == <<today, parts, leader, pr, covered, broken>>
procVars == <<proc, schema, lock, workers, routed, launches, sent, work, faults,
              clashed, bounced, killed, lost, leftover, timedOut>>
snapVars == <<clock, app, ep, since, unannounced, mgr, fan, dlv, missed, misses>>

\* Two workers, three partitions, two failures.
W == INSTANCE PartitionLeases WITH
  Workers <- {n1, n2}, Partitions <- {"p1", "p2", "p3"}, MaxFaults <- 2, faults <- failed

\* Two loops over four days, different retention of the two tables, one failure.
M == INSTANCE Maintenance WITH
  Processes <- {n1, n2}, Ahead <- 1, RetainMessages <- 1, RetainAttempts <- 2,
  MaxDay <- 3, MaxFaults <- 1, lease <- leader, faults <- broken

\* Two nodes start together on a database that is two migrations behind, and one of them
\* again; they end before their workers run.
Deploy == INSTANCE Process WITH
  Nodes <- {n1, n2}, Misset <- {n1, n2}, Target <- 2, MaxLaunches <- 3,
  MaxReqs <- 0, MaxWork <- 0, MaxFaults <- 1, registry <- workers

\* One node with requests and deliveries is stopped, or fails, and is started again.
Drain == INSTANCE Process WITH
  Nodes <- {n3}, Misset <- {}, Target <- 0, MaxLaunches <- 2,
  MaxReqs <- 2, MaxWork <- 2, MaxFaults <- 1, registry <- workers

\* One process, two endpoints, one message, one failure.
C == INSTANCE ConfigSnapshot WITH
  Nodes <- {n3}, Endpoints <- {e1, e2}, Messages <- {"m1"}, MaxClock <- 4, MaxFaults <- 1,
  lost <- missed, faults <- misses

ASSUME ClusterSizes ==
  /\ W!LeaseAssumption /\ M!MaintenanceAssumption
  /\ Deploy!ProcessAssumption /\ Drain!ProcessAssumption /\ C!SnapshotAssumption

\* A component that does not take part has no state.
LeasesOff == registry = Off /\ lease = Off /\ wk = Off /\ failed = Off
MaintOff ==
  today = Off /\ parts = Off /\ leader = Off /\ pr = Off /\ covered = Off /\ broken = Off
ProcOff ==
  /\ proc = Off /\ schema = Off /\ lock = Off /\ workers = Off /\ routed = Off
  /\ launches = Off /\ sent = Off /\ work = Off /\ faults = Off /\ clashed = Off
  /\ bounced = Off /\ killed = Off /\ lost = Off /\ leftover = Off /\ timedOut = Off
SnapOff ==
  /\ clock = Off /\ app = Off /\ ep = Off /\ since = Off /\ unannounced = Off
  /\ mgr = Off /\ fan = Off /\ dlv = Off /\ missed = Off /\ misses = Off

MCInit ==
  /\ part \in Parts
  /\ IF part = "leases" THEN W!Init ELSE LeasesOff
  /\ IF part = "maintenance" THEN M!Init ELSE MaintOff
  /\ CASE part = "deploy" -> Deploy!Init [] part = "drain" -> Drain!Init [] OTHER -> ProcOff
  /\ IF part = "snapshot" THEN C!Init ELSE SnapOff
MCNext ==
  /\ UNCHANGED part
  /\ \/ part = "leases" /\ W!Next /\ UNCHANGED <<maintVars, procVars, snapVars>>
     \/ part = "maintenance" /\ M!Next /\ UNCHANGED <<leaseVars, procVars, snapVars>>
     \/ part = "deploy" /\ Deploy!Next /\ UNCHANGED <<leaseVars, maintVars, snapVars>>
     \/ part = "drain" /\ Drain!Next /\ UNCHANGED <<leaseVars, maintVars, snapVars>>
     \/ part = "snapshot" /\ C!Next /\ UNCHANGED <<leaseVars, maintVars, procVars>>
MCVars == <<part, leaseVars, maintVars, procVars, snapVars>>
MCSpec == MCInit /\ [][MCNext]_MCVars

\* Processes, and endpoints, are interchangeable.
Symmetry == Permutations({n1, n2}) \cup Permutations({e1, e2})
------------------------------------------------------------------------------
(* Two workers claim from one partition only while one of them is between  *)
(* giving up its excess in the table and in memory, or has had no          *)
(* heartbeat go through since its lease ran out or since the table took    *)
(* back its excess and the answer was lost. After a heartbeat that goes    *)
(* through a worker serves only what the table gives it, and after a       *)
(* release that goes through it holds nothing (LeaseManager.rebalance,     *)
(* release).                                                               *)
LeasesHold ==
  part = "leases" => W!LeasesHold

(* A table whose last complete creation pass is at most Ahead days old     *)
(* takes every write of the days that pass prepared, whatever old and new  *)
(* leaders do meanwhile, and two loops are at work at once only if the     *)
(* lease of one ran out under it (Loop.Run, EnsureDailyPartitions).        *)
MaintenanceKeepsUp ==
  part = "maintenance" => M!MaintenanceKeepsUp

(* Nodes that start together do not fail on each other's migrations, also  *)
(* when one crashes in the middle. A process that ends in order has        *)
(* written every attempt it made, is no longer counted as a live worker,   *)
(* and has answered every request it accepted unless the ten seconds for   *)
(* it have passed (newProvider, Runner.Run, serve).                        *)
ProcessesAreOrderly ==
  /\ (part = "deploy" => Deploy!TypeOK /\ Deploy!NoMigrationClash)
  /\ (part = "drain" => Drain!TypeOK /\ Drain!AttemptsAreFlushed /\ Drain!GoneIsDeregistered /\ Drain!AcceptedIsAnswered)

(* A manager that rests, with every change announced and none missed, has  *)
(* the configuration as it is. A delivery that is due is dropped only on a *)
(* snapshot whose first query ran before the task was queued, or that left *)
(* the endpoint out for its secret, and a snapshot stamped older than the  *)
(* task is never a reason to drop a fan-out or a task of an unknown        *)
(* endpoint (Manager.Run, handleFanout, handleDeliver).                    *)
SnapshotIsTrusted ==
  part = "snapshot" => C!SnapshotIsTrusted

(* No step drops data that is within its own table's retention, even of a  *)
(* loop that lost the lease long ago and drops what it listed then         *)
(* (DropPartitionsBefore), and none takes a process back to an older       *)
(* configuration (Manager.Load).                                           *)
NothingIsUndone == [][(part = "maintenance" => M!DropsOnlyOld)
                      /\ (part = "snapshot" => C!NeverOlder)]_MCVars

(* The comment in handleFanout on a fan-out that matches nothing: "any     *)
(* endpoint that existed when the fan-out was queued is then in it"        *)
(* (engine.go:438-440).                                                    *)
EmptyMatchIsSafe == part = "snapshot" => C!EmptyMatchIsSafe
==============================================================================
