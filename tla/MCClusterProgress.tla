-------------------------- MODULE MCClusterProgress --------------------------
(* What leases, partitions and snapshots come to in the end, under the fairness   *)
(* of their FairSpecs (PartitionLeases, Maintenance, ConfigSnapshot).             *)
(*                                                                                *)
(* The components share no variable here.  part says which one of them runs; the  *)
(* others stay in their initial states.                                           *)
EXTENDS Integers

CONSTANTS Parts

VARIABLES
  part,
  registry, leases, wk, leaseFaults,   \* PartitionLeases
  today, parts, lease, pr, covered, maintFaults,   \* Maintenance
  clock, app, ep, since, unannounced, mgr, fan, dlv, missed, snapFaults   \* ConfigSnapshot

leaseVars == <<registry, leases, wk, leaseFaults>>
maintVars == <<today, parts, lease, pr, covered, maintFaults>>
snapVars == <<clock, app, ep, since, unannounced, mgr, fan, dlv, missed, snapFaults>>

\* Two workers, two partitions, one failure.
Leases == INSTANCE PartitionLeases WITH
  Workers <- {"w1", "w2"}, Partitions <- {"p1", "p2"}, None <- "none", MaxFaults <- 1,
  lease <- leases, faults <- leaseFaults

\* Two loops over three days, one failure.
Maintainers == INSTANCE Maintenance WITH
  Processes <- {"w1", "w2"}, Ahead <- 1, RetainMessages <- 1, RetainAttempts <- 1,
  MaxDay <- 2, MaxFaults <- 1,
  faults <- maintFaults

\* One process, one endpoint, one message, one failed load.
Snapshot == INSTANCE ConfigSnapshot WITH
  Nodes <- {"n1"}, Endpoints <- {"e1"}, Messages <- {"m1"}, MaxClock <- 4, MaxFaults <- 1,
  lost <- missed, faults <- snapFaults

ASSUME ProgressSizes ==
  /\ Leases!LeaseAssumption /\ Maintainers!MaintenanceAssumption
  /\ Snapshot!SnapshotAssumption

\* The component that runs leaves the others alone.
InLeases ==
  /\ part = "leases"
  /\ UNCHANGED <<part, maintVars, snapVars>>
InMaintainers ==
  /\ part = "maintenance"
  /\ UNCHANGED <<part, leaseVars, snapVars>>
InSnapshot ==
  /\ part = "snapshot"
  /\ UNCHANGED <<part, leaseVars, maintVars>>

MCInit ==
  /\ part \in Parts /\ Leases!Init /\ Maintainers!Init /\ Snapshot!Init
MCNext ==
  \/ InLeases /\ Leases!Next
  \/ InMaintainers /\ Maintainers!Next
  \/ InSnapshot /\ Snapshot!Next
MCVars == <<part, leaseVars, maintVars, snapVars>>

\* Each component takes the steps its own FairSpec promises.
LeasesFair ==
  /\ \A w \in {"w1", "w2"} :
       /\ WF_leaseVars(part = "leases" /\ Leases!Rebalance(w))
       /\ WF_leaseVars(part = "leases" /\ Leases!Heartbeat(w))
       /\ WF_leaseVars(part = "leases" /\ Leases!Release(w))
       /\ WF_leaseVars(part = "leases" /\ Leases!Deregister(w))
       /\ WF_leaseVars(part = "leases" /\ ~Leases!Up(w) /\ Leases!RegistryExpires(w))
  /\ \A p \in {"p1", "p2"} :
       /\ WF_leaseVars(part = "leases" /\ (\A w \in {"w1", "w2"} : p \notin Leases!Serving(w))
                       /\ Leases!LeaseExpires(p))
MaintainersFair ==
  /\ WF_maintVars(part = "maintenance" /\ Maintainers!LeaseExpires)
  /\ \A w \in {"w1", "w2"} :
       /\ WF_maintVars(part = "maintenance" /\ Maintainers!Work(w))
       /\ SF_maintVars(part = "maintenance" /\ Maintainers!PartitionTick(w) /\ pr'[w].pc = "ensure")
SnapshotFair ==
  /\ WF_snapVars(part = "snapshot" /\ Snapshot!Announce)
  /\ WF_snapVars(part = "snapshot" /\ Snapshot!Load("n1"))
  /\ WF_snapVars(part = "snapshot" /\ Snapshot!Refresh("n1"))
  /\ WF_snapVars(part = "snapshot" /\ Snapshot!Handle("n1"))
MCFairSpec ==
  /\ MCInit /\ [][MCNext]_MCVars
  /\ LeasesFair /\ MaintainersFair /\ SnapshotFair

------------------------------------------------------------------------------
(* Whatever failed and whoever left, the workers that stay end up serving
   every partition, each by one of them, for good: nothing stays with a dead
   worker and shares never leave a gap (lease_manager.go:104-170). *)
SharesSettle == part = "leases" => Leases!SharesSettle

(* Once no process starts or stops any more and one is up, leaders that crashed
   or whose statements failed are replaced: the coming days get their partitions
   and the days past retention lose theirs. *)
PartitionsCatchUp == part = "maintenance" => Maintainers!PartitionsCatchUp

(* Whatever notifications and loads fail, each process eventually has the
   configuration as it is: the refresh interval makes up for a lost NOTIFY
   (manager.go:119-160). *)
ChangesArrive == part = "snapshot" => Snapshot!ChangesArrive
==============================================================================
