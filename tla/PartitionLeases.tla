-------------------------- MODULE PartitionLeases --------------------------
(***************************************************************************)
(* Which worker claims from which queue partition: the lease managers of a *)
(* pool's workers (internal/application/dispatch/lease_manager.go), the    *)
(* tables they share (lease_repo.go: worker_registry, partition_lease) and *)
(* the registration, heartbeat and shutdown of the process (runner.go).    *)
(*                                                                         *)
(* A rebalance is several statements with other workers between them, and  *)
(* a worker claims tasks from the partitions in its memory, not from those *)
(* the table gives it.  A worker id is made up when the process starts, so *)
(* a process that has ended never comes back under its id.                 *)
(***************************************************************************)
EXTENDS Integers, FiniteSets

CONSTANTS Workers,      \* the ids of the processes that are ever started
          Partitions,   \* the fixed partition set of the pool
          MaxFaults,    \* how many statements fail, workers crash or stall
          None          \* no owner: owner_id IS NULL

LeaseAssumption == /\ IsFiniteSet(Workers)
                   /\ IsFiniteSet(Partitions)
                   /\ MaxFaults \in Nat
                   /\ None \notin Workers

VARIABLES registry,     \* worker_registry: whether w has a row, and a recent one
          lease,        \* partition_lease: owner and whether its heartbeat is recent
          wk,           \* the lease manager of each worker
          faults
vars == <<registry, lease, wk, faults>>

Modes == {"new", "up", "stopping", "released", "gone"}
Places == {"idle", "renewed", "counted", "shed"}

(* mode: life of the process; at: where rebalance is; share: the fair share
   it computed; owned: the AtomicPartitions the engine reads; adrift: the part
   of owned whose lease ran out, or was given up by a statement whose answer
   was lost, since the last heartbeat that went through (history); keep: what
   owned becomes after shedding. *)
Manager == [mode : Modes, at : Places, share : 0 .. Cardinality(Partitions),
            owned : SUBSET Partitions, adrift : SUBSET Partitions,
            keep : SUBSET Partitions]

Row == [owner : Workers \cup {None}, fresh : BOOLEAN]

TypeOK ==
    /\ registry \in [Workers -> {"absent", "fresh", "stale"}]
    /\ lease \in [Partitions -> Row]
    /\ wk \in [Workers -> Manager]
    /\ faults \in 0 .. MaxFaults
    /\ \A p \in Partitions : lease[p].fresh => lease[p].owner # None
    /\ \A w \in Workers : /\ wk[w].adrift \subseteq wk[w].owned
                          /\ wk[w].keep \subseteq wk[w].owned
                          /\ wk[w].mode \in {"new", "released", "gone"} => wk[w].owned = {}

Free == [owner |-> None, fresh |-> FALSE]
HeldBy(w) == {p \in Partitions : lease[p].owner = w}
Live == {w \in Workers : registry[w] = "fresh"}
Up(w) == wk[w].mode = "up"

(* The partitions worker w claims tasks from. *)
Serving(w) == IF Up(w) THEN wk[w].owned ELSE {}

(* A statement that reports an error may have been carried out all the same:
   the error is then a lost answer. *)
Fail == faults < MaxFaults /\ faults' = faults + 1

Freed(S) == [p \in Partitions |-> IF p \in S THEN Free ELSE lease[p]]
Renewed(S) == [p \in Partitions |-> IF p \in S THEN [lease[p] EXCEPT !.fresh = TRUE] ELSE lease[p]]

Goto(w, place) == wk' = [wk EXCEPT ![w].at = place]
GiveUp(w) == Goto(w, "idle")   \* an error return of rebalance, or its end

Init ==
    /\ registry = [w \in Workers |-> "absent"]
    /\ lease = [p \in Partitions |-> Free]
    /\ wk = [w \in Workers |-> [mode |-> "new", at |-> "idle", share |-> 0,
                                owned |-> {}, adrift |-> {}, keep |-> {}]]
    /\ faults = 0

-----------------------------------------------------------------------------
(* The process and its registry row.                                        *)

(* Run registers before it starts anything; an error ends the process. *)
Register(w) ==
    /\ wk[w].mode = "new"
    /\ registry' = [registry EXCEPT ![w] = "fresh"]
    /\ wk' = [wk EXCEPT ![w].mode = "up"]
    /\ UNCHANGED <<lease, faults>>

(* The heartbeat upserts the row, so a reaped row comes back. *)
Heartbeat(w) ==
    /\ Up(w)
    /\ registry[w] # "fresh"
    /\ registry' = [registry EXCEPT ![w] = "fresh"]
    /\ UNCHANGED <<lease, wk, faults>>

(* A shutdown reaches the manager between two rebalances: statements of the
   current one fail with the cancelled context and it returns.  What it had
   already released stays released. *)
Stop(w) ==
    /\ Up(w)
    /\ wk' = [wk EXCEPT ![w].mode = "stopping", ![w].at = "idle",
                        ![w].owned = IF wk[w].at = "shed" THEN wk[w].keep ELSE @,
                        ![w].adrift = {}, ![w].keep = {}]
    /\ UNCHANGED <<registry, lease, faults>>

(* A mutant of Release: only the leases in memory are given up. *)
ReleaseKnown(w) ==
    /\ wk[w].mode = "stopping"
    /\ wk' = [wk EXCEPT ![w].mode = "released", ![w].owned = {}]
    /\ lease' = Freed(HeldBy(w) \cap wk[w].owned)
    /\ UNCHANGED <<registry, faults>>

(* release gives up every lease the table has for w, whether or not w still
   knows of it, and forgets its own set even if the statement fails. *)
Release(w) ==
    /\ wk[w].mode = "stopping"
    /\ wk' = [wk EXCEPT ![w].mode = "released", ![w].owned = {}]
    /\ \/ lease' = Freed(HeldBy(w)) /\ UNCHANGED faults
       \/ Fail /\ lease' \in {lease, Freed(HeldBy(w))}
    /\ UNCHANGED registry

(* The last step of Run, after the drain. *)
Deregister(w) ==
    /\ wk[w].mode = "released"
    /\ wk' = [wk EXCEPT ![w].mode = "gone"]
    /\ \/ registry' = [registry EXCEPT ![w] = "absent"] /\ UNCHANGED faults
       \/ Fail /\ registry' \in {registry, [registry EXCEPT ![w] = "absent"]}
    /\ UNCHANGED lease

Crash(w) ==
    /\ wk[w].mode \in {"up", "stopping", "released"}
    /\ Fail
    /\ wk' = [wk EXCEPT ![w] = [mode |-> "gone", at |-> "idle", share |-> 0,
                                owned |-> {}, adrift |-> {}, keep |-> {}]]
    /\ UNCHANGED <<registry, lease>>

-----------------------------------------------------------------------------
(* rebalance, statement by statement.                                       *)

(* A mutant of Renew: the set the statement returned is not stored. *)
RenewBlind(w) ==
    /\ Up(w) /\ wk[w].at = "idle"
    /\ lease' = Renewed(wk[w].owned \cap HeldBy(w))
    /\ wk' = [wk EXCEPT ![w].at = "renewed", ![w].adrift = {}]
    /\ UNCHANGED <<registry, faults>>

(* HeartbeatPartitions renews what the table still gives w, however old. *)
Renew(w) ==
    /\ Up(w) /\ wk[w].at = "idle"
    /\ LET kept == wk[w].owned \cap HeldBy(w) IN
       \/ /\ lease' = Renewed(kept)
          /\ wk' = [wk EXCEPT ![w].at = "renewed", ![w].owned = kept, ![w].adrift = {}]
          /\ UNCHANGED faults
       \/ wk[w].owned # {} /\ Fail /\ lease' \in {lease, Renewed(kept)} /\ UNCHANGED wk
    /\ UNCHANGED registry

Max1(n) == IF n < 1 THEN 1 ELSE n
FairShare(n) == (Cardinality(Partitions) + n - 1) \div n

CountLiveWorkers(w) ==
    /\ Up(w) /\ wk[w].at = "renewed"
    /\ \/ /\ wk' = [wk EXCEPT ![w].at = "counted",
                              ![w].share = FairShare(Max1(Cardinality(Live)))]
          /\ UNCHANGED faults
       \/ Fail /\ GiveUp(w)
    /\ UNCHANGED <<registry, lease>>

(* More than the share: the table loses the excess first ...  When the release
   reports an error the memory keeps the excess, whether or not the table does. *)
Shed(w) ==
    /\ Up(w) /\ wk[w].at = "counted"
    /\ Cardinality(wk[w].owned) > wk[w].share
    /\ \E keep \in SUBSET wk[w].owned :
          LET excess == wk[w].owned \ keep IN
          /\ Cardinality(keep) = wk[w].share
          /\ \/ /\ lease' = Freed(HeldBy(w) \cap excess)
                /\ wk' = [wk EXCEPT ![w].at = "shed", ![w].keep = keep]
                /\ UNCHANGED faults
             \/ /\ Fail /\ lease' = Freed(HeldBy(w) \cap excess)
                /\ wk' = [wk EXCEPT ![w].at = "idle", ![w].adrift = @ \cup excess]
             \/ Fail /\ GiveUp(w) /\ UNCHANGED lease
    /\ UNCHANGED registry

(* ... and the worker's memory second. *)
StoreKept(w) ==
    /\ Up(w) /\ wk[w].at = "shed"
    /\ wk' = [wk EXCEPT ![w].at = "idle", ![w].owned = wk[w].keep,
                        ![w].adrift = @ \cap wk[w].keep, ![w].keep = {}]
    /\ UNCHANGED <<registry, lease, faults>>

(* Mutants of Claimable: expired leases are never taken over; the expiry test
   is dropped, so anyone's lease may be taken. *)
ClaimableUnexpired(w) == {p \in Partitions : lease[p].owner \in {w, None}}

ClaimableAny(w) == Partitions

Claimable(w) == {p \in Partitions : lease[p].owner \in {w, None} \/ ~lease[p].fresh}

(* ORDER BY (owner_id = $2) DESC: NULL, which a free row yields, sorts before
   true in descending order, so free rows come before w's own. *)
Rank(w, p) == CASE lease[p].owner = None -> 0 [] lease[p].owner = w -> 1 [] OTHER -> 2

(* What the claim statement may return: LIMIT rows, best rank first. *)
FirstOf(w, limit) ==
    {C \in SUBSET Claimable(w) :
        /\ Cardinality(C) = IF limit < Cardinality(Claimable(w)) THEN limit
                                                               ELSE Cardinality(Claimable(w))
        /\ \A p \in C, q \in Claimable(w) \ C : Rank(w, p) <= Rank(w, q)}

(* Fewer than the share: the rows returned become the whole owned set.  When
   the answer is lost the leases are taken and not known. *)
Claim(w) ==
    /\ Up(w) /\ wk[w].at = "counted"
    /\ Cardinality(wk[w].owned) < wk[w].share
    /\ \/ \E C \in FirstOf(w, wk[w].share) :
             /\ lease' = [p \in Partitions |-> IF p \in C THEN [owner |-> w, fresh |-> TRUE]
                                                          ELSE lease[p]]
             /\ \/ /\ wk' = [wk EXCEPT ![w].at = "idle", ![w].owned = C, ![w].adrift = {}]
                   /\ UNCHANGED faults
                \/ Fail /\ GiveUp(w)
       \/ Fail /\ GiveUp(w) /\ UNCHANGED lease
    /\ UNCHANGED registry

Keep(w) ==
    /\ Up(w) /\ wk[w].at = "counted"
    /\ Cardinality(wk[w].owned) = wk[w].share
    /\ GiveUp(w)
    /\ UNCHANGED <<registry, lease, faults>>

-----------------------------------------------------------------------------
(* The clock, and the reaper of the maintenance leader.                     *)

(* A worker that renews in time keeps its rows recent, so the rows of a
   running worker go stale only when it stalls. *)
RegistryExpires(w) ==
    /\ registry[w] = "fresh"
    /\ registry' = [registry EXCEPT ![w] = "stale"]
    /\ IF Up(w) THEN Fail ELSE UNCHANGED faults
    /\ UNCHANGED <<lease, wk>>

LeaseExpires(p) ==
    /\ lease[p].fresh
    /\ lease' = [lease EXCEPT ![p].fresh = FALSE]
    /\ LET w == lease[p].owner IN
       IF p \in Serving(w)
       THEN Fail /\ wk' = [wk EXCEPT ![w].adrift = @ \cup {p}]
       ELSE UNCHANGED <<wk, faults>>
    /\ UNCHANGED registry

ReapDeadWorkers ==
    /\ \E w \in Workers : registry[w] = "stale"
    /\ registry' = [w \in Workers |-> IF registry[w] = "stale" THEN "absent" ELSE registry[w]]
    /\ UNCHANGED <<lease, wk, faults>>

-----------------------------------------------------------------------------
Rebalance(w) ==
    Renew(w) \/ CountLiveWorkers(w) \/ Shed(w) \/ StoreKept(w) \/ Claim(w) \/ Keep(w)

Next ==
    \/ \E w \in Workers : Register(w) \/ Heartbeat(w) \/ Stop(w) \/ Release(w)
                          \/ Deregister(w) \/ Crash(w) \/ Rebalance(w) \/ RegistryExpires(w)
    \/ \E p \in Partitions : LeaseExpires(p)
    \/ ReapDeadWorkers

Spec == Init /\ [][Next]_vars

(* The heartbeat ticker drives every rebalance and registration, shutdown runs
   to its end, and a heartbeat nobody refreshes grows old. *)
FairSpec ==
    /\ Spec
    /\ \A w \in Workers : /\ WF_vars(Rebalance(w)) /\ WF_vars(Heartbeat(w))
                          /\ WF_vars(Release(w)) /\ WF_vars(Deregister(w))
                          /\ WF_vars(~Up(w) /\ RegistryExpires(w))
    /\ \A p \in Partitions :
          WF_vars((\A w \in Workers : p \notin Serving(w)) /\ LeaseExpires(p))

-----------------------------------------------------------------------------
(* Properties.                                                              *)

(* Two workers claim from one partition only while one of them is between
   giving up its excess in the table and in memory, or has not had a heartbeat
   go through since its lease ran out or since the table took back its excess
   and the answer was lost (lease_manager.go:107-146). *)
OneServer ==
    \A v, w \in Workers : v # w =>
        \A p \in Serving(v) \cap Serving(w) :
            \E u \in {v, w} : p \in wk[u].adrift
                              \/ (wk[u].at = "shed" /\ p \notin wk[u].keep)

(* After a heartbeat a worker serves only partitions the table gives it, so
   stale ownership lasts no longer than the time to the next heartbeat that
   goes through (lease_manager.go:107-124). *)
ServesWhatItHolds ==
    \A w \in Workers : wk[w].at \in {"renewed", "counted"} =>
        wk[w].owned \ wk[w].adrift \subseteq HeldBy(w)

(* A worker that has released on shutdown holds nothing, unless that statement
   failed, so its peers need not wait for the TTL (lease_manager.go:175-186,
   runner.go:8): nothing it claimed earlier and lost sight of is left. *)
ReleaseIsComplete ==
    \A w \in Workers : wk[w].mode = "released" /\ faults = 0 => HeldBy(w) = {}

(* What the lease managers promise the engines that read their partitions. *)
LeasesHold == TypeOK /\ OneServer /\ ServesWhatItHolds /\ ReleaseIsComplete

(* Every partition is in the memory of exactly one running worker. *)
Settled == \A p \in Partitions : Cardinality({w \in Workers : p \in Serving(w)}) = 1

(* Whatever failed and whoever left, the workers that stay end up serving
   every partition, each by one of them, for good: nothing stays with a dead
   worker and shares never leave a gap (lease_manager.go:104-170). *)
SharesSettle == <>[](\E w \in Workers : Up(w)) => <>[]Settled

(* What lease_manager.go:155-156 says of a claim, "The claim query prefers
   partitions this worker already holds, so the result is the full owned set
   rather than only the new ones": between rebalances a worker knows of every
   lease the table has for it. *)
KnowsItsLeases ==
    \A w \in Workers : Up(w) /\ wk[w].at = "idle" => HeldBy(w) \subseteq wk[w].owned

(* What queue_repo.go:35-36 concludes from the partitions, "Two workers
   therefore never look at the same rows". *)
NeverShared ==
    \A v, w \in Workers : v # w => Serving(v) \cap Serving(w) = {}
=============================================================================
