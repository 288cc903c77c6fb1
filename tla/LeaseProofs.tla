---------------------------- MODULE LeaseProofs ----------------------------
(* No two workers claim from one partition, but for the windows the lease        *)
(* manager leaves open, for any number of workers, partitions and faults.         *)
EXTENDS PartitionLeases, FiniteSetTheorems, TLAPS

(* Between the two halves of shedding, p has left the table and not yet memory. *)
BeingShed(w, p) == wk[w].at = "shed" /\ p \notin wk[w].keep

(* What w claims from is backed by a lease of its own that has not run out: the   *)
(* memory of a worker is ahead of the table in those windows only.                *)
Backed(w) ==
  Up(w) => \A p \in wk[w].owned :
    p \in wk[w].adrift \/ BeingShed(w, p) \/ (lease[p].owner = w /\ lease[p].fresh)

(* The manager of one worker: what it keeps is decided only while it sheds, and   *)
(* one that does not run is not in the middle of a rebalance.                      *)
WorkerOK(w) ==
  /\ wk[w].adrift \subseteq wk[w].owned /\ wk[w].keep \subseteq wk[w].owned
  /\ wk[w].mode \in {"new", "released", "gone"} => wk[w].owned = {}
  /\ wk[w].at # "shed" => wk[w].keep = {}
  /\ ~Up(w) => wk[w].at = "idle" /\ wk[w].adrift = {}
  /\ Backed(w)
  /\ wk[w].mode = "released" /\ faults = 0 => \A p \in Partitions : lease[p].owner # w

(* The state without what ties its parts together. *)
Shapes ==
  /\ registry \in [Workers -> {"absent", "fresh", "stale"}]
  /\ lease \in [Partitions -> Row]
  /\ wk \in [Workers -> Manager]
  /\ faults \in 0 .. MaxFaults
NoneIsStale == \A p \in Partitions : lease[p].fresh => lease[p].owner # None

LeaseInv == Shapes /\ NoneIsStale /\ \A w \in Workers : WorkerOK(w)

-----------------------------------------------------------------------------
(* What the actions read and write. *)

(* The fair share is never more than there are partitions. *)
LEMMA ShareInRange ==
  ASSUME LeaseAssumption, Shapes
  PROVE  FairShare(Max1(Cardinality(Live))) \in 0 .. Cardinality(Partitions)
<1>1. Cardinality(Partitions) \in Nat /\ Cardinality(Live) \in Nat
  <2>1. IsFiniteSet(Live)
    BY FS_Subset DEF Live, LeaseAssumption
  <2>. QED
    BY <2>1, FS_CardinalityType DEF LeaseAssumption
<1>2. ASSUME NEW P \in Nat, NEW n \in Nat, n >= 1
      PROVE  (P + n - 1) \div n \in 0 .. P
  <2>. DEFINE k == (P + n - 1) \div n
  <2>1. k \in Int /\ n * k <= P + n - 1 /\ P + n - 1 < n * (k + 1)
    BY <1>2
  <2>2. k >= 0
    BY <2>1, <1>2
  <2>3. ASSUME k >= P + 1 PROVE FALSE
    <3>1. n * k >= n * (P + 1)
      BY <2>1, <2>3, <1>2
    <3>2. n * (P + 1) = n * P + n /\ n * P >= P
      BY <1>2
    <3>. QED
      BY <3>1, <3>2, <2>1, <1>2
  <2>. QED
    BY <2>1, <2>2, <2>3
<1>. QED
  BY <1>1, <1>2 DEF FairShare, Max1

(* A worker whose manager and whose own leases a step leaves alone. *)
LEMMA OthersKept ==
  ASSUME NEW v \in Workers, WorkerOK(v), Shapes,
         wk'[v] = wk[v], faults' \in Nat, faults' >= faults,
         \A p \in Partitions :
           /\ lease[p].owner = v /\ lease[p].fresh => lease'[p].owner = v /\ lease'[p].fresh
           /\ lease'[p].owner = v => lease[p].owner = v
  PROVE  WorkerOK(v)'
<1>1. faults \in Nat /\ wk[v].owned \subseteq Partitions
  BY DEF Shapes, Manager
<1>. QED
  BY <1>1 DEF WorkerOK, Backed, BeingShed, Up

(* A failure is counted. *)
LEMMA FailCounts ==
  ASSUME LeaseAssumption, Shapes, Fail
  PROVE  faults' \in 0 .. MaxFaults /\ faults' >= faults
BY DEF LeaseAssumption, Shapes, Fail

(* One manager is replaced by another record. *)
LEMMA OneManager ==
  ASSUME Shapes, NEW w \in Workers, NEW R \in Manager, wk' = [wk EXCEPT ![w] = R]
  PROVE  /\ wk' \in [Workers -> Manager] /\ wk'[w] = R
         /\ \A v \in Workers \ {w} : wk'[v] = wk[v]
BY DEF Shapes

-----------------------------------------------------------------------------
(* One lemma per action: it keeps the invariant. *)

LEMMA RegisterStep ==
  ASSUME LeaseAssumption, LeaseInv, NEW w \in Workers, Register(w)
  PROVE  LeaseInv'
<1>t. Shapes /\ NoneIsStale /\ WorkerOK(w) /\ faults \in Nat
  BY DEF LeaseInv, Shapes
<1>. DEFINE R == [wk[w] EXCEPT !.mode = "up"]
<1>1. wk' = [wk EXCEPT ![w] = R]
  BY <1>t DEF Register, Shapes
<1>2. /\ R \in Manager
      /\ R.mode = "up" /\ R.at = wk[w].at /\ R.owned = wk[w].owned
      /\ R.adrift = wk[w].adrift /\ R.keep = wk[w].keep
  BY <1>t DEF Manager, Shapes, Modes, Places
<1>. HIDE DEF R
<1>3. /\ wk' \in [Workers -> Manager] /\ wk'[w] = R
      /\ \A v \in Workers \ {w} : wk'[v] = wk[v]
  BY Zenon, <1>1, <1>2, <1>t, OneManager
<1>4. Shapes' /\ NoneIsStale'
  BY <1>t, <1>3 DEF Register, Shapes, NoneIsStale
<1>5. WorkerOK(w)'
  BY <1>t, <1>2, <1>3 DEF Register, WorkerOK, Backed, Up
<1>6. \A v \in Workers \ {w} : WorkerOK(v)'
  BY <1>t, <1>3, OthersKept DEF Register, LeaseInv
<1>. QED
  BY <1>4, <1>5, <1>6 DEF LeaseInv

(* Steps that touch the registry only. *)
LEMMA RegistryStep ==
  ASSUME LeaseAssumption, LeaseInv, registry' \in [Workers -> {"absent", "fresh", "stale"}],
         UNCHANGED <<lease, wk>>, faults' \in 0 .. MaxFaults, faults' >= faults
  PROVE  LeaseInv'
<1>t. Shapes /\ NoneIsStale
  BY DEF LeaseInv
<1>1. Shapes' /\ NoneIsStale'
  BY <1>t DEF Shapes, NoneIsStale
<1>2. faults' \in Nat
  BY DEF LeaseAssumption
<1>3. \A v \in Workers : WorkerOK(v)'
  BY <1>t, <1>2, OthersKept DEF LeaseInv
<1>. QED
  BY <1>1, <1>3 DEF LeaseInv

LEMMA StopStep ==
  ASSUME LeaseAssumption, LeaseInv, NEW w \in Workers, Stop(w)
  PROVE  LeaseInv'
<1>t. Shapes /\ NoneIsStale /\ WorkerOK(w) /\ faults \in Nat
  BY DEF LeaseInv, Shapes
<1>. DEFINE R == [wk[w] EXCEPT !.mode = "stopping", !.at = "idle",
                             !.owned = IF wk[w].at = "shed" THEN wk[w].keep ELSE @,
                             !.adrift = {}, !.keep = {}]
<1>1. wk' = [wk EXCEPT ![w] = R]
  BY <1>t, Zenon DEF Stop, Shapes
<1>2. R \in Manager /\ R.mode = "stopping" /\ R.at = "idle" /\ R.adrift = {} /\ R.keep = {}
  BY <1>t, Zenon DEF Manager, Shapes, Modes, Places
<1>. HIDE DEF R
<1>3. /\ wk' \in [Workers -> Manager] /\ wk'[w] = R
      /\ \A v \in Workers \ {w} : wk'[v] = wk[v]
  BY Zenon, <1>1, <1>2, <1>t, OneManager
<1>4. Shapes' /\ NoneIsStale'
  BY <1>t, <1>3 DEF Stop, Shapes, NoneIsStale
<1>5. WorkerOK(w)'
  BY <1>t, <1>2, <1>3 DEF Stop, WorkerOK, Backed, Up
<1>6. \A v \in Workers \ {w} : WorkerOK(v)'
  BY <1>t, <1>3, OthersKept DEF Stop, LeaseInv
<1>. QED
  BY <1>4, <1>5, <1>6 DEF LeaseInv

LEMMA ReleaseStep ==
  ASSUME LeaseAssumption, LeaseInv, NEW w \in Workers, Release(w)
  PROVE  LeaseInv'
<1>t. Shapes /\ NoneIsStale /\ WorkerOK(w) /\ faults \in Nat
  BY DEF LeaseInv, Shapes
<1>. DEFINE R == [wk[w] EXCEPT !.mode = "released", !.owned = {}]
<1>1. wk' = [wk EXCEPT ![w] = R]
  BY <1>t, Zenon DEF Release, Shapes
<1>2. /\ R \in Manager
      /\ R.mode = "released" /\ R.owned = {} /\ R.at = wk[w].at
      /\ R.adrift = wk[w].adrift /\ R.keep = wk[w].keep
  BY <1>t, Zenon DEF Manager, Shapes, Modes, Places
<1>. HIDE DEF R
<1>3. /\ wk' \in [Workers -> Manager] /\ wk'[w] = R
      /\ \A v \in Workers \ {w} : wk'[v] = wk[v]
  BY Zenon, <1>1, <1>2, <1>t, OneManager
<1>4. /\ faults' \in 0 .. MaxFaults /\ faults' >= faults
      /\ faults' = 0 => \A p \in Partitions : lease'[p].owner # w
      /\ \A p \in Partitions : lease'[p] = lease[p] \/ (lease[p].owner = w /\ lease'[p] = Free)
      /\ DOMAIN lease' = Partitions /\ registry' = registry
      /\ lease' = [p \in Partitions |-> lease'[p]]
  <2>1. CASE lease' = Freed(HeldBy(w)) /\ (UNCHANGED faults \/ Fail)
    BY <1>t, <2>1, FailCounts DEF Release, Freed, HeldBy, Free, LeaseAssumption, Shapes
  <2>2. CASE Fail /\ UNCHANGED lease
    BY <1>t, <2>2, FailCounts DEF Release, Fail, Shapes
  <2>. QED
    BY <2>1, <2>2 DEF Release
<1>5. Shapes' /\ NoneIsStale'
  <2>1. Free \in Row /\ ~Free.fresh
    BY DEF Free, Row
  <2>. QED
    BY <1>t, <1>3, <1>4, <2>1 DEF Shapes, NoneIsStale
<1>6. wk[w].adrift = {} /\ wk[w].keep = {} /\ wk[w].at = "idle"
  BY <1>t DEF Release, WorkerOK, Up
<1>7. WorkerOK(w)'
  BY <1>t, <1>2, <1>3, <1>4, <1>6 DEF WorkerOK, Backed, Up
<1>8. \A v \in Workers \ {w} : WorkerOK(v)'
  BY <1>t, <1>3, <1>4, OthersKept DEF LeaseInv, Free, LeaseAssumption
<1>. QED
  BY <1>5, <1>7, <1>8 DEF LeaseInv

LEMMA DeregisterStep ==
  ASSUME LeaseAssumption, LeaseInv, NEW w \in Workers, Deregister(w)
  PROVE  LeaseInv'
<1>t. Shapes /\ NoneIsStale /\ WorkerOK(w) /\ faults \in Nat
  BY DEF LeaseInv, Shapes
<1>. DEFINE R == [wk[w] EXCEPT !.mode = "gone"]
<1>1. wk' = [wk EXCEPT ![w] = R]
  BY <1>t DEF Deregister, Shapes
<1>2. /\ R \in Manager
      /\ R.mode = "gone" /\ R.at = wk[w].at /\ R.owned = wk[w].owned
      /\ R.adrift = wk[w].adrift /\ R.keep = wk[w].keep
  BY <1>t DEF Manager, Shapes, Modes, Places
<1>. HIDE DEF R
<1>3. /\ wk' \in [Workers -> Manager] /\ wk'[w] = R
      /\ \A v \in Workers \ {w} : wk'[v] = wk[v]
  BY Zenon, <1>1, <1>2, <1>t, OneManager
<1>4. lease' = lease /\ faults' \in 0 .. MaxFaults /\ faults' >= faults
  BY <1>t, FailCounts DEF Deregister, Shapes
<1>5. registry' \in [Workers -> {"absent", "fresh", "stale"}]
  BY <1>t DEF Deregister, Shapes
<1>6. Shapes' /\ NoneIsStale'
  BY <1>t, <1>3, <1>4, <1>5 DEF Shapes, NoneIsStale
<1>7. WorkerOK(w)'
  BY <1>t, <1>2, <1>3 DEF Deregister, WorkerOK, Backed, Up
<1>8. \A v \in Workers \ {w} : WorkerOK(v)'
  BY <1>t, <1>3, <1>4, OthersKept DEF LeaseInv, LeaseAssumption
<1>. QED
  BY <1>6, <1>7, <1>8 DEF LeaseInv

LEMMA CrashStep ==
  ASSUME LeaseAssumption, LeaseInv, NEW w \in Workers, Crash(w)
  PROVE  LeaseInv'
<1>t. Shapes /\ NoneIsStale /\ WorkerOK(w) /\ faults \in Nat
  BY DEF LeaseInv, Shapes
<1>. DEFINE R == [mode |-> "gone", at |-> "idle", share |-> 0, owned |-> {}, adrift |-> {}, keep |-> {}]
<1>1. wk' = [wk EXCEPT ![w] = R]
  BY DEF Crash
<1>2. R \in Manager /\ R.mode = "gone" /\ R.at = "idle" /\ R.owned = {} /\ R.adrift = {} /\ R.keep = {}
  BY FS_CardinalityType DEF Manager, Modes, Places, LeaseAssumption
<1>. HIDE DEF R
<1>3. /\ wk' \in [Workers -> Manager] /\ wk'[w] = R
      /\ \A v \in Workers \ {w} : wk'[v] = wk[v]
  BY Zenon, <1>1, <1>2, <1>t, OneManager
<1>4. lease' = lease /\ registry' = registry /\ faults' \in 0 .. MaxFaults /\ faults' >= faults
  BY <1>t, FailCounts DEF Crash
<1>6. Shapes' /\ NoneIsStale'
  BY <1>t, <1>3, <1>4 DEF Shapes, NoneIsStale
<1>7. WorkerOK(w)'
  BY <1>t, <1>2, <1>3 DEF WorkerOK, Backed, Up
<1>8. \A v \in Workers \ {w} : WorkerOK(v)'
  BY <1>t, <1>3, <1>4, OthersKept DEF LeaseInv, LeaseAssumption
<1>. QED
  BY <1>6, <1>7, <1>8 DEF LeaseInv

(* The rows of S, which are w's, get a new heartbeat. *)
LEMMA RenewedRows ==
  ASSUME LeaseAssumption, Shapes, NoneIsStale, NEW w \in Workers, NEW S \in SUBSET Partitions,
         \A p \in S : lease[p].owner = w, lease' = Renewed(S)
  PROVE  /\ lease' \in [Partitions -> Row] /\ NoneIsStale'
         /\ \A p \in Partitions : /\ lease'[p].owner = lease[p].owner
                                  /\ p \in S => lease'[p].fresh
                                  /\ p \notin S => lease'[p] = lease[p]
<1>1. \A p \in Partitions : /\ lease'[p] \in Row
                            /\ lease'[p].owner = lease[p].owner
                            /\ p \in S => lease'[p].fresh
                            /\ p \notin S => lease'[p] = lease[p]
  BY Zenon DEF Shapes, Row, Renewed
<1>2. lease' = [p \in Partitions |-> lease'[p]]
  BY DEF Renewed
<1>. QED
  BY <1>1, <1>2 DEF NoneIsStale, LeaseAssumption

LEMMA RenewStep ==
  ASSUME LeaseAssumption, LeaseInv, NEW w \in Workers, Renew(w)
  PROVE  LeaseInv'
<1>t. Shapes /\ NoneIsStale /\ WorkerOK(w) /\ faults \in Nat
  BY DEF LeaseInv, Shapes
<1>. DEFINE kept == wk[w].owned \cap HeldBy(w)
            R == [wk[w] EXCEPT !.at = "renewed", !.owned = kept, !.adrift = {}]
<1>0. kept \subseteq Partitions /\ \A p \in kept : lease[p].owner = w
  BY DEF HeldBy
<1>. HIDE DEF kept
<1>1. R \in Manager /\ R.mode = wk[w].mode /\ R.at = "renewed" /\ R.owned = kept /\ R.adrift = {} /\ R.keep = wk[w].keep
  <2>1. wk[w] \in Manager
    BY <1>t DEF Shapes
  <2>. QED
    BY <2>1, <1>0, Zenon DEF Manager, Places
<1>l. ASSUME lease' = Renewed(kept)
      PROVE  /\ lease' \in [Partitions -> Row] /\ NoneIsStale'
             /\ \A p \in Partitions : /\ lease'[p].owner = lease[p].owner
                                      /\ p \in kept => lease'[p].fresh
                                      /\ p \notin kept => lease'[p] = lease[p]
  BY <1>0, <1>t, <1>l, RenewedRows
<1>2. CASE /\ lease' = Renewed(kept)
           /\ wk' = [wk EXCEPT ![w].at = "renewed", ![w].owned = kept, ![w].adrift = {}]
           /\ UNCHANGED faults
  <2>1. wk' = [wk EXCEPT ![w] = R]
    BY <1>2, <1>t, Zenon DEF Shapes
  <2>. HIDE DEF R
  <2>2. /\ wk' \in [Workers -> Manager] /\ wk'[w] = R
        /\ \A v \in Workers \ {w} : wk'[v] = wk[v]
    BY Zenon, <1>1, <2>1, <1>t, OneManager
  <2>3. Shapes' /\ NoneIsStale'
    BY <1>2, <1>l, <1>t, <2>2 DEF Shapes, Renew
  <2>4. WorkerOK(w)'
    BY <1>t, <1>0, <1>1, <1>2, <1>l, <2>2 DEF Renew, WorkerOK, Backed, Up
  <2>5. \A v \in Workers \ {w} : WorkerOK(v)'
    BY <1>2, <1>l, <1>t, <2>2, OthersKept DEF LeaseInv
  <2>. QED
    BY <2>3, <2>4, <2>5 DEF LeaseInv
<1>3. CASE Fail /\ lease' \in {lease, Renewed(kept)} /\ UNCHANGED wk
  <2>1. faults' \in 0 .. MaxFaults /\ faults' >= faults /\ registry' = registry
    BY <1>3, <1>t, FailCounts DEF Renew
  <2>2. CASE UNCHANGED lease
    BY <1>3, <1>t, <2>1, <2>2, RegistryStep DEF Shapes
  <2>3. CASE lease' = Renewed(kept)
    <3>1. Shapes' /\ NoneIsStale'
      BY <1>3, <1>l, <1>t, <2>1, <2>3 DEF Shapes
    <3>2. \A v \in Workers : WorkerOK(v)'
      BY <1>3, <1>l, <1>t, <2>1, <2>3, OthersKept DEF LeaseInv
    <3>. QED
      BY <3>1, <3>2 DEF LeaseInv
  <2>. QED
    BY <1>3, <2>2, <2>3
<1>. QED
  BY <1>2, <1>3 DEF Renew, kept

(* A rebalance that ends here, with an error or because the share is reached;     *)
(* leases may have been gained meanwhile, and none that backs what is served lost. *)
LEMMA GiveUpStep ==
  ASSUME LeaseAssumption, LeaseInv, NEW w \in Workers, Up(w), wk[w].at \in {"renewed", "counted"},
         GiveUp(w), UNCHANGED registry, faults' \in 0 .. MaxFaults, faults' >= faults,
         lease' \in [Partitions -> Row], NoneIsStale',
         \A p \in Partitions : \/ lease'[p] = lease[p]
                               \/ /\ lease'[p].owner = w /\ lease'[p].fresh
                                  /\ lease[p].owner \in {w, None} \/ ~lease[p].fresh
  PROVE  LeaseInv'
<1>t. Shapes /\ NoneIsStale /\ WorkerOK(w) /\ faults \in Nat
  BY DEF LeaseInv, Shapes
<1>. DEFINE R == [wk[w] EXCEPT !.at = "idle"]
<1>1. wk' = [wk EXCEPT ![w] = R]
  BY <1>t DEF GiveUp, Goto, Shapes
<1>2. /\ R \in Manager /\ R.mode = wk[w].mode /\ R.at = "idle" /\ R.owned = wk[w].owned
      /\ R.adrift = wk[w].adrift /\ R.keep = wk[w].keep
  BY <1>t DEF Shapes, Manager, Places
<1>. HIDE DEF R
<1>3. /\ wk' \in [Workers -> Manager] /\ wk'[w] = R
      /\ \A v \in Workers \ {w} : wk'[v] = wk[v]
  BY Zenon, <1>1, <1>2, <1>t, OneManager
<1>4. Shapes'
  BY <1>t, <1>3 DEF Shapes
<1>5. wk[w].owned \subseteq Partitions
  BY <1>t DEF Shapes, Manager
<1>6. WorkerOK(w)'
  BY <1>t, <1>2, <1>3, <1>5 DEF WorkerOK, Backed, BeingShed, Up
<1>7. \A v \in Workers \ {w} : WorkerOK(v)'
  <2>1. None \notin Workers /\ faults' \in Nat
    BY DEF LeaseAssumption
  <2>. QED
    BY <1>t, <1>3, <2>1, OthersKept DEF LeaseInv
<1>. QED
  BY <1>4, <1>6, <1>7 DEF LeaseInv

LEMMA CountStep ==
  ASSUME LeaseAssumption, LeaseInv, NEW w \in Workers, CountLiveWorkers(w)
  PROVE  LeaseInv'
<1>t. Shapes /\ NoneIsStale /\ WorkerOK(w) /\ faults \in Nat
  BY DEF LeaseInv, Shapes
<1>1. CASE Fail /\ GiveUp(w)
  BY <1>1, <1>t, FailCounts, GiveUpStep DEF CountLiveWorkers, Shapes, NoneIsStale
<1>2. CASE /\ wk' = [wk EXCEPT ![w].at = "counted", ![w].share = FairShare(Max1(Cardinality(Live)))]
           /\ UNCHANGED faults
  <2>. DEFINE share == FairShare(Max1(Cardinality(Live)))
              R == [wk[w] EXCEPT !.at = "counted", !.share = share]
  <2>0. share \in 0 .. Cardinality(Partitions)
    BY <1>t, ShareInRange
  <2>. HIDE DEF share
  <2>1. wk' = [wk EXCEPT ![w] = R]
    BY <1>2, <1>t, Zenon DEF Shapes, share
  <2>2. /\ R \in Manager /\ R.mode = wk[w].mode /\ R.at = "counted" /\ R.owned = wk[w].owned
        /\ R.adrift = wk[w].adrift /\ R.keep = wk[w].keep
    BY <1>t, <2>0, Zenon DEF Shapes, Manager, Places
  <2>. HIDE DEF R
  <2>3. /\ wk' \in [Workers -> Manager] /\ wk'[w] = R
        /\ \A v \in Workers \ {w} : wk'[v] = wk[v]
    BY Zenon, <2>1, <2>2, <1>t, OneManager
  <2>4. Shapes' /\ NoneIsStale'
    BY <1>2, <1>t, <2>3 DEF CountLiveWorkers, Shapes, NoneIsStale
  <2>5. WorkerOK(w)'
    BY <1>2, <1>t, <2>2, <2>3 DEF CountLiveWorkers, WorkerOK, Backed, BeingShed, Up
  <2>6. \A v \in Workers \ {w} : WorkerOK(v)'
    BY <1>2, <1>t, <2>3, OthersKept DEF CountLiveWorkers, LeaseInv
  <2>. QED
    BY <2>4, <2>5, <2>6 DEF LeaseInv
<1>. QED
  BY <1>1, <1>2 DEF CountLiveWorkers

(* The excess has left the table; w, with its new record R, knows, is about to    *)
(* know, or has lost the answer.                                                  *)
LEMMA ShedRows ==
  ASSUME LeaseAssumption, LeaseInv, NEW w \in Workers, Up(w), wk[w].at = "counted", UNCHANGED registry,
         NEW excess \in SUBSET wk[w].owned, NEW R \in Manager,
         lease' = Freed(HeldBy(w) \cap excess), wk' = [wk EXCEPT ![w] = R],
         faults' \in 0 .. MaxFaults, faults' >= faults,
         R.mode = "up", R.owned = wk[w].owned, R.keep \subseteq R.owned,
         \/ R.at = "shed" /\ R.keep = R.owned \ excess /\ R.adrift = wk[w].adrift
         \/ R.at = "idle" /\ R.keep = {} /\ R.adrift = wk[w].adrift \cup excess
  PROVE  LeaseInv'
<1>t. Shapes /\ NoneIsStale /\ WorkerOK(w) /\ faults \in Nat
  BY DEF LeaseInv, Shapes
<1>1. /\ wk' \in [Workers -> Manager] /\ wk'[w] = R
      /\ \A v \in Workers \ {w} : wk'[v] = wk[v]
  BY Zenon, <1>t, OneManager
<1>2. Free \in Row /\ ~Free.fresh /\ Free.owner = None
  BY DEF Free, Row
<1>3. wk[w].owned \subseteq Partitions
  BY <1>t DEF Shapes, Manager
<1>4. \A p \in Partitions : lease'[p] = IF lease[p].owner = w /\ p \in excess THEN Free ELSE lease[p]
  BY <1>3 DEF Freed, HeldBy
<1>5. Shapes' /\ NoneIsStale'
  BY <1>t, <1>1, <1>2 DEF Freed, Shapes, NoneIsStale
<1>6. WorkerOK(w)'
  <2>1. /\ wk'[w].adrift \subseteq wk'[w].owned /\ wk'[w].keep \subseteq wk'[w].owned
        /\ wk'[w].mode = "up" /\ (wk'[w].at # "shed" => wk'[w].keep = {})
    BY <1>t, <1>1 DEF WorkerOK
  <2>2. ASSUME NEW p \in wk[w].owned, p \notin R.adrift, ~(R.at = "shed" /\ p \notin R.keep)
        PROVE  lease'[p].owner = w /\ lease'[p].fresh
    <3>1. p \notin wk[w].adrift /\ p \notin excess /\ p \in Partitions
      BY <1>3, <2>2
    <3>2. lease[p].owner = w /\ lease[p].fresh
      BY <1>t, <3>1 DEF WorkerOK, Backed, BeingShed, Up
    <3>. QED
      BY <1>4, <3>1, <3>2
  <2>3. Backed(w)'
    BY <1>1, <2>2, Zenon DEF Backed, BeingShed
  <2>. QED
    BY <2>1, <2>3 DEF WorkerOK, Up
<1>7. \A v \in Workers \ {w} : WorkerOK(v)'
  <2>1. ASSUME NEW v \in Workers \ {w} PROVE WorkerOK(v)'
    <3>1. v # None /\ v # w /\ wk'[v] = wk[v] /\ WorkerOK(v) /\ faults' \in Nat
      BY <1>1 DEF LeaseInv, LeaseAssumption
    <3>2. \A p \in Partitions :
             /\ lease[p].owner = v /\ lease[p].fresh => lease'[p].owner = v /\ lease'[p].fresh
             /\ lease'[p].owner = v => lease[p].owner = v
      <4>1. Free.owner # v
        BY <3>1 DEF Free
      <4>. QED
        BY <1>4, <3>1, <4>1, Zenon
    <3>. QED
      BY <1>t, <3>1, <3>2, OthersKept, Zenon
  <2>. QED
    BY <2>1
<1>. QED
  BY <1>5, <1>6, <1>7 DEF LeaseInv

LEMMA ShedStep ==
  ASSUME LeaseAssumption, LeaseInv, NEW w \in Workers, Shed(w)
  PROVE  LeaseInv'
<1>t. Shapes /\ NoneIsStale /\ WorkerOK(w) /\ faults \in Nat
  BY DEF LeaseInv, Shapes
<1>1. Up(w) /\ wk[w].at = "counted" /\ UNCHANGED registry /\ wk[w] \in Manager /\ wk[w].mode = "up"
  BY <1>t DEF Shed, Shapes, Up
<1>2. CASE Fail /\ GiveUp(w) /\ UNCHANGED lease
  BY <1>1, <1>2, <1>t, FailCounts, GiveUpStep DEF Shapes, NoneIsStale
<1>3. ASSUME NEW keep \in SUBSET wk[w].owned, lease' = Freed(HeldBy(w) \cap (wk[w].owned \ keep)),
             wk' = [wk EXCEPT ![w].at = "shed", ![w].keep = keep], UNCHANGED faults
      PROVE  LeaseInv'
  <2>. DEFINE R == [wk[w] EXCEPT !.at = "shed", !.keep = keep]
  <2>0. wk' = [wk EXCEPT ![w] = R]
    BY <1>3, <1>t, Zenon DEF Shapes
  <2>1. faults' \in 0 .. MaxFaults /\ faults' >= faults
    BY <1>3, <1>t DEF Shapes
  <2>2. /\ R \in Manager /\ R.mode = "up" /\ R.at = "shed" /\ R.owned = wk[w].owned
        /\ R.adrift = wk[w].adrift /\ R.keep = keep
    BY <1>1, <1>3, Zenon DEF Manager, Places
  <2>. HIDE DEF R
  <2>3. R.keep = R.owned \ (wk[w].owned \ keep) /\ wk[w].owned \ keep \in SUBSET wk[w].owned
    BY <2>2
  <2>. QED
    BY <1>1, <1>3, <2>0, <2>1, <2>2, <2>3, ShedRows, Zenon
<1>4. ASSUME NEW keep \in SUBSET wk[w].owned, lease' = Freed(HeldBy(w) \cap (wk[w].owned \ keep)),
             wk' = [wk EXCEPT ![w].at = "idle", ![w].adrift = @ \cup (wk[w].owned \ keep)], Fail
      PROVE  LeaseInv'
  <2>. DEFINE R == [wk[w] EXCEPT !.at = "idle", !.adrift = @ \cup (wk[w].owned \ keep)]
  <2>0. wk' = [wk EXCEPT ![w] = R]
    BY <1>4, <1>t, Zenon DEF Shapes
  <2>1. faults' \in 0 .. MaxFaults /\ faults' >= faults
    BY <1>4, <1>t, FailCounts DEF Shapes
  <2>2. /\ R \in Manager /\ R.mode = "up" /\ R.at = "idle" /\ R.owned = wk[w].owned
        /\ R.adrift = wk[w].adrift \cup (wk[w].owned \ keep) /\ R.keep = {}
    BY <1>1, <1>4, <1>t, Zenon DEF Manager, Places, WorkerOK
  <2>. HIDE DEF R
  <2>3. R.keep \subseteq R.owned /\ wk[w].owned \ keep \in SUBSET wk[w].owned
    BY <2>2
  <2>. QED
    BY <1>1, <1>4, <2>0, <2>1, <2>2, <2>3, ShedRows, Zenon
<1>. QED
  BY <1>2, <1>3, <1>4 DEF Shed

LEMMA StoreKeptStep ==
  ASSUME LeaseAssumption, LeaseInv, NEW w \in Workers, StoreKept(w)
  PROVE  LeaseInv'
<1>t. Shapes /\ NoneIsStale /\ WorkerOK(w) /\ faults \in Nat
  BY DEF LeaseInv, Shapes
<1>. DEFINE R == [wk[w] EXCEPT !.at = "idle", !.owned = wk[w].keep,
                             !.adrift = @ \cap wk[w].keep, !.keep = {}]
<1>1. wk' = [wk EXCEPT ![w] = R]
  BY <1>t, Zenon DEF StoreKept, Shapes
<1>2. /\ R \in Manager /\ R.mode = wk[w].mode /\ R.at = "idle" /\ R.owned = wk[w].keep
      /\ R.adrift = wk[w].adrift \cap wk[w].keep /\ R.keep = {}
  <2>1. wk[w] \in Manager
    BY <1>t DEF Shapes
  <2>. QED
    BY <2>1, Zenon DEF Manager, Places
<1>. HIDE DEF R
<1>3. /\ wk' \in [Workers -> Manager] /\ wk'[w] = R
      /\ \A v \in Workers \ {w} : wk'[v] = wk[v]
  BY Zenon, <1>1, <1>2, <1>t, OneManager
<1>4. Shapes' /\ NoneIsStale'
  BY <1>t, <1>3 DEF StoreKept, Shapes, NoneIsStale
<1>5. WorkerOK(w)'
  BY <1>t, <1>2, <1>3 DEF StoreKept, WorkerOK, Backed, BeingShed, Up
<1>6. \A v \in Workers \ {w} : WorkerOK(v)'
  BY <1>t, <1>3, OthersKept DEF StoreKept, LeaseInv
<1>. QED
  BY <1>4, <1>5, <1>6 DEF LeaseInv

LEMMA ClaimStep ==
  ASSUME LeaseAssumption, LeaseInv, NEW w \in Workers, Claim(w)
  PROVE  LeaseInv'
<1>t. Shapes /\ NoneIsStale /\ WorkerOK(w) /\ faults \in Nat
  BY DEF LeaseInv, Shapes
<1>1. CASE Fail /\ GiveUp(w) /\ UNCHANGED lease
  BY <1>1, <1>t, FailCounts, GiveUpStep DEF Claim, Shapes, NoneIsStale
<1>2. ASSUME NEW C \in FirstOf(w, wk[w].share),
             lease' = [p \in Partitions |-> IF p \in C THEN [owner |-> w, fresh |-> TRUE] ELSE lease[p]],
             \/ /\ wk' = [wk EXCEPT ![w].at = "idle", ![w].owned = C, ![w].adrift = {}]
                /\ UNCHANGED faults
             \/ Fail /\ GiveUp(w)
      PROVE  LeaseInv'
  <2>1. /\ C \subseteq Partitions
        /\ \A p \in C : lease[p].owner \in {w, None} \/ ~lease[p].fresh
    BY DEF FirstOf, Claimable
  <2>. DEFINE L == [owner |-> w, fresh |-> TRUE]
  <2>2. L \in Row /\ L.owner = w /\ L.fresh
    BY DEF Row
  <2>3. lease' = [p \in Partitions |-> IF p \in C THEN L ELSE lease[p]]
    BY <1>2
  <2>. HIDE DEF L
  <2>4. lease' \in [Partitions -> Row] /\ NoneIsStale'
    BY <1>t, <2>2, <2>3 DEF Shapes, NoneIsStale, LeaseAssumption
  <2>5. CASE Fail /\ GiveUp(w)
    BY <1>t, <2>1, <2>2, <2>3, <2>4, <2>5, FailCounts, GiveUpStep DEF Claim
  <2>6. CASE /\ wk' = [wk EXCEPT ![w].at = "idle", ![w].owned = C, ![w].adrift = {}]
             /\ UNCHANGED faults
    <3>. DEFINE R == [wk[w] EXCEPT !.at = "idle", !.owned = C, !.adrift = {}]
    <3>1. wk' = [wk EXCEPT ![w] = R]
      BY <2>6, <1>t, Zenon DEF Shapes
    <3>2. /\ R \in Manager /\ R.mode = wk[w].mode /\ R.at = "idle" /\ R.owned = C
          /\ R.adrift = {} /\ R.keep = wk[w].keep
      <4>1. wk[w] \in Manager
        BY <1>t DEF Shapes
      <4>. QED
        BY <4>1, <2>1, Zenon DEF Manager, Places
    <3>. HIDE DEF R
    <3>3. /\ wk' \in [Workers -> Manager] /\ wk'[w] = R
          /\ \A v \in Workers \ {w} : wk'[v] = wk[v]
      BY Zenon, <3>1, <3>2, <1>t, OneManager
    <3>4. Shapes'
      BY <1>t, <2>4, <2>6, <3>3, Zenon DEF Claim, Shapes
    <3>5. WorkerOK(w)'
      BY <1>t, <2>1, <2>2, <2>3, <3>2, <3>3, Zenon DEF Claim, WorkerOK, Backed, BeingShed, Up
    <3>6. \A v \in Workers \ {w} : WorkerOK(v)'
      <4>1. None \notin Workers /\ faults' \in Nat /\ faults' >= faults
        BY <1>t, <2>6 DEF LeaseAssumption
      <4>. QED
        BY <1>t, <2>1, <2>2, <2>3, <3>3, <4>1, OthersKept DEF LeaseInv
    <3>. QED
      BY <2>4, <3>4, <3>5, <3>6 DEF LeaseInv
  <2>. QED
    BY <1>2, <2>5, <2>6
<1>. QED
  BY <1>1, <1>2, Zenon DEF Claim

(* A lease runs out: if its owner serves the partition, the lapse is noted. *)
LEMMA LeaseExpiresStep ==
  ASSUME LeaseAssumption, LeaseInv, NEW p \in Partitions, LeaseExpires(p)
  PROVE  LeaseInv'
<1>t. Shapes /\ NoneIsStale /\ faults \in Nat
  BY DEF LeaseInv, Shapes
<1>0. lease[p].owner \in Workers
  BY <1>t DEF LeaseExpires, NoneIsStale, Shapes, Row
<1>1. PICK w \in Workers : w = lease[p].owner
  BY <1>0
<1>2. /\ lease' \in [Partitions -> Row] /\ lease'[p].owner = lease[p].owner /\ ~lease'[p].fresh
      /\ \A q \in Partitions \ {p} : lease'[q] = lease[q]
  <2>. DEFINE L == [lease[p] EXCEPT !.fresh = FALSE]
  <2>1. L \in Row /\ L.owner = lease[p].owner /\ ~L.fresh
    BY <1>t, Zenon DEF Shapes, Row
  <2>2. lease' = [lease EXCEPT ![p] = L]
    BY <1>t DEF LeaseExpires, Shapes
  <2>. HIDE DEF L
  <2>. QED
    BY <2>1, <2>2, <1>t DEF Shapes
<1>3. NoneIsStale'
  BY <1>t, <1>2 DEF NoneIsStale
<1>4. CASE p \in Serving(w)
  <2>. DEFINE R == [wk[w] EXCEPT !.adrift = @ \cup {p}]
  <2>0. Up(w) /\ p \in wk[w].owned /\ Fail /\ wk' = [wk EXCEPT ![w].adrift = @ \cup {p}]
    BY <1>4, <1>1 DEF LeaseExpires, Serving
  <2>1. wk' = [wk EXCEPT ![w] = R]
    BY <2>0, <1>t, <1>1 DEF Shapes
  <2>2. /\ R \in Manager /\ R.mode = wk[w].mode /\ R.at = wk[w].at /\ R.owned = wk[w].owned
        /\ R.adrift = wk[w].adrift \cup {p} /\ R.keep = wk[w].keep
    BY <1>t, <1>1 DEF Shapes, Manager
  <2>. HIDE DEF R
  <2>3. /\ wk' \in [Workers -> Manager] /\ wk'[w] = R
        /\ \A v \in Workers \ {w} : wk'[v] = wk[v]
    BY Zenon, <2>1, <2>2, <1>1, <1>t, OneManager
  <2>4. faults' \in 0 .. MaxFaults /\ faults' >= faults /\ faults' \in Nat
    BY <2>0, <1>t, FailCounts DEF LeaseAssumption
  <2>5. Shapes'
    BY <1>t, <1>2, <2>3, <2>4 DEF LeaseExpires, Shapes
  <2>6. WorkerOK(w)'
    <3>1. WorkerOK(w) /\ wk[w].owned \subseteq Partitions
      BY <1>1, <1>t DEF LeaseInv, Shapes, Manager
    <3>. QED
      BY <3>1, <1>2, <2>0, <2>2, <2>3 DEF WorkerOK, Backed, BeingShed, Up
  <2>7. \A v \in Workers \ {w} : WorkerOK(v)'
    BY <1>t, <1>1, <1>2, <2>3, <2>4, OthersKept DEF LeaseInv
  <2>. QED
    BY <1>3, <2>5, <2>6, <2>7 DEF LeaseInv
<1>5. CASE p \notin Serving(w)
  <2>1. UNCHANGED <<wk, faults, registry>>
    BY <1>5, <1>1 DEF LeaseExpires
  <2>2. Shapes'
    BY <1>t, <1>2, <2>1 DEF Shapes
  <2>3. ASSUME NEW v \in Workers PROVE WorkerOK(v)'
    <3>1. WorkerOK(v) /\ wk[v].owned \subseteq Partitions
      BY <1>t DEF LeaseInv, Shapes, Manager
    <3>2. Up(v) /\ v = w => p \notin wk[v].owned
      BY <1>5 DEF Serving
    <3>3. Backed(v)'
      BY <3>1, <3>2, <1>1, <1>2, <2>1 DEF WorkerOK, Backed, BeingShed, Up
    <3>. QED
      BY <3>1, <3>3, <1>2, <2>1 DEF WorkerOK, Up
  <2>. QED
    BY <1>3, <2>2, <2>3 DEF LeaseInv
<1>. QED
  BY <1>4, <1>5

-----------------------------------------------------------------------------
LEMMA LeaseInvStep ==
  ASSUME LeaseAssumption, LeaseInv, [Next]_vars
  PROVE  LeaseInv'
<1>t. Shapes /\ NoneIsStale /\ faults \in Nat
  BY DEF LeaseInv, Shapes
<1>1. ASSUME NEW w \in Workers, Heartbeat(w) PROVE LeaseInv'
  BY <1>1, <1>t, RegistryStep DEF Heartbeat, Shapes
<1>2. ASSUME NEW w \in Workers, RegistryExpires(w) PROVE LeaseInv'
  <2>1. faults' \in 0 .. MaxFaults /\ faults' >= faults
    BY <1>2, <1>t, FailCounts DEF RegistryExpires, Shapes
  <2>. QED
    BY <1>2, <1>t, <2>1, RegistryStep DEF RegistryExpires, Shapes
<1>3. CASE ReapDeadWorkers
  BY <1>3, <1>t, RegistryStep DEF ReapDeadWorkers, Shapes
<1>4. ASSUME NEW w \in Workers, Keep(w) PROVE LeaseInv'
  BY <1>4, <1>t, GiveUpStep DEF Keep, Shapes, NoneIsStale
<1>5. CASE UNCHANGED vars
  BY <1>5, <1>t, RegistryStep DEF vars, Shapes
<1>. QED
  BY <1>1, <1>2, <1>3, <1>4, <1>5, RegisterStep, StopStep, ReleaseStep, DeregisterStep, CrashStep,
     RenewStep, CountStep, ShedStep, StoreKeptStep, ClaimStep, LeaseExpiresStep
  DEF Next, Rebalance

LEMMA LeaseInvInit ==
  ASSUME LeaseAssumption, Init
  PROVE  LeaseInv
<1>. DEFINE R == [mode |-> "new", at |-> "idle", share |-> 0, owned |-> {}, adrift |-> {}, keep |-> {}]
<1>1. /\ R \in Manager /\ R.mode = "new" /\ R.at = "idle"
      /\ R.owned = {} /\ R.adrift = {} /\ R.keep = {}
  BY FS_CardinalityType DEF Manager, Modes, Places, LeaseAssumption
<1>2. Free \in Row /\ ~Free.fresh
  BY DEF Free, Row
<1>3. wk = [w \in Workers |-> R] /\ lease = [p \in Partitions |-> Free] /\ faults = 0
  BY DEF Init
<1>. HIDE DEF R
<1>4. Shapes /\ NoneIsStale
  BY <1>1, <1>2, <1>3 DEF Init, Shapes, NoneIsStale, LeaseAssumption
<1>5. \A w \in Workers : WorkerOK(w)
  BY <1>1, <1>3 DEF WorkerOK, Backed, Up
<1>. QED
  BY <1>4, <1>5 DEF LeaseInv

(* LeasesHold, for every number of workers, partitions and faults: two workers     *)
(* claim from one partition only in the windows rebalance leaves open, that is      *)
(* after a lease that ran out or was given up by a release whose answer was lost,   *)
(* and between the two halves of shedding; a worker that has renewed serves what    *)
(* the table gives it, and one that has released on shutdown holds nothing          *)
(* (LeaseManager.rebalance, release).                                               *)
THEOREM LeasesHoldAlways ==
  ASSUME LeaseAssumption
  PROVE  Spec => []LeasesHold
<1>1. Init => LeaseInv
  BY LeaseInvInit
<1>2. LeaseInv /\ [Next]_vars => LeaseInv'
  BY LeaseInvStep
<1>3. ASSUME LeaseInv PROVE LeasesHold
  <2>t. Shapes /\ NoneIsStale /\ \A w \in Workers : WorkerOK(w)
    BY <1>3 DEF LeaseInv
  <2>1. TypeOK
    BY <2>t DEF TypeOK, Shapes, NoneIsStale, WorkerOK
  <2>2. OneServer
    BY <2>t DEF OneServer, Serving, WorkerOK, Backed, BeingShed
  <2>3. ServesWhatItHolds
    BY <2>t DEF ServesWhatItHolds, HeldBy, WorkerOK, Backed, BeingShed, Shapes, Manager
  <2>4. ReleaseIsComplete
    BY <2>t DEF ReleaseIsComplete, HeldBy, WorkerOK
  <2>. QED
    BY <2>1, <2>2, <2>3, <2>4 DEF LeasesHold
<1>. QED
  BY <1>1, <1>2, <1>3, PTL DEF Spec
=============================================================================
