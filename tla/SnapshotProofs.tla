--------------------------- MODULE SnapshotProofs ---------------------------
(* A snapshot can be trusted: no wake-up is lost between a change and the        *)
(* snapshot, no process goes back to an older one, and a delivery is dropped     *)
(* while due only on a snapshot read before its task was queued; for any number   *)
(* of processes, endpoints, messages, commits and faults.                         *)
EXTENDS ConfigSnapshot, TLAPS

(* e became deliverable at time f or before, and still is. *)
SeenAt(e, f) == app = "live" /\ ep[e] = "on" /\ since[e] <= f

(* The rows: an endpoint belongs to an application that has existed since before *)
(* it, and a change is announced after it was made.                              *)
RowsOK ==
  /\ unannounced <= clock
  /\ \A e \in Endpoints : ep[e] = "absent" \/ (1 <= since[e] /\ since[e] <= clock /\ app # "absent")

(* A snapshot has every endpoint that was deliverable when its first query ran   *)
(* and still is, but for those it left out on purpose.  So has the one being      *)
(* read, as far as it has been read.                                              *)
Covers(s) ==
  \A e \in Endpoints : SeenAt(e, s.from) => s.app /\ (s.ep[e] = "on" \/ e \in s.missing)
Reading(n) ==
  LET r == mgr[n].reading IN
  /\ mgr[n].at \in {"apps", "endpoints"} =>
       /\ mgr[n].current.from <= r.from /\ r.from <= clock
       /\ \A e \in Endpoints : SeenAt(e, r.from) => r.app
  /\ mgr[n].at = "endpoints" => \A e \in Endpoints : SeenAt(e, r.from) => r.ep[e] = "on"

(* A manager that has not heard of a change will: an announcement is under way,   *)
(* or a token waits, or the miss has been noted.  Otherwise what it has, or has    *)
(* read so far, is the configuration as it is.                                    *)
Informed(n) ==
  \/ unannounced > 0 \/ mgr[n].reload \/ mgr[n].missed
  \/ /\ mgr[n].at = "idle" => Current(mgr[n].current)
     /\ mgr[n].at \in {"apps", "endpoints"} => (mgr[n].reading.app <=> app = "live")
     /\ mgr[n].at = "endpoints" => \A e \in Endpoints : mgr[n].reading.ep[e] = Visible(e)

NodeOK(n) ==
  /\ mgr[n].current.from <= mgr[n].current.builtAt /\ mgr[n].current.builtAt <= clock
  /\ Covers(mgr[n].current) /\ Reading(n) /\ Informed(n)

(* The state without what ties its parts together. *)
Shapes ==
  /\ clock \in 0 .. MaxClock
  /\ app \in {"absent", "live", "deleted"}
  /\ ep \in [Endpoints -> EpState] /\ since \in [Endpoints -> 0 .. MaxClock]
  /\ unannounced \in 0 .. MaxClock
  /\ mgr \in [Nodes -> Manager]
  /\ fan \in [Messages -> Task] /\ dlv \in [Messages -> [Endpoints -> Task]]
  /\ lost \subseteq Loss
  /\ faults \in 0 .. MaxFaults

SnapshotInv == Shapes /\ RowsOK /\ FreshLosesNothing /\ \A n \in Nodes : NodeOK(n)

-----------------------------------------------------------------------------
(* What steps leave alone. *)

LEMMA NodeTypes ==
  ASSUME Shapes, NEW n \in Nodes
  PROVE  /\ clock \in Nat
         /\ mgr[n] \in Manager /\ mgr[n].current \in Snapshot /\ mgr[n].reading \in Snapshot
         /\ mgr[n].current.from \in Nat /\ mgr[n].current.builtAt \in Nat /\ mgr[n].reading.from \in Nat
         /\ \A e \in Endpoints : since[e] \in Nat
<1>1. mgr[n] \in Manager
  BY DEF Shapes
<1>2. mgr[n].current \in Snapshot /\ mgr[n].reading \in Snapshot
  BY <1>1 DEF Manager
<1>3. mgr[n].current.from \in Nat /\ mgr[n].current.builtAt \in Nat /\ mgr[n].reading.from \in Nat
  BY <1>2 DEF Snapshot
<1>4. clock \in Nat /\ \A e \in Endpoints : since[e] \in Nat
  BY DEF Shapes
<1>. QED
  BY <1>1, <1>2, <1>3, <1>4

(* A failure is counted. *)
LEMMA FailCounts ==
  ASSUME SnapshotAssumption, Shapes, Fail
  PROVE  faults' \in 0 .. MaxFaults
BY DEF SnapshotAssumption, Shapes, Fail

(* Time passes, and neither the rows nor this manager change. *)
LEMMA NodeKept ==
  ASSUME Shapes, NEW n \in Nodes, NodeOK(n), mgr'[n] = mgr[n],
         UNCHANGED <<app, ep, since, unannounced>>, clock' \in Nat, clock' >= clock
  PROVE  NodeOK(n)'
<1>t. /\ clock \in Nat
      /\ mgr[n].current.from \in Nat /\ mgr[n].current.builtAt \in Nat /\ mgr[n].reading.from \in Nat
  BY NodeTypes
<1>1. Covers(mgr[n].current)'
  BY DEF NodeOK, Covers, SeenAt
<1>2. Reading(n)'
  BY <1>t DEF NodeOK, Reading, SeenAt
<1>3. Informed(n)'
  BY DEF NodeOK, Informed, Current, Visible
<1>. QED
  BY <1>t, <1>1, <1>2, <1>3 DEF NodeOK

(* A row changes, to be announced: what was deliverable before has only become    *)
(* less.                                                                           *)
LEMMA NodeTrails ==
  ASSUME Shapes, NEW n \in Nodes, NodeOK(n), UNCHANGED mgr,
         unannounced' > 0, clock' \in Nat, clock' >= clock,
         \A e \in Endpoints, t \in 0 .. clock : SeenAt(e, t)' => SeenAt(e, t)
  PROVE  NodeOK(n)'
<1>t. /\ clock \in Nat
      /\ mgr[n].current.from \in Nat /\ mgr[n].current.builtAt \in Nat /\ mgr[n].reading.from \in Nat
  BY NodeTypes
<1>0. \A e \in Endpoints, t \in 0 .. clock : app' = "live" /\ ep'[e] = "on" /\ since'[e] <= t => SeenAt(e, t)
  BY DEF SeenAt
<1>1. Covers(mgr[n].current)'
  <2>1. mgr[n].current.from \in 0 .. clock
    BY <1>t DEF NodeOK
  <2>2. \A e \in Endpoints : SeenAt(e, mgr[n].current.from)' => SeenAt(e, mgr[n].current.from)
    BY <1>0, <2>1 DEF SeenAt
  <2>. QED
    BY <2>2 DEF NodeOK, Covers
<1>2. Reading(n)'
  <2>. SUFFICES ASSUME mgr[n].at \in {"apps", "endpoints"} PROVE Reading(n)'
    BY DEF Reading
  <2>1. mgr[n].reading.from \in 0 .. clock
    BY <1>t DEF NodeOK, Reading
  <2>2. \A e \in Endpoints : SeenAt(e, mgr[n].reading.from)' => SeenAt(e, mgr[n].reading.from)
    BY <1>0, <2>1 DEF SeenAt
  <2>. QED
    BY <1>t, <2>2 DEF NodeOK, Reading
<1>3. Informed(n)'
  BY DEF Informed
<1>. QED
  BY <1>t, <1>1, <1>2, <1>3 DEF NodeOK

(* One manager is replaced by another record. *)
LEMMA OneManager ==
  ASSUME Shapes, NEW n \in Nodes, NEW R \in Manager, mgr' = [mgr EXCEPT ![n] = R]
  PROVE  /\ mgr' \in [Nodes -> Manager] /\ mgr'[n] = R
         /\ \A k \in Nodes \ {n} : mgr'[k] = mgr[k]
BY DEF Shapes

(* A step of one manager's loop keeps the invariant if that manager is left in     *)
(* order.                                                                           *)
LEMMA ManagerStep ==
  ASSUME SnapshotAssumption, SnapshotInv, NEW n \in Nodes, NEW R \in Manager, SetMgr(n, R),
         faults' \in 0 .. MaxFaults, NodeOK(n)'
  PROVE  SnapshotInv'
<1>t. Shapes /\ RowsOK /\ FreshLosesNothing /\ \A k \in Nodes : NodeOK(k)
  BY DEF SnapshotInv
<1>1. mgr' = [mgr EXCEPT ![n] = R] /\ UNCHANGED <<clock, app, ep, since, unannounced, fan, dlv, lost>>
  BY DEF SetMgr, config, tasks
<1>2. mgr' \in [Nodes -> Manager] /\ \A k \in Nodes \ {n} : mgr'[k] = mgr[k]
  BY <1>t, <1>1, OneManager, Zenon
<1>3. Shapes'
  BY <1>t, <1>1, <1>2 DEF Shapes
<1>4. RowsOK' /\ FreshLosesNothing'
  BY <1>t, <1>1 DEF RowsOK, FreshLosesNothing
<1>5. ASSUME NEW k \in Nodes \ {n} PROVE NodeOK(k)'
  <2>1. clock \in Nat /\ clock' \in Nat /\ clock' >= clock
    BY <1>t, <1>1 DEF Shapes
  <2>. QED
    BY <1>t, <1>1, <1>2, <2>1, NodeKept
<1>. QED
  BY <1>3, <1>4, <1>5 DEF SnapshotInv

-----------------------------------------------------------------------------
(* Administration. *)

LEMMA AdminStep ==
  ASSUME SnapshotAssumption, SnapshotInv, Commit, unannounced' = unannounced + 1,
         UNCHANGED <<mgr, tasks, faults>>,
         app' \in {"absent", "live", "deleted"}, ep' \in [Endpoints -> EpState],
         since' \in [Endpoints -> 0 .. MaxClock],
         \A e \in Endpoints :
            ep'[e] = "absent" \/ (1 <= since'[e] /\ since'[e] <= clock' /\ app' # "absent"),
         \A e \in Endpoints, t \in 0 .. clock : SeenAt(e, t)' => SeenAt(e, t)
  PROVE  SnapshotInv'
<1>t. Shapes /\ RowsOK /\ FreshLosesNothing /\ \A n \in Nodes : NodeOK(n)
  BY DEF SnapshotInv
<1>c. clock' = clock + 1 /\ clock' \in 0 .. MaxClock /\ clock \in Nat /\ unannounced \in Nat
  BY <1>t DEF SnapshotAssumption, Shapes, Commit
<1>1. RowsOK' /\ unannounced' > 0 /\ unannounced' \in 0 .. MaxClock
  BY <1>t, <1>c DEF RowsOK, SnapshotAssumption
<1>2. Shapes'
  BY <1>t, <1>c, <1>1 DEF Shapes, tasks
<1>3. FreshLosesNothing'
  BY <1>t DEF FreshLosesNothing, tasks
<1>4. ASSUME NEW n \in Nodes PROVE NodeOK(n)'
  BY <1>t, <1>c, <1>1, NodeTrails
<1>. QED
  BY <1>1, <1>2, <1>3, <1>4 DEF SnapshotInv

LEMMA SetAppStep ==
  ASSUME SnapshotAssumption, SnapshotInv,
         CreateApplication \/ DeleteApplication
  PROVE  SnapshotInv'
<1>t. Shapes /\ RowsOK
  BY DEF SnapshotInv
<1>1. /\ Commit /\ unannounced' = unannounced + 1
      /\ UNCHANGED <<ep, since, mgr, tasks, faults>>
      /\ \/ app = "absent" /\ app' = "live"
         \/ app = "live" /\ app' = "deleted"
  BY DEF CreateApplication, DeleteApplication, SetApp
<1>2. clock \in Nat /\ clock' = clock + 1 /\ \A e \in Endpoints : since[e] \in Nat
  BY <1>t, <1>1 DEF Shapes, Commit
<1>3. /\ app' \in {"absent", "live", "deleted"} /\ ep' \in [Endpoints -> EpState]
      /\ since' \in [Endpoints -> 0 .. MaxClock]
  BY <1>t, <1>1 DEF Shapes
<1>4. \A e \in Endpoints :
         ep'[e] = "absent" \/ (1 <= since'[e] /\ since'[e] <= clock' /\ app' # "absent")
  BY <1>t, <1>1, <1>2 DEF RowsOK
<1>5. \A e \in Endpoints, t \in 0 .. clock : SeenAt(e, t)' => SeenAt(e, t)
  BY <1>t, <1>1 DEF RowsOK, SeenAt
<1>. QED
  BY <1>1, <1>3, <1>4, <1>5, AdminStep

LEMMA SetEndpointStep ==
  ASSUME SnapshotAssumption, SnapshotInv, NEW e \in Endpoints,
         CreateEndpoint(e) \/ Disable(e) \/ Enable(e) \/ DeleteEndpoint(e)
  PROVE  SnapshotInv'
<1>t. Shapes /\ RowsOK
  BY DEF SnapshotInv
<1>1. PICK to \in EpState :
        /\ app = "live" /\ app' = app /\ ep' = [ep EXCEPT ![e] = to]
        /\ Commit /\ unannounced' = unannounced + 1
        /\ since' = [since EXCEPT ![e] = clock']
        /\ UNCHANGED <<mgr, tasks, faults>>
  BY DEF CreateEndpoint, Disable, Enable, DeleteEndpoint, SetEndpoint, EpState
<1>2. /\ clock \in Nat /\ clock' = clock + 1 /\ clock' \in 0 .. MaxClock
      /\ \A k \in Endpoints : since[k] \in Nat
  BY <1>t, <1>1 DEF Shapes, Commit, SnapshotAssumption
<1>3. /\ app' \in {"absent", "live", "deleted"} /\ ep' \in [Endpoints -> EpState]
      /\ since' \in [Endpoints -> 0 .. MaxClock]
  BY <1>t, <1>1, <1>2 DEF Shapes
<1>u. /\ since'[e] = clock + 1 /\ ep'[e] = to
      /\ \A k \in Endpoints \ {e} : since'[k] = since[k] /\ ep'[k] = ep[k]
  BY <1>t, <1>1, <1>2 DEF Shapes
<1>4. \A k \in Endpoints :
         ep'[k] = "absent" \/ (1 <= since'[k] /\ since'[k] <= clock' /\ app' # "absent")
  BY <1>t, <1>1, <1>2, <1>u DEF RowsOK
<1>5. \A k \in Endpoints, t \in 0 .. clock : SeenAt(k, t)' => SeenAt(k, t)
  BY <1>1, <1>2, <1>u DEF SeenAt
<1>. QED
  BY <1>1, <1>3, <1>4, <1>5, AdminStep

(* Every manager gets a token or has the miss noted. *)
LEMMA AnnounceStep ==
  ASSUME SnapshotAssumption, SnapshotInv, Announce
  PROVE  SnapshotInv'
<1>t. Shapes /\ RowsOK /\ FreshLosesNothing /\ \A n \in Nodes : NodeOK(n)
  BY DEF SnapshotInv
<1>1. PICK deaf \in SUBSET Nodes :
        /\ mgr' = [n \in Nodes |-> IF n \in deaf THEN [mgr[n] EXCEPT !.missed = TRUE]
                                                 ELSE Invalidated(mgr[n])]
        /\ IF deaf = {} THEN UNCHANGED faults ELSE Fail
  BY Zenon DEF Announce
<1>2. /\ UNCHANGED <<clock, app, ep, since, fan, dlv, lost>>
      /\ unannounced \in Nat /\ unannounced > 0 /\ unannounced' = unannounced - 1
      /\ faults' \in 0 .. MaxFaults
  BY <1>t, <1>1, FailCounts DEF Announce, tasks, Shapes
<1>3. ASSUME NEW n \in Nodes
      PROVE  /\ mgr'[n] \in Manager /\ (mgr'[n].reload \/ mgr'[n].missed)
             /\ mgr'[n].current = mgr[n].current /\ mgr'[n].reading = mgr[n].reading
             /\ mgr'[n].at = mgr[n].at
  <2>t. mgr[n] \in Manager
    BY <1>t, NodeTypes
  <2>. DEFINE A == [mgr[n] EXCEPT !.missed = TRUE]
              B == Invalidated(mgr[n])
  <2>1. A \in Manager /\ A.missed /\ A.current = mgr[n].current /\ A.reading = mgr[n].reading /\ A.at = mgr[n].at
    BY <2>t, Zenon DEF Manager
  <2>2. B \in Manager /\ B.reload /\ B.current = mgr[n].current /\ B.reading = mgr[n].reading /\ B.at = mgr[n].at
    BY <2>t, Zenon DEF Manager, Invalidated
  <2>3. mgr'[n] = A \/ mgr'[n] = B
    BY <1>1
  <2>. HIDE DEF A, B
  <2>. QED
    BY <2>1, <2>2, <2>3
<1>4. mgr' \in [Nodes -> Manager]
  BY <1>1, <1>3
<1>5. Shapes' /\ RowsOK' /\ FreshLosesNothing'
  <2>1. unannounced' \in 0 .. MaxClock /\ unannounced' <= clock'
    BY <1>t, <1>2 DEF Shapes, RowsOK, SnapshotAssumption
  <2>2. Shapes'
    BY <1>t, <1>2, <1>4, <2>1 DEF Shapes
  <2>3. RowsOK' /\ FreshLosesNothing'
    BY <1>t, <1>2, <2>1 DEF RowsOK, FreshLosesNothing
  <2>. QED
    BY <2>2, <2>3
<1>6. ASSUME NEW n \in Nodes PROVE NodeOK(n)'
  <2>1. Informed(n)'
    BY <1>3 DEF Informed
  <2>2. Covers(mgr[n].current)' /\ Reading(n)'
    BY <1>t, <1>2, <1>3 DEF NodeOK, Covers, Reading, SeenAt
  <2>. QED
    BY <1>t, <1>2, <1>3, <2>1, <2>2 DEF NodeOK
<1>. QED
  BY <1>5, <1>6 DEF SnapshotInv

-----------------------------------------------------------------------------
(* Manager.Run and Load. *)

(* Before the first query nothing has been read: any state of the token will do. *)
LEMMA ToLoad ==
  ASSUME SnapshotAssumption, SnapshotInv, NEW n \in Nodes, NEW R \in Manager, SetMgr(n, R),
         UNCHANGED faults, R.at \in {"debounce", "load"}, R.current = mgr[n].current
  PROVE  SnapshotInv' /\ mgr'[n].current = mgr[n].current
<1>t. Shapes /\ NodeOK(n)
  BY DEF SnapshotInv
<1>1. UNCHANGED <<clock, app, ep, since, unannounced>> /\ mgr' = [mgr EXCEPT ![n] = R]
  BY DEF SetMgr, config
<1>2. mgr'[n] = R
  BY <1>t, <1>1, OneManager, Zenon
<1>3. NodeOK(n)'
  BY <1>t, <1>1, <1>2 DEF NodeOK, Covers, Reading, Informed, SeenAt
<1>4. faults' \in 0 .. MaxFaults
  BY <1>t DEF Shapes
<1>. QED
  BY <1>2, <1>3, <1>4, ManagerStep

LEMMA ToLoadStep ==
  ASSUME SnapshotAssumption, SnapshotInv, NEW n \in Nodes, TakeToken(n) \/ Drain(n) \/ Refresh(n)
  PROVE  SnapshotInv' /\ mgr'[n].current = mgr[n].current
<1>t. mgr[n] \in Manager
  BY NodeTypes DEF SnapshotInv
<1>1. CASE TakeToken(n)
  <2>. DEFINE R == [mgr[n] EXCEPT !.at = "debounce", !.reload = FALSE]
  <2>1. R \in Manager /\ R.at = "debounce" /\ R.current = mgr[n].current
    BY <1>t, Zenon DEF Manager
  <2>2. SetMgr(n, R) /\ UNCHANGED faults
    BY <1>1 DEF TakeToken
  <2>. HIDE DEF R
  <2>. QED
    BY <2>1, <2>2, ToLoad
<1>2. CASE Drain(n)
  <2>. DEFINE R == [mgr[n] EXCEPT !.at = "load", !.reload = FALSE, !.missed = FALSE]
  <2>1. R \in Manager /\ R.at = "load" /\ R.current = mgr[n].current
    BY <1>t, Zenon DEF Manager
  <2>2. SetMgr(n, R) /\ UNCHANGED faults
    BY <1>2 DEF Drain
  <2>. HIDE DEF R
  <2>. QED
    BY <2>1, <2>2, ToLoad
<1>3. CASE Refresh(n)
  <2>. DEFINE R == [mgr[n] EXCEPT !.at = "load", !.missed = FALSE]
  <2>1. R \in Manager /\ R.at = "load" /\ R.current = mgr[n].current
    BY <1>t, Zenon DEF Manager
  <2>2. SetMgr(n, R) /\ UNCHANGED faults
    BY <1>3 DEF Refresh
  <2>. HIDE DEF R
  <2>. QED
    BY <2>1, <2>2, ToLoad
<1>. QED
  BY <1>1, <1>2, <1>3

LEMMA ReadApplicationsStep ==
  ASSUME SnapshotAssumption, SnapshotInv, NEW n \in Nodes, ReadApplications(n)
  PROVE  SnapshotInv' /\ mgr'[n].current = mgr[n].current
<1>t. Shapes /\ NodeOK(n)
  BY DEF SnapshotInv
<1>m. /\ mgr[n] \in Manager /\ mgr[n].reading \in Snapshot /\ clock \in 0 .. MaxClock
      /\ mgr[n].current.from \in Nat /\ mgr[n].current.builtAt \in Nat
  BY <1>t, NodeTypes DEF Shapes
<1>. DEFINE r == [mgr[n].reading EXCEPT !.from = clock, !.app = (app = "live")]
            R == [mgr[n] EXCEPT !.at = "apps", !.reading = r]
<1>1. r \in Snapshot /\ r.from = clock /\ (r.app <=> app = "live")
  BY <1>m, Zenon DEF Snapshot
<1>2. SetMgr(n, R) /\ UNCHANGED faults
  BY <1>m, Zenon DEF ReadApplications, Manager
<1>. HIDE DEF r
<1>3. R \in Manager /\ R.at = "apps" /\ R.reading = r /\ R.current = mgr[n].current
  BY <1>m, <1>1, Zenon DEF Manager
<1>. HIDE DEF R
<1>4. UNCHANGED <<clock, app, ep, since, unannounced>> /\ mgr' = [mgr EXCEPT ![n] = R]
  BY <1>2 DEF SetMgr, config
<1>5. mgr'[n] = R
  BY <1>t, <1>3, <1>4, OneManager, Zenon
<1>6. NodeOK(n)'
  <2>1. Covers(mgr[n].current)'
    BY <1>t, <1>3, <1>4, <1>5 DEF NodeOK, Covers, SeenAt
  <2>2. Reading(n)'
    BY <1>t, <1>m, <1>1, <1>3, <1>4, <1>5 DEF NodeOK, Reading, SeenAt
  <2>3. Informed(n)'
    BY <1>1, <1>3, <1>4, <1>5 DEF Informed
  <2>. QED
    BY <1>t, <1>3, <1>4, <1>5, <2>1, <2>2, <2>3 DEF NodeOK
<1>7. faults' \in 0 .. MaxFaults
  BY <1>t, <1>2 DEF Shapes
<1>. QED
  BY <1>2, <1>3, <1>5, <1>6, <1>7, ManagerStep

LEMMA ReadEndpointsStep ==
  ASSUME SnapshotAssumption, SnapshotInv, NEW n \in Nodes, ReadEndpoints(n)
  PROVE  SnapshotInv' /\ mgr'[n].current = mgr[n].current
<1>t. Shapes /\ NodeOK(n) /\ mgr[n].at = "apps"
  BY DEF SnapshotInv, ReadEndpoints
<1>m. mgr[n] \in Manager /\ mgr[n].reading \in Snapshot
  BY <1>t, NodeTypes
<1>. DEFINE seen == [e \in Endpoints |-> Visible(e)]
            r == [mgr[n].reading EXCEPT !.ep = seen]
            R == [mgr[n] EXCEPT !.at = "endpoints", !.reading = r]
<1>0. seen \in [Endpoints -> {"absent", "on", "off"}] /\ \A e \in Endpoints : seen[e] = Visible(e)
  BY <1>t DEF Shapes, Visible, EpState
<1>2. SetMgr(n, R) /\ UNCHANGED faults
  BY <1>m DEF ReadEndpoints, Manager
<1>. HIDE DEF seen
<1>1. r \in Snapshot /\ r.from = mgr[n].reading.from /\ r.app = mgr[n].reading.app /\ r.ep = seen
  BY <1>m, <1>0 DEF Snapshot
<1>. HIDE DEF r
<1>3. /\ R \in Manager /\ R.at = "endpoints" /\ R.reading = r /\ R.current = mgr[n].current
      /\ R.reload = mgr[n].reload /\ R.missed = mgr[n].missed
  BY <1>m, <1>1, Zenon DEF Manager
<1>. HIDE DEF R
<1>4. UNCHANGED <<clock, app, ep, since, unannounced>> /\ mgr' = [mgr EXCEPT ![n] = R]
  BY <1>2 DEF SetMgr, config
<1>5. mgr'[n] = R
  BY <1>t, <1>3, <1>4, OneManager, Zenon
<1>6. NodeOK(n)'
  <2>1. Covers(mgr[n].current)'
    BY <1>t, <1>3, <1>4, <1>5 DEF NodeOK, Covers, SeenAt
  <2>2. Reading(n)'
    BY <1>t, <1>0, <1>1, <1>3, <1>4, <1>5 DEF NodeOK, Reading, SeenAt, Visible
  <2>3. Informed(n)'
    BY <1>t, <1>0, <1>1, <1>3, <1>4, <1>5 DEF NodeOK, Informed, Visible
  <2>. QED
    BY <1>t, <1>3, <1>4, <1>5, <2>1, <2>2, <2>3 DEF NodeOK
<1>7. faults' \in 0 .. MaxFaults
  BY <1>t, <1>2 DEF Shapes
<1>. QED
  BY <1>2, <1>3, <1>5, <1>6, <1>7, ManagerStep

(* A failed load keeps the snapshot, and notes that it may be behind. *)
LEMMA LoadFailsStep ==
  ASSUME SnapshotAssumption, SnapshotInv, NEW n \in Nodes, LoadFails(n)
  PROVE  SnapshotInv' /\ mgr'[n].current = mgr[n].current
<1>t. Shapes /\ NodeOK(n)
  BY DEF SnapshotInv
<1>m. mgr[n] \in Manager /\ EmptySnapshot \in Snapshot
  BY <1>t, NodeTypes DEF EmptySnapshot, Snapshot, SnapshotAssumption
<1>. DEFINE R == [mgr[n] EXCEPT !.at = "idle", !.missed = TRUE, !.reading = EmptySnapshot]
<1>2. SetMgr(n, R)
  BY DEF LoadFails
<1>3. R \in Manager /\ R.at = "idle" /\ R.missed /\ R.current = mgr[n].current
  BY <1>m, Zenon DEF Manager
<1>. HIDE DEF R
<1>4. UNCHANGED <<clock, app, ep, since, unannounced>> /\ mgr' = [mgr EXCEPT ![n] = R]
  BY <1>2 DEF SetMgr, config
<1>5. mgr'[n] = R
  BY <1>t, <1>3, <1>4, OneManager, Zenon
<1>6. NodeOK(n)'
  BY <1>t, <1>3, <1>4, <1>5 DEF NodeOK, Covers, Reading, Informed, SeenAt
<1>7. faults' \in 0 .. MaxFaults
  BY <1>t, FailCounts DEF LoadFails
<1>. QED
  BY <1>2, <1>3, <1>5, <1>6, <1>7, ManagerStep

(* BuildSnapshot installs what was read, with the endpoints it skips left out. *)
LEMMA BuildStep ==
  ASSUME SnapshotAssumption, SnapshotInv, NEW n \in Nodes, Build(n)
  PROVE  SnapshotInv' /\ mgr'[n].current.from >= mgr[n].current.from
<1>t. Shapes /\ NodeOK(n) /\ mgr[n].at = "endpoints"
  BY DEF SnapshotInv, Build
<1>m. /\ mgr[n] \in Manager /\ mgr[n].reading \in Snapshot /\ clock \in 0 .. MaxClock
      /\ mgr[n].reading.from \in Nat /\ mgr[n].current.from \in Nat
      /\ mgr[n].reading.ep \in [Endpoints -> {"absent", "on", "off"}]
      /\ EmptySnapshot \in Snapshot
  BY <1>t, NodeTypes DEF Shapes, EmptySnapshot, Snapshot, SnapshotAssumption
<1>1. PICK skip \in SUBSET Endpoints :
        /\ SetMgr(n, Install(n, mgr[n].reading, skip))
        /\ IF skip = {} THEN UNCHANGED faults ELSE Fail
  BY DEF Build
<1>. DEFINE kept == [e \in Endpoints |-> IF e \in skip THEN "absent" ELSE mgr[n].reading.ep[e]]
            c == [mgr[n].reading EXCEPT !.builtAt = clock, !.missing = skip, !.ep = kept]
            R == [mgr[n] EXCEPT !.at = "idle", !.current = c, !.reading = EmptySnapshot]
<1>0. /\ kept \in [Endpoints -> {"absent", "on", "off"}]
      /\ \A e \in Endpoints \ skip : kept[e] = mgr[n].reading.ep[e]
  BY <1>m
<1>2. SetMgr(n, R)
  BY <1>1, <1>m DEF Install, BuiltAtStamp, Snapshot
<1>. HIDE DEF kept
<1>3. /\ c \in Snapshot /\ c.from = mgr[n].reading.from /\ c.app = mgr[n].reading.app
      /\ c.ep = kept /\ c.missing = skip /\ c.builtAt = clock
  BY <1>m, <1>0, Zenon DEF Snapshot
<1>. HIDE DEF c
<1>4. /\ R \in Manager /\ R.at = "idle" /\ R.current = c
      /\ R.reload = mgr[n].reload /\ R.missed = mgr[n].missed
  BY <1>m, <1>3, Zenon DEF Manager
<1>. HIDE DEF R
<1>5. UNCHANGED <<clock, app, ep, since, unannounced>> /\ mgr' = [mgr EXCEPT ![n] = R]
  BY <1>2 DEF SetMgr, config
<1>6. mgr'[n] = R
  BY <1>t, <1>4, <1>5, OneManager, Zenon
<1>7. NodeOK(n)'
  <2>1. Covers(mgr[n].current)'
    BY <1>t, <1>0, <1>3, <1>4, <1>5, <1>6 DEF NodeOK, Covers, Reading, SeenAt
  <2>2. Reading(n)'
    BY <1>4, <1>6 DEF Reading
  <2>3. Informed(n)'
    BY <1>t, <1>0, <1>3, <1>4, <1>5, <1>6 DEF NodeOK, Informed, Current, Visible
  <2>4. c.from <= c.builtAt /\ c.builtAt <= clock
    BY <1>t, <1>m, <1>3 DEF NodeOK, Reading
  <2>. QED
    BY <1>4, <1>5, <1>6, <2>1, <2>2, <2>3, <2>4 DEF NodeOK
<1>8. faults' \in 0 .. MaxFaults
  BY <1>t, <1>1, FailCounts DEF Shapes
<1>9. SnapshotInv'
  BY <1>2, <1>4, <1>7, <1>8, ManagerStep
<1>10. mgr'[n].current.from >= mgr[n].current.from
  BY <1>t, <1>m, <1>3, <1>4, <1>6 DEF NodeOK, Reading
<1>. QED
  BY <1>9, <1>10

-----------------------------------------------------------------------------
(* Ingest and the engine. *)

(* What a snapshot does not have although it is due was not deliverable yet when  *)
(* its first query ran, or was left out on purpose.                               *)
LEMMA LossesAreExcused ==
  ASSUME Shapes, FreshLosesNothing, NEW n \in Nodes, NodeOK(n),
         NEW x \in Messages, NEW t \in Task, NEW S \in SUBSET Due(t),
         NEW why \in {"empty", "partial", "gone", "disabled"},
         \A e \in S : ~(mgr[n].current.app /\ mgr[n].current.ep[e] = "on"),
         why \in {"empty", "gone"} => ~TooOld(mgr[n].current, t),
         Loses(x, S, mgr[n].current, t, why)
  PROVE  lost' \subseteq Loss /\ FreshLosesNothing'
<1>. DEFINE c == mgr[n].current
            Entry(e) == [msg |-> x, ep |-> e, snap |-> c, created |-> t.created, at |-> why]
<1>t. /\ c \in Snapshot /\ c.from \in Nat /\ c.builtAt \in Nat
      /\ t.created \in 0 .. MaxClock /\ t.created \in Nat
      /\ \A e \in Endpoints : since[e] \in Nat
  BY NodeTypes DEF Task
<1>1. ASSUME NEW e \in S
      PROVE  /\ e \in Endpoints
             /\ c.from < t.created \/ e \in c.missing
             /\ why \in {"empty", "gone"} => c.builtAt >= t.created
  <2>1. e \in Endpoints /\ app = "live" /\ ep[e] = "on" /\ since[e] < t.created
    BY DEF Due
  <2>2. ASSUME ~(c.from < t.created) PROVE e \in c.missing
    <3>1. SeenAt(e, c.from)
      BY <1>t, <2>1, <2>2 DEF SeenAt
    <3>. QED
      BY <2>1, <3>1 DEF NodeOK, Covers
  <2>3. why \in {"empty", "gone"} => c.builtAt >= t.created
    BY <1>t DEF TooOld
  <2>. QED
    BY <2>1, <2>2, <2>3
<1>2. lost' = lost \cup {Entry(e) : e \in S}
  BY DEF Loses
<1>. HIDE DEF c
<1>3. ASSUME NEW e \in S
      PROVE  /\ Entry(e) \in Loss
             /\ Entry(e).snap.from < Entry(e).created \/ Entry(e).ep \in Entry(e).snap.missing
             /\ Entry(e).at \in {"empty", "gone"} => Entry(e).snap.builtAt >= Entry(e).created
  BY <1>t, <1>1 DEF Loss
<1>. HIDE DEF Entry
<1>4. lost' \subseteq Loss
  BY <1>2, <1>3 DEF Shapes
<1>5. FreshLosesNothing'
  BY <1>2, <1>3 DEF FreshLosesNothing
<1>. QED
  BY <1>4, <1>5

(* A step of the engine: rows and managers stay. *)
LEMMA TaskStep ==
  ASSUME SnapshotInv, UNCHANGED <<config, mgr, faults>>,
         clock' \in 0 .. MaxClock, clock' >= clock,
         fan' \in [Messages -> Task], dlv' \in [Messages -> [Endpoints -> Task]],
         lost' \subseteq Loss, FreshLosesNothing'
  PROVE  SnapshotInv'
<1>t. Shapes /\ RowsOK /\ \A n \in Nodes : NodeOK(n)
  BY DEF SnapshotInv
<1>1. UNCHANGED <<app, ep, since, unannounced>> /\ clock \in Nat /\ clock' \in Nat
  BY <1>t DEF config, Shapes
<1>2. Shapes'
  BY <1>t, <1>1 DEF Shapes
<1>3. RowsOK'
  <2>1. unannounced \in Nat /\ \A e \in Endpoints : since[e] \in Nat
    BY <1>t DEF Shapes
  <2>. QED
    BY <1>t, <1>1, <2>1 DEF RowsOK
<1>4. ASSUME NEW n \in Nodes PROVE NodeOK(n)'
  BY <1>t, <1>1, NodeKept
<1>. QED
  BY <1>2, <1>3, <1>4 DEF SnapshotInv

LEMMA FanoutDropStep ==
  ASSUME SnapshotAssumption, SnapshotInv, NEW n \in Nodes, NEW x \in Messages, FanoutDrop(n, x)
  PROVE  SnapshotInv'
<1>t. Shapes /\ FreshLosesNothing /\ NodeOK(n)
  BY DEF SnapshotInv
<1>1. /\ Matching(mgr[n].current) = {} /\ ~TooOld(mgr[n].current, fan[x])
      /\ Loses(x, Due(fan[x]), mgr[n].current, fan[x], "empty")
      /\ fan' = [fan EXCEPT ![x].st = "done"]
      /\ UNCHANGED <<clock, config, mgr, dlv, faults>>
  BY DEF FanoutDrop
<1>2. /\ clock' \in 0 .. MaxClock /\ clock' >= clock /\ fan[x] \in Task
      /\ dlv' \in [Messages -> [Endpoints -> Task]]
  BY <1>t, <1>1 DEF Shapes
<1>3. fan' \in [Messages -> Task]
  BY <1>t, <1>1 DEF Shapes, Task
<1>4. \A e \in Due(fan[x]) : ~(mgr[n].current.app /\ mgr[n].current.ep[e] = "on")
  BY <1>1 DEF Matching, Due
<1>5. lost' \subseteq Loss /\ FreshLosesNothing'
  BY <1>t, <1>1, <1>2, <1>4, LossesAreExcused, Zenon
<1>. QED
  BY <1>1, <1>2, <1>3, <1>5, TaskStep

LEMMA FanoutExpandStep ==
  ASSUME SnapshotAssumption, SnapshotInv, NEW n \in Nodes, NEW x \in Messages, FanoutExpand(n, x)
  PROVE  SnapshotInv'
<1>t. Shapes /\ FreshLosesNothing /\ NodeOK(n)
  BY DEF SnapshotInv
<1>. DEFINE S == Due(fan[x]) \ Matching(mgr[n].current)
            D == [e \in Endpoints |-> IF e \in Matching(mgr[n].current)
                                      THEN [st |-> "queued", created |-> clock'] ELSE NoTask]
<1>1. /\ Loses(x, S, mgr[n].current, fan[x], "partial") /\ Commit
      /\ fan' = [fan EXCEPT ![x].st = "done"] /\ dlv' = [dlv EXCEPT ![x] = D]
      /\ UNCHANGED <<config, mgr, faults>>
  BY DEF FanoutExpand
<1>2. clock' \in 0 .. MaxClock /\ clock' >= clock /\ fan[x] \in Task
  BY <1>t, <1>1 DEF Shapes, Commit, SnapshotAssumption
<1>3. fan' \in [Messages -> Task]
  BY <1>t, <1>1, Zenon DEF Shapes, Task
<1>4. D \in [Endpoints -> Task]
  BY <1>2 DEF Task, NoTask, SnapshotAssumption
<1>. HIDE DEF D
<1>5. dlv' \in [Messages -> [Endpoints -> Task]]
  BY <1>t, <1>1, <1>4 DEF Shapes
<1>6. S \in SUBSET Due(fan[x]) /\ \A e \in S : ~(mgr[n].current.app /\ mgr[n].current.ep[e] = "on")
  BY DEF Matching, Due
<1>. HIDE DEF S
<1>7. lost' \subseteq Loss /\ FreshLosesNothing'
  BY <1>t, <1>1, <1>2, <1>6, LossesAreExcused, Zenon
<1>. QED
  BY <1>1, <1>2, <1>3, <1>5, <1>7, TaskStep

LEMMA DeliverStep ==
  ASSUME SnapshotAssumption, SnapshotInv, NEW n \in Nodes, NEW x \in Messages,
         NEW e \in Endpoints, Deliver(n, x, e)
  PROVE  SnapshotInv'
<1>t. Shapes /\ FreshLosesNothing /\ NodeOK(n)
  BY DEF SnapshotInv
<1>. DEFINE c == mgr[n].current
            t == dlv[x][e]
            S == {e} \cap Due(t)
<1>1. /\ dlv' = [dlv EXCEPT ![x][e].st = "done"]
      /\ \/ c.ep[e] = "on" /\ UNCHANGED lost
         \/ c.ep[e] = "absent" /\ ~TooOld(c, t) /\ Loses(x, S, c, t, "gone")
         \/ c.ep[e] = "off" /\ Loses(x, S, c, t, "disabled")
      /\ UNCHANGED <<clock, config, mgr, fan, faults>>
  BY DEF Deliver
<1>2. /\ clock' \in 0 .. MaxClock /\ clock' >= clock /\ t \in Task
      /\ fan' \in [Messages -> Task]
  BY <1>t, <1>1 DEF Shapes
<1>3. dlv' \in [Messages -> [Endpoints -> Task]]
  <2>. DEFINE u == [t EXCEPT !.st = "done"]
              D == [dlv[x] EXCEPT ![e] = u]
  <2>1. dlv \in [Messages -> [Endpoints -> Task]] /\ dlv[x] \in [Endpoints -> Task]
    BY <1>t DEF Shapes
  <2>2. u \in Task
    BY <1>2 DEF Task
  <2>3. dlv' = [dlv EXCEPT ![x] = D]
    BY <1>1, <2>1
  <2>. HIDE DEF u
  <2>4. D \in [Endpoints -> Task]
    BY <2>1, <2>2
  <2>. HIDE DEF D
  <2>. QED
    BY <2>1, <2>3, <2>4
<1>4. S \in SUBSET Due(t) /\ \A k \in S : k = e
  OBVIOUS
<1>. HIDE DEF S, t
<1>5. lost' \subseteq Loss /\ FreshLosesNothing'
  <2>1. CASE UNCHANGED lost
    BY <1>t, <2>1 DEF Shapes, FreshLosesNothing
  <2>2. CASE c.ep[e] = "absent" /\ ~TooOld(c, t) /\ Loses(x, S, c, t, "gone")
    BY <1>t, <1>2, <1>4, <2>2, LossesAreExcused
  <2>3. CASE c.ep[e] = "off" /\ Loses(x, S, c, t, "disabled")
    BY <1>t, <1>2, <1>4, <2>3, LossesAreExcused, Zenon
  <2>. QED
    BY <1>1, <2>1, <2>2, <2>3
<1>. QED
  BY <1>1, <1>2, <1>3, <1>5, TaskStep

(* Ingest may leave a token for the manager. *)
LEMMA IngestStep ==
  ASSUME SnapshotAssumption, SnapshotInv, NEW n \in Nodes, NEW x \in Messages, Ingest(n, x)
  PROVE  SnapshotInv' /\ \A k \in Nodes : mgr'[k].current = mgr[k].current
<1>t. Shapes /\ RowsOK /\ FreshLosesNothing /\ \A k \in Nodes : NodeOK(k)
  BY DEF SnapshotInv
<1>1. /\ UNCHANGED <<app, ep, since, unannounced, dlv, lost, faults>> /\ Commit
      /\ fan' = [fan EXCEPT ![x] = [st |-> "queued", created |-> clock']]
  BY DEF Ingest, config
<1>2. clock \in Nat /\ clock' = clock + 1 /\ clock' \in 0 .. MaxClock
  BY <1>t, <1>1 DEF Shapes, Commit, SnapshotAssumption
<1>3. fan' \in [Messages -> Task]
  BY <1>t, <1>1, <1>2 DEF Shapes, Task
<1>. DEFINE R == Invalidated(mgr[n])
<1>4. R \in Manager /\ R.reload /\ R.current = mgr[n].current /\ R.reading = mgr[n].reading /\ R.at = mgr[n].at
  BY <1>t, NodeTypes, Zenon DEF Invalidated, Manager
<1>5. mgr' = mgr \/ mgr' = [mgr EXCEPT ![n] = R]
  BY DEF Ingest
<1>. HIDE DEF R
<1>6. /\ mgr' \in [Nodes -> Manager]
      /\ \A k \in Nodes : mgr'[k] = mgr[k] \/ (k = n /\ mgr'[k] = R)
  BY <1>t, <1>4, <1>5, OneManager DEF Shapes
<1>7. Shapes' /\ FreshLosesNothing'
  BY <1>t, <1>1, <1>2, <1>3, <1>6 DEF Shapes, FreshLosesNothing
<1>8. RowsOK'
  <2>1. unannounced \in Nat /\ \A e \in Endpoints : since[e] \in Nat
    BY <1>t DEF Shapes
  <2>. QED
    BY <1>t, <1>1, <1>2, <2>1 DEF RowsOK
<1>9. ASSUME NEW k \in Nodes PROVE NodeOK(k)'
  <2>1. CASE mgr'[k] = mgr[k]
    BY <1>t, <1>1, <1>2, <2>1, NodeKept
  <2>2. CASE k = n /\ mgr'[k] = R
    <3>t. /\ mgr[n].current.from \in Nat /\ mgr[n].current.builtAt \in Nat /\ mgr[n].reading.from \in Nat
      BY <1>t, NodeTypes
    <3>1. Covers(mgr[k].current)'
      BY <1>t, <1>1, <1>4, <2>2 DEF NodeOK, Covers, SeenAt
    <3>2. Reading(k)'
      BY <1>t, <1>1, <1>2, <1>4, <2>2, <3>t DEF NodeOK, Reading, SeenAt
    <3>3. Informed(k)'
      BY <1>4, <2>2 DEF Informed
    <3>. QED
      BY <1>t, <1>2, <1>4, <2>2, <3>t, <3>1, <3>2, <3>3 DEF NodeOK
  <2>. QED
    BY <1>6, <2>1, <2>2
<1>. QED
  BY <1>4, <1>6, <1>7, <1>8, <1>9 DEF SnapshotInv

-----------------------------------------------------------------------------
(* The theorems. *)

LEMMA SnapshotInit ==
  ASSUME SnapshotAssumption, Init PROVE SnapshotInv
<1>. DEFINE R == [current |-> EmptySnapshot, reading |-> EmptySnapshot,
                  reload |-> FALSE, at |-> "idle", missed |-> FALSE]
<1>1. /\ EmptySnapshot \in Snapshot /\ EmptySnapshot.from = 0 /\ EmptySnapshot.builtAt = 0
      /\ ~EmptySnapshot.app /\ \A e \in Endpoints : EmptySnapshot.ep[e] = "absent"
  BY DEF EmptySnapshot, Snapshot, SnapshotAssumption
<1>2. R \in Manager /\ R.current = EmptySnapshot /\ R.at = "idle"
  BY <1>1 DEF Manager
<1>3. mgr = [n \in Nodes |-> R]
  BY DEF Init
<1>. HIDE DEF R
<1>4. Shapes
  <2>1. NoTask \in Task
    BY DEF Task, NoTask, SnapshotAssumption
  <2>2. mgr \in [Nodes -> Manager]
    BY <1>2, <1>3
  <2>3. fan \in [Messages -> Task] /\ dlv \in [Messages -> [Endpoints -> Task]]
    BY <2>1 DEF Init
  <2>4. ep \in [Endpoints -> EpState] /\ since \in [Endpoints -> 0 .. MaxClock]
    BY DEF Init, EpState, SnapshotAssumption
  <2>5. /\ clock \in 0 .. MaxClock /\ app \in {"absent", "live", "deleted"}
        /\ unannounced \in 0 .. MaxClock /\ lost \subseteq Loss /\ faults \in 0 .. MaxFaults
    BY DEF Init, SnapshotAssumption
  <2>. QED
    BY <2>2, <2>3, <2>4, <2>5 DEF Shapes
<1>5. RowsOK /\ FreshLosesNothing
  BY DEF Init, RowsOK, FreshLosesNothing
<1>6. ASSUME NEW n \in Nodes PROVE NodeOK(n)
  BY <1>1, <1>2, <1>3 DEF Init, NodeOK, Covers, Reading, Informed, SeenAt, Current, Visible
<1>. QED
  BY <1>4, <1>5, <1>6 DEF SnapshotInv

(* The managers' snapshots are replaced by Build only. *)
LEMMA SnapshotNext ==
  ASSUME SnapshotAssumption, SnapshotInv, [Next]_vars
  PROVE  SnapshotInv' /\ NeverOlder
<1>t. Shapes /\ mgr \in [Nodes -> Manager] /\ \A n \in Nodes : mgr[n].current.from \in Nat
  BY NodeTypes DEF SnapshotInv, Shapes
<1>s. (\A k \in Nodes : mgr'[k].current = mgr[k].current) => NeverOlder
  BY <1>t DEF NeverOlder
<1>1. CASE Admin
  BY <1>1, <1>s, SetAppStep, SetEndpointStep DEF Admin, CreateApplication, DeleteApplication, SetApp,
     CreateEndpoint, Disable, Enable, DeleteEndpoint, SetEndpoint
<1>2. CASE Announce
  <2>1. \A k \in Nodes : mgr'[k].current = mgr[k].current
    BY <1>2, <1>t DEF Announce, Manager, Invalidated
  <2>. QED
    BY <1>2, <1>s, <2>1, AnnounceStep
<1>3. ASSUME NEW n \in Nodes, TakeToken(n) \/ Drain(n) \/ Refresh(n) \/ ReadApplications(n)
                              \/ ReadEndpoints(n) \/ LoadFails(n)
      PROVE  SnapshotInv' /\ NeverOlder
  <2>1. SnapshotInv' /\ mgr'[n].current = mgr[n].current
    BY <1>3, ToLoadStep, ReadApplicationsStep, ReadEndpointsStep, LoadFailsStep
  <2>2. \A k \in Nodes \ {n} : mgr'[k] = mgr[k]
    BY <1>3, <1>t DEF TakeToken, Drain, Refresh, ReadApplications, ReadEndpoints, LoadFails, SetMgr
  <2>. QED
    BY <1>s, <2>1, <2>2
<1>4. ASSUME NEW n \in Nodes, Build(n) PROVE SnapshotInv' /\ NeverOlder
  <2>1. SnapshotInv' /\ mgr'[n].current.from >= mgr[n].current.from
    BY <1>4, BuildStep
  <2>2. \A k \in Nodes \ {n} : mgr'[k] = mgr[k]
    BY <1>4, <1>t DEF Build, SetMgr
  <2>. QED
    BY <1>t, <2>1, <2>2 DEF NeverOlder
<1>5. ASSUME NEW n \in Nodes, NEW x \in Messages,
             FanoutDrop(n, x) \/ FanoutExpand(n, x) \/ \E e \in Endpoints : Deliver(n, x, e)
      PROVE  SnapshotInv' /\ NeverOlder
  <2>1. mgr' = mgr
    BY <1>5, Zenon DEF FanoutDrop, FanoutExpand, Deliver
  <2>. QED
    BY <1>5, <1>s, <2>1, FanoutDropStep, FanoutExpandStep, DeliverStep
<1>6. ASSUME NEW n \in Nodes, NEW x \in Messages, Ingest(n, x) PROVE SnapshotInv' /\ NeverOlder
  BY <1>6, <1>s, IngestStep
<1>7. CASE UNCHANGED vars
  <2>1. UNCHANGED <<config, mgr, faults, clock, fan, dlv, lost>>
    BY <1>7 DEF vars, config
  <2>2. clock' \in 0 .. MaxClock /\ clock' >= clock /\ FreshLosesNothing'
    BY <1>t, <2>1 DEF SnapshotInv, Shapes, FreshLosesNothing
  <2>3. fan' \in [Messages -> Task] /\ dlv' \in [Messages -> [Endpoints -> Task]] /\ lost' \subseteq Loss
    BY <1>t, <2>1 DEF Shapes
  <2>. QED
    BY <1>s, <2>1, <2>2, <2>3, TaskStep
<1>. QED
  BY <1>1, <1>2, <1>3, <1>4, <1>5, <1>6, <1>7 DEF Next, Load, Handle

LEMMA InvIsTrusted ==
  ASSUME SnapshotInv PROVE SnapshotIsTrusted
<1>1. TypeOK
  BY DEF SnapshotInv, Shapes, TypeOK, NodeOK
<1>2. QuietIsCurrent
  BY DEF SnapshotInv, NodeOK, Informed, QuietIsCurrent
<1>. QED
  BY <1>1, <1>2 DEF SnapshotInv, SnapshotIsTrusted

(* A manager at rest that missed nothing has the configuration as it is, and a    *)
(* delivery is dropped while due only on a snapshot whose first query ran before    *)
(* the task was queued or that left the endpoint out (manager.go:119-160,          *)
(* engine.go:438-453, 521-529).                                                    *)
THEOREM SnapshotIsTrustedAlways ==
  ASSUME SnapshotAssumption
  PROVE  Spec => []SnapshotIsTrusted
<1>1. Init => SnapshotInv
  BY SnapshotInit
<1>2. SnapshotInv /\ [Next]_vars => SnapshotInv'
  BY SnapshotNext
<1>3. SnapshotInv => SnapshotIsTrusted
  BY InvIsTrusted
<1>. QED
  BY <1>1, <1>2, <1>3, PTL DEF Spec

(* No process ever goes back to an older configuration, however its loads         *)
(* interleave with changes, notifications and failures (manager.go:79-98).         *)
THEOREM SnapshotsAlwaysAdvance ==
  ASSUME SnapshotAssumption
  PROVE  Spec => SnapshotsAdvance
<1>1. Init => SnapshotInv
  BY SnapshotInit
<1>2. SnapshotInv /\ [Next]_vars => SnapshotInv'
  BY SnapshotNext
<1>3. SnapshotInv /\ [Next]_vars => [NeverOlder]_vars
  BY SnapshotNext
<1>. QED
  BY <1>1, <1>2, <1>3, PTL DEF Spec, SnapshotsAdvance
=============================================================================
