--------------------------- MODULE ConfigSnapshot ---------------------------
(***************************************************************************)
(* The configuration snapshot each process delivers from                   *)
(* (internal/application/config, snapshot_repo.go, listener.go), the       *)
(* administrative writes it trails, and the decisions of the engine that   *)
(* rest on it: which endpoints a fan-out expands to, and when a task is    *)
(* dropped because its endpoint is gone.                                   *)
(*                                                                         *)
(* The state of one application and its endpoints.  clock counts the       *)
(* commits; a commit at time t is seen by a query at time t or later.      *)
(* Timestamps are compared on that one clock, so clock skew is left out.   *)
(***************************************************************************)
EXTENDS Naturals, FiniteSets

CONSTANTS Nodes,       \* processes, each with a config.Manager
          Endpoints,   \* endpoints of the application
          Messages,
          MaxClock,    \* bound on commits
          MaxFaults    \* bound on lost notifications, failed loads and skipped endpoints

SnapshotAssumption == MaxClock \in Nat /\ MaxFaults \in Nat

VARIABLES clock,
          app,          \* the application row: absent, live or deleted
          ep,           \* the endpoint rows
          since,        \* when the endpoint last became deliverable
          unannounced,  \* commits whose NOTIFY has not been sent yet
          mgr,          \* the snapshot manager of each process
          fan,          \* the fan-out task of each message
          dlv,          \* its deliver tasks
          lost,         \* history: deliveries dropped although they were due
          faults
vars == <<clock, app, ep, since, unannounced, mgr, fan, dlv, lost, faults>>
config == <<app, ep, since, unannounced>>
tasks == <<fan, dlv, lost>>

-----------------------------------------------------------------------------
EpState == {"absent", "on", "off", "deleted"}

(* from: when the first query ran (history); builtAt: the stamp; missing:
   endpoints left out because their secret did not open (history). *)
Snapshot == [app : BOOLEAN, ep : [Endpoints -> {"absent", "on", "off"}],
             from : 0 .. MaxClock, builtAt : 0 .. MaxClock, missing : SUBSET Endpoints]

(* reload: a token is in the channel; at: where Run is; missed: a change was
   not heard of, or a load failed, since the last load began (history). *)
Manager == [current : Snapshot, reading : Snapshot, reload : BOOLEAN,
            at : {"idle", "debounce", "load", "apps", "endpoints"}, missed : BOOLEAN]

Task == [st : {"none", "queued", "done"}, created : 0 .. MaxClock]
Loss == [msg : Messages, ep : Endpoints, snap : Snapshot, created : 0 .. MaxClock,
         at : {"empty", "partial", "gone", "disabled"}]
NoTask == [st |-> "none", created |-> 0]

TypeOK ==
    /\ clock \in 0 .. MaxClock
    /\ app \in {"absent", "live", "deleted"}
    /\ ep \in [Endpoints -> EpState] /\ since \in [Endpoints -> 0 .. MaxClock]
    /\ unannounced \in 0 .. MaxClock
    /\ mgr \in [Nodes -> Manager]
    /\ fan \in [Messages -> Task] /\ dlv \in [Messages -> [Endpoints -> Task]]
    /\ lost \subseteq Loss
    /\ faults \in 0 .. MaxFaults
    /\ \A n \in Nodes : mgr[n].current.from <= mgr[n].current.builtAt

Fail == faults < MaxFaults /\ faults' = faults + 1
Commit == clock < MaxClock /\ clock' = clock + 1

EmptySnapshot == [app |-> FALSE, ep |-> [e \in Endpoints |-> "absent"], from |-> 0,
                  builtAt |-> 0, missing |-> {}]

(* serve loads a first snapshot before anything runs. *)
Init ==
    /\ clock = 0 /\ app = "absent" /\ unannounced = 0 /\ faults = 0
    /\ ep = [e \in Endpoints |-> "absent"] /\ since = [e \in Endpoints |-> 0]
    /\ mgr = [n \in Nodes |-> [current |-> EmptySnapshot, reading |-> EmptySnapshot,
                               reload |-> FALSE, at |-> "idle", missed |-> FALSE]]
    /\ fan = [x \in Messages |-> NoTask]
    /\ dlv = [x \in Messages |-> [e \in Endpoints |-> NoTask]]
    /\ lost = {}

-----------------------------------------------------------------------------
(* Administration: each use case commits a row and then sends a NOTIFY.     *)

SetApp(from, to) ==
    /\ app = from /\ app' = to
    /\ Commit /\ unannounced' = unannounced + 1
    /\ UNCHANGED <<ep, since, mgr, tasks, faults>>

CreateApplication == SetApp("absent", "live")
DeleteApplication == SetApp("live", "deleted")

SetEndpoint(e, from, to) ==
    /\ app = "live" /\ ep[e] \in from
    /\ ep' = [ep EXCEPT ![e] = to]
    /\ Commit /\ unannounced' = unannounced + 1
    /\ since' = [since EXCEPT ![e] = clock']
    /\ UNCHANGED <<app, mgr, tasks, faults>>

CreateEndpoint(e) == SetEndpoint(e, {"absent"}, "on")
Disable(e) == SetEndpoint(e, {"on"}, "off")
Enable(e) == SetEndpoint(e, {"off"}, "on")
DeleteEndpoint(e) == SetEndpoint(e, {"on", "off"}, "deleted")

(* Manager.Invalidate: a token that is already there is enough. *)
Invalidated(m) == [m EXCEPT !.reload = TRUE]

(* pg_notify reaches the connected listeners; a failed NOTIFY is only logged,
   and a listener that is reconnecting hears nothing. *)
Announce ==
    /\ unannounced > 0 /\ unannounced' = unannounced - 1
    /\ \E deaf \in SUBSET Nodes :
          /\ mgr' = [n \in Nodes |-> IF n \in deaf THEN [mgr[n] EXCEPT !.missed = TRUE]
                                                   ELSE Invalidated(mgr[n])]
          /\ IF deaf = {} THEN UNCHANGED faults ELSE Fail
    /\ UNCHANGED <<clock, app, ep, since, tasks>>

-----------------------------------------------------------------------------
(* Manager.Run and Load.                                                    *)

SetMgr(n, m) ==
    /\ mgr' = [mgr EXCEPT ![n] = m]
    /\ UNCHANGED <<clock, config, tasks>>

TakeToken(n) ==
    /\ mgr[n].at = "idle" /\ mgr[n].reload
    /\ SetMgr(n, [mgr[n] EXCEPT !.at = "debounce", !.reload = FALSE])
    /\ UNCHANGED faults

(* After the debounce interval the channel is drained, then the load starts. *)
Drain(n) ==
    /\ mgr[n].at = "debounce"
    /\ SetMgr(n, [mgr[n] EXCEPT !.at = "load", !.reload = FALSE, !.missed = FALSE])
    /\ UNCHANGED faults

(* A mutant of Refresh: the ticker only helps a reload that was asked for. *)
RefreshOnDemand(n) ==
    /\ mgr[n].at = "idle" /\ mgr[n].reload
    /\ SetMgr(n, [mgr[n] EXCEPT !.at = "load", !.missed = FALSE])
    /\ UNCHANGED faults

Refresh(n) ==
    /\ mgr[n].at = "idle"
    /\ SetMgr(n, [mgr[n] EXCEPT !.at = "load", !.missed = FALSE])
    /\ UNCHANGED faults

(* What a query sees of an endpoint. *)
Visible(e) == IF ep[e] = "deleted" THEN "absent" ELSE ep[e]

(* LoadSnapshot: the tables are read by separate queries, not in a transaction. *)
ReadApplications(n) ==
    /\ mgr[n].at = "load"
    /\ SetMgr(n, [mgr[n] EXCEPT !.at = "apps", !.reading.from = clock,
                                !.reading.app = (app = "live")])
    /\ UNCHANGED faults

ReadEndpoints(n) ==
    /\ mgr[n].at = "apps"
    /\ SetMgr(n, [mgr[n] EXCEPT !.at = "endpoints",
                                !.reading.ep = [e \in Endpoints |-> Visible(e)]])
    /\ UNCHANGED faults

(* BuildSnapshot stamps builtAt now, after the queries, and leaves out an
   endpoint whose secret cannot be opened. *)
BuiltAtStamp(n) == clock

(* A mutant of Install: a token that arrived during the load is thrown away. *)
InstallDraining(n, reading, skip) ==
    [mgr[n] EXCEPT !.at = "idle", !.reload = FALSE,
        !.current = [reading EXCEPT !.builtAt = BuiltAtStamp(n), !.missing = skip,
                        !.ep = [e \in Endpoints |-> IF e \in skip THEN "absent" ELSE @[e]]],
        !.reading = EmptySnapshot]

Install(n, reading, skip) ==
    [mgr[n] EXCEPT !.at = "idle",
        !.current = [reading EXCEPT !.builtAt = BuiltAtStamp(n), !.missing = skip,
                        !.ep = [e \in Endpoints |-> IF e \in skip THEN "absent" ELSE @[e]]],
        !.reading = EmptySnapshot]

Build(n) ==
    /\ mgr[n].at = "endpoints"
    /\ \E skip \in SUBSET {e \in Endpoints : mgr[n].reading.ep[e] # "absent"} :
          /\ SetMgr(n, Install(n, mgr[n].reading, skip))
          /\ IF skip = {} THEN UNCHANGED faults ELSE Fail

(* A mutant of LoadFails: what was read so far is installed. *)
LoadFailsEmpty(n) ==
    /\ mgr[n].at \in {"load", "apps", "endpoints"}
    /\ Fail
    /\ SetMgr(n, [mgr[n] EXCEPT !.at = "idle", !.missed = TRUE, !.current = EmptySnapshot,
                                !.reading = EmptySnapshot])

(* reloadNow keeps the old snapshot when a query fails. *)
LoadFails(n) ==
    /\ mgr[n].at \in {"load", "apps", "endpoints"}
    /\ Fail
    /\ SetMgr(n, [mgr[n] EXCEPT !.at = "idle", !.missed = TRUE, !.reading = EmptySnapshot])

-----------------------------------------------------------------------------
(* Ingest and the engine.                                                   *)

(* appResolver: the snapshot, then the row, which also asks for a reload; a
   snapshot that is behind still resolves a deleted application. *)
Ingest(n, x) ==
    /\ fan[x].st = "none"
    /\ mgr[n].current.app \/ app = "live"
    /\ mgr' = IF mgr[n].current.app THEN mgr ELSE [mgr EXCEPT ![n] = Invalidated(@)]
    /\ Commit
    /\ fan' = [fan EXCEPT ![x] = [st |-> "queued", created |-> clock']]
    /\ UNCHANGED <<config, dlv, lost, faults>>

(* MatchingEndpoints: nothing for an application the snapshot does not have. *)
Matching(s) == {e \in Endpoints : s.app /\ s.ep[e] = "on"}

(* The endpoints that could receive x when its fan-out was queued, and still can. *)
Due(t) == {e \in Endpoints : app = "live" /\ ep[e] = "on" /\ since[e] < t.created}

Loses(x, S, s, t, why) == lost' = lost \cup
    {[msg |-> x, ep |-> e, snap |-> s, created |-> t.created, at |-> why] : e \in S}

(* A mutant: the age of the snapshot is not looked at. *)
TooOldNever(s, t) == FALSE

TooOld(s, t) == s.builtAt < t.created

FanoutDrop(n, x) ==
    LET s == mgr[n].current IN
    /\ fan[x].st = "queued"
    /\ Matching(s) = {} /\ ~TooOld(s, fan[x])
    /\ fan' = [fan EXCEPT ![x].st = "done"]
    /\ Loses(x, Due(fan[x]), s, fan[x], "empty")
    /\ UNCHANGED <<clock, config, mgr, dlv, faults>>

FanoutExpand(n, x) ==
    LET s == mgr[n].current IN
    /\ fan[x].st = "queued"
    /\ Matching(s) # {}
    /\ Commit
    /\ fan' = [fan EXCEPT ![x].st = "done"]
    /\ dlv' = [dlv EXCEPT ![x] = [e \in Endpoints |->
                  IF e \in Matching(s) THEN [st |-> "queued", created |-> clock'] ELSE NoTask]]
    /\ Loses(x, Due(fan[x]) \ Matching(s), s, fan[x], "partial")
    /\ UNCHANGED <<config, mgr, faults>>

(* handleDeliver up to the lane: an endpoint the snapshot does not have is
   waited for if the snapshot is too old; a disabled one is final. *)
Deliver(n, x, e) ==
    LET s == mgr[n].current
        t == dlv[x][e] IN
    /\ t.st = "queued"
    /\ dlv' = [dlv EXCEPT ![x][e].st = "done"]
    /\ \/ s.ep[e] = "on" /\ UNCHANGED lost
       \/ /\ s.ep[e] = "absent" /\ ~TooOld(s, t)
          /\ Loses(x, {e} \cap Due(t), s, t, "gone")
       \/ /\ s.ep[e] = "off"
          /\ Loses(x, {e} \cap Due(t), s, t, "disabled")
    /\ UNCHANGED <<clock, config, mgr, fan, faults>>

-----------------------------------------------------------------------------
Admin ==
    \/ CreateApplication \/ DeleteApplication
    \/ \E e \in Endpoints : CreateEndpoint(e) \/ Disable(e) \/ Enable(e) \/ DeleteEndpoint(e)

Load(n) == TakeToken(n) \/ Drain(n) \/ ReadApplications(n) \/ ReadEndpoints(n) \/ Build(n)

Handle(n) == \E x \in Messages :
    FanoutDrop(n, x) \/ FanoutExpand(n, x) \/ \E e \in Endpoints : Deliver(n, x, e)

Next ==
    \/ Admin \/ Announce
    \/ \E n \in Nodes : Load(n) \/ Refresh(n) \/ LoadFails(n) \/ Handle(n)
                        \/ \E x \in Messages : Ingest(n, x)

Spec == Init /\ [][Next]_vars

(* Announcements go out, the manager's loop runs and its refresh ticker fires. *)
FairSpec ==
    /\ Spec /\ WF_vars(Announce)
    /\ \A n \in Nodes : WF_vars(Load(n)) /\ WF_vars(Refresh(n)) /\ WF_vars(Handle(n))

-----------------------------------------------------------------------------
(* Properties.                                                              *)

Current(s) == /\ s.app <=> app = "live"
              /\ \A e \in Endpoints \ s.missing :
                    s.ep[e] = Visible(e)

(* No wake-up is lost between NOTIFY and snapshot: a manager that rests, with
   every change announced and none missed, has the configuration as it is.
   Run drains the channel before the load, never after (manager.go:145-157). *)
QuietIsCurrent ==
    unannounced = 0 => \A n \in Nodes :
        mgr[n].at = "idle" /\ ~mgr[n].reload /\ ~mgr[n].missed => Current(mgr[n].current)

(* A process never goes back to an older configuration (manager.go:79-98). *)
NeverOlder == \A n \in Nodes : mgr'[n].current.from >= mgr[n].current.from
SnapshotsAdvance == [][NeverOlder]_vars

(* Every delivery that is dropped while due was dropped on a snapshot whose
   first query ran before the task was queued, or that left the endpoint
   out for its secret: a fresh snapshot loses nothing.  And a snapshot that is
   stamped older than the task is never a reason to drop a fan-out or a task
   whose endpoint is unknown (engine.go:438-453, 521-529). *)
FreshLosesNothing ==
    \A l \in lost : /\ l.snap.from < l.created \/ l.ep \in l.snap.missing
                    /\ l.at \in {"empty", "gone"} => l.snap.builtAt >= l.created

(* What the engine may rely on when it decides from its snapshot. *)
SnapshotIsTrusted == TypeOK /\ QuietIsCurrent /\ FreshLosesNothing

(* Whatever notifications and loads fail, each process eventually has the
   configuration as it is: the refresh interval makes up for a lost NOTIFY
   (manager.go:119-160). *)
ChangesArrive == \A n \in Nodes : []<>Current(mgr[n].current)

(* engine.go:438-440 on a fan-out that matches nothing: "any endpoint that
   existed when the fan-out was queued is then in it". *)
EmptyMatchIsSafe == \A l \in lost : l.at # "empty"

(* engine.go:530-532 on a task whose endpoint is disabled: "there is nothing to
   deliver to, and a retry would not change that". *)
DisabledIsFinal == \A l \in lost : l.at # "disabled"

(* README.md:161-164: the design "removes the 'accepted but never delivered'
   class of bug entirely"; here, no endpoint that was and is subscribed is left
   out of an expansion. *)
NoneLeftOut == \A l \in lost : l.at # "partial"
=============================================================================
