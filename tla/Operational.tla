----------------------------- MODULE Operational ------------------------------
(* Operational events and the reserved application they are sent through       *)
(* (operational_usecase.go, application_usecase.go, application_repo.go,       *)
(* app_resolver.go), for one tenant.                                           *)
(*                                                                             *)
(* Each process looks the reserved application up by its uid, creates it when  *)
(* it is missing, remembers its id and ingests events into it.  The tenant     *)
(* changes applications through the API at the same time.                      *)
EXTENDS Integers, FiniteSets

CONSTANTS
  Nodes,       \* processes
  Emitters,    \* goroutines that emit an event
  NodeOf,      \* the process each emitter belongs to
  Apps,        \* application ids
  MaxChanges,  \* bound on what the tenant does
  MaxEvents,   \* bound on events
  MaxFaults    \* bound on failed statements and restarts

OperationalAssumption ==
  /\ NodeOf \in [Emitters -> Nodes]
  /\ {MaxChanges, MaxEvents, MaxFaults} \subseteq Nat

VARIABLES
  app,      \* per id: not used yet, live or deleted, and whether it has the reserved uid
  snap,     \* per process: the application ids in its snapshot
  appIDs,   \* per process: the cached id, or {}
  em,       \* per emitter: where its Emit is
  changes, events, faults,
  landed,   \* history: applications that got an event
  stray     \* history: how the id was found ("cached", "looked") for events begun after the
            \* tenant's last change that did not reach the reserved application

vars == <<app, snap, appIDs, em, changes, events, faults, landed, stray>>

Live == {a \in Apps : app[a].state = "live"}
\* GetApplication by uid; the unique index leaves at most one.
Reserved == {a \in Live : app[a].reserved}

(* One type invariant. *)
TypeOK ==
  /\ app \in [Apps -> [state: {"unused", "live", "deleted"}, reserved: BOOLEAN]]
  /\ snap \in [Nodes -> SUBSET Apps]
  /\ appIDs \in [Nodes -> SUBSET Apps] /\ \A n \in Nodes : Cardinality(appIDs[n]) <= 1
  /\ em \in [Emitters -> [at: {"idle", "get", "create", "again", "ingest"}, app: SUBSET Apps, how: {"cached", "looked"}, since: 0..MaxChanges]]
  /\ changes \in 0..MaxChanges /\ events \in 0..MaxEvents /\ faults \in 0..MaxFaults
  /\ landed \subseteq Apps /\ stray \subseteq {"cached", "looked"}

Init ==
  /\ app = [a \in Apps |-> [state |-> "unused", reserved |-> FALSE]]
  /\ snap = [n \in Nodes |-> {}] /\ appIDs = [n \in Nodes |-> {}]
  /\ em = [e \in Emitters |-> [at |-> "idle", app |-> {}, how |-> "looked", since |-> 0]]
  /\ changes = 0 /\ events = 0 /\ faults = 0
  /\ landed = {} /\ stray = {}

-------------------------------------------------------------------------------
(* The application repository. *)

\* INSERT: a fresh id; the partial unique index refuses a second live uid.
Insert(a, reserved) ==
  /\ app[a].state = "unused" /\ (reserved => Reserved = {})
  /\ app' = [app EXCEPT ![a] = [state |-> "live", reserved |-> reserved]]

\* The tenant's requests.  Only the uid matters here: an update that writes back a
\* uid it read earlier is a rename like any other.
CreateApplication(a, reserved) == Insert(a, reserved)
UpdateApplication(a, reserved) ==
  /\ a \in Live /\ app[a].reserved # reserved /\ (reserved => Reserved = {})
  /\ app' = [app EXCEPT ![a].reserved = reserved]
DeleteApplication(a) ==
  /\ a \in Live
  /\ app' = [app EXCEPT ![a].state = "deleted"]
Tenant ==
  /\ changes < MaxChanges /\ changes' = changes + 1
  /\ \E a \in Apps : \/ \E r \in BOOLEAN : CreateApplication(a, r) \/ UpdateApplication(a, r)
                     \/ DeleteApplication(a)
  /\ UNCHANGED <<snap, appIDs, em, events, faults, landed, stray>>

-------------------------------------------------------------------------------
(* Emit. *)

Goto(e, at, a) == em' = [em EXCEPT ![e].at = at, ![e].app = a]

\* The end of an Emit that returns an error to its caller, which logs it.
Dropped(e) ==
  /\ Goto(e, "idle", {})
  /\ stray' = stray \cup (IF em[e].since = changes THEN {em[e].how} ELSE {})
  /\ UNCHANGED landed

\* The cached id, or a lookup.
Emit(e) ==
  LET n == NodeOf[e] IN
  /\ em[e].at = "idle" /\ events < MaxEvents /\ events' = events + 1
  /\ em' = [em EXCEPT ![e] = IF appIDs[n] = {}
                               THEN [at |-> "get", app |-> {}, how |-> "looked", since |-> changes]
                               ELSE [at |-> "ingest", app |-> appIDs[n], how |-> "cached", since |-> changes]]
  /\ UNCHANGED <<app, snap, appIDs, changes, faults, landed, stray>>

\* The id is known: cache it and go on to ingest.
Keep(e, a) ==
  /\ Goto(e, "ingest", a) /\ appIDs' = [appIDs EXCEPT ![NodeOf[e]] = a]
  /\ UNCHANGED <<landed, stray>>

GetReserved(e) ==
  /\ em[e].at = "get"
  /\ IF Reserved # {} THEN Keep(e, Reserved)
     ELSE Goto(e, "create", {}) /\ UNCHANGED <<appIDs, landed, stray>>
  /\ UNCHANGED <<app, snap, changes, events, faults>>

\* CreateApplication; on a conflict another process was first.
CreateReserved(e) ==
  /\ em[e].at = "create"
  /\ \/ \E a \in Apps : Insert(a, TRUE) /\ Keep(e, {a})
     \/ /\ Reserved # {} /\ Goto(e, "again", {})
        /\ UNCHANGED <<app, appIDs, landed, stray>>
  /\ UNCHANGED <<snap, changes, events, faults>>

GetAgainFails(e) ==
  /\ em[e].at = "again" /\ Dropped(e)
  /\ UNCHANGED <<app, snap, appIDs, changes, events, faults>>
GetAgain(e) ==
  /\ em[e].at = "again"
  /\ IF Reserved # {} THEN Keep(e, Reserved) ELSE Dropped(e) /\ UNCHANGED appIDs
  /\ UNCHANGED <<app, snap, changes, events, faults>>

\* appResolver.resolve: the snapshot first, then the table.
ResolveSnapshotOnly(n, a) == a \cap snap[n]
Resolve(n, a) == a \cap (snap[n] \cup Live)

\* Ingest into the application, or not found.
Ingest(e) ==
  LET a == Resolve(NodeOf[e], em[e].app) IN
  /\ em[e].at = "ingest"
  /\ IF a = {} THEN Dropped(e)
     ELSE /\ landed' = landed \cup a
          /\ stray' = stray \cup (IF em[e].since = changes /\ a # Reserved THEN {em[e].how} ELSE {})
          /\ Goto(e, "idle", {})
  /\ UNCHANGED <<app, snap, appIDs, changes, events, faults>>

\* A statement fails and Emit returns its error.
Fault(e) ==
  /\ faults < MaxFaults /\ faults' = faults + 1
  /\ em[e].at # "idle" /\ Goto(e, "idle", {})
  /\ UNCHANGED <<app, snap, appIDs, changes, events, landed, stray>>

-------------------------------------------------------------------------------
\* The process reloads its snapshot.
Reload(n) ==
  /\ snap[n] # Live
  /\ snap' = [snap EXCEPT ![n] = Live]
  /\ UNCHANGED <<app, appIDs, em, changes, events, faults, landed, stray>>

\* The process restarts with an empty cache.
Restart(n) ==
  /\ faults < MaxFaults /\ faults' = faults + 1
  /\ appIDs' = [appIDs EXCEPT ![n] = {}] /\ snap' = [snap EXCEPT ![n] = Live]
  /\ em' = [e \in Emitters |-> IF NodeOf[e] = n THEN [at |-> "idle", app |-> {}, how |-> "looked", since |-> 0] ELSE em[e]]
  /\ UNCHANGED <<app, changes, events, landed, stray>>

Next ==
  \/ Tenant
  \/ \E e \in Emitters : \/ Emit(e) \/ GetReserved(e) \/ CreateReserved(e)
                         \/ GetAgain(e) \/ Ingest(e) \/ Fault(e)
  \/ \E n \in Nodes : Reload(n) \/ Restart(n)

Spec == Init /\ [][Next]_vars

-------------------------------------------------------------------------------
(* Properties. *)

(* Processes that emit their first events at the same moment agree: as long as *)
(* the tenant has changed nothing, every event of every process lands in one   *)
(* application and none is refused, whoever created it and however far each    *)
(* snapshot lags (reservedApp's conflict path, appResolver's fallback).        *)
EmittersAgree ==
  changes = 0 => stray = {} /\ Cardinality(landed \cup UNION {appIDs[n] : n \in Nodes}) <= 1

(* A lookup is right whatever the tenant and the other processes do meanwhile: *)
(* an event whose process had no cached id, begun after the tenant's last      *)
(* change, reaches the reserved application, which it may have had to create   *)
(* and which its snapshot need not know yet.                                   *)
LookedUpEventsArrive == "looked" \notin stray

(* The reserved application is the one every operational event is delivered    *)
(* through: an event begun after the tenant's last change reaches it.          *)
EventsReachReserved == stray = {}
===============================================================================
