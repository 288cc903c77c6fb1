--------------------------- MODULE EndpointHealth ---------------------------
(***************************************************************************)
(* The health of one endpoint: the failure run, auto-disable and quarantine *)
(* of Engine.applyHealthTransitions, the part of the lane that remembers    *)
(* what a worker has already written (lane.go), the operational events      *)
(* about attempts, and the owner's switch (endpoint_usecase.go).            *)
(*                                                                         *)
(* The same facts live in the endpoint row, in each worker's snapshot and   *)
(* in each worker's lane.  A moment in the past is represented by its age,  *)
(* which Tick increases up to MaxAge; None is a nil timestamp.              *)
(***************************************************************************)
EXTENDS Integers

CONSTANTS Workers, Handlers,
          DisableAfter, MaxAge,   \* in ticks; ages beyond MaxAge are not told apart
          Quarantines, Notifies,  \* QuarantineAfter > 0; operational events are configured
          MaxFaults,              \* failed writes and events
          MaxSwitches             \* how often the owner turns the endpoint off or on

HealthAssumption == DisableAfter \in 1 .. MaxAge /\ MaxAge \in Nat
                           /\ MaxFaults \in Nat /\ MaxSwitches \in Nat
                           /\ Quarantines \in BOOLEAN /\ Notifies \in BOOLEAN

VARIABLES row,       \* the endpoint row
          snap,      \* each worker's snapshot of it
          lane,      \* each worker's lane
          hs,        \* delivery goroutines
          owner,     \* the owner's request: idle, or between its two statements
          seen,      \* history: ages of the last success, failure and re-enable, and of the first failure
          verdicts,  \* history: what was wrong when the engine disabled the endpoint
          warned,    \* history: a failing event went out and nothing since
          surprised, \* history: a recovery went out with no warning before it
          faults, switches
vars == <<row, snap, lane, hs, owner, seen, verdicts, warned, surprised, faults, switches>>

None == -1
Age == 0 .. MaxAge

Older(a) == IF a \in 0 .. MaxAge - 1 THEN a + 1 ELSE a

Row == [first : Age \cup {None}, off : BOOLEAN, quarantined : BOOLEAN]
Lane == [start : Age \cup {None}, disabled : BOOLEAN, quarantined : BOOLEAN, notice : BOOLEAN]
NewLane == [start |-> None, disabled |-> FALSE, quarantined |-> FALSE, notice |-> FALSE]

(* clearing, beginning, disabling, quarantining: the write that comes next;
   record: before emitAttemptEvents; failing, recovered, exhausted: the event
   to emit.  now: the age of the moment the outcome was looked at. *)
Phase == {"idle", "sent", "clearing", "beginning", "disabling", "quarantining", "record",
          "failing", "recovered", "exhausted"}
Goroutine == [pc : Phase, w : Workers, ep : Row, ok : BOOLEAN, now : Age,
              start : Age \cup {None}]

TypeOK ==
    /\ row \in Row /\ snap \in [Workers -> Row] /\ lane \in [Workers -> Lane]
    /\ hs \in [Handlers -> Goroutine]
    /\ owner \in {"idle", "enabling"}
    /\ seen \in [ok : Age, bad : Age, enabled : Age, oldest : Age \cup {None}]
    /\ verdicts \subseteq {"blip", "broken", "reopened"}
    /\ warned \in [Workers -> BOOLEAN] /\ surprised \in BOOLEAN
    /\ faults \in 0 .. MaxFaults /\ switches \in 0 .. MaxSwitches

Fail == faults < MaxFaults /\ faults' = faults + 1

Healthy == [first |-> None, off |-> FALSE, quarantined |-> FALSE]

Idle == [pc |-> "idle", w |-> CHOOSE w \in Workers : TRUE, ep |-> Healthy, ok |-> FALSE,
         now |-> 0, start |-> None]

Init ==
    /\ row = Healthy /\ snap = [w \in Workers |-> Healthy]
    /\ lane = [w \in Workers |-> NewLane]
    /\ hs = [h \in Handlers |-> Idle]
    /\ owner = "idle" /\ seen = [ok |-> MaxAge, bad |-> MaxAge, enabled |-> MaxAge, oldest |-> None]
    /\ verdicts = {} /\ warned = [w \in Workers |-> FALSE] /\ surprised = FALSE
    /\ faults = 0 /\ switches = 0

Step(h, g) == hs' = [hs EXCEPT ![h] = g]
(* What the rest of the handler still reads, once the health is settled. *)
ToRecord(g) == [g EXCEPT !.pc = "record", !.ep = Healthy, !.now = 0, !.start = None]
history == <<verdicts, warned, surprised>>
env == <<owner, switches>>

-----------------------------------------------------------------------------
(* A delivery.                                                              *)

(* handleDeliver keeps the endpoint it took from the snapshot until it ends. *)
Begin(h, w) ==
    /\ hs[h].pc = "idle" /\ ~snap[w].off
    /\ Step(h, [hs[h] EXCEPT !.pc = "sent", !.w = w, !.ep = snap[w]])
    /\ UNCHANGED <<row, snap, lane, seen, history, env, faults>>

(* A mutant: only what this lane itself remembers is cleared. *)
ClearsOwnRun(L, ep) == L.start # None \/ L.disabled \/ L.quarantined

(* A success ends the run.  The row is written if this lane had something to
   clear, or if the snapshot the delivery started with says the row has. *)
ClearsRun(L, ep) == L.start # None \/ L.disabled \/ L.quarantined \/ ep.first # None

Succeed(h) ==
    LET w == hs[h].w IN
    /\ hs[h].pc = "sent"
    /\ lane' = [lane EXCEPT ![w] = [NewLane EXCEPT !.notice = lane[w].notice]]
    /\ seen' = [seen EXCEPT !.ok = 0]
    /\ Step(h, [hs[h] EXCEPT !.ok = TRUE,
                   !.ep = Healthy, !.pc = IF ClearsRun(lane[w], hs[h].ep) THEN "clearing" ELSE "record"])
    /\ UNCHANGED <<row, snap, history, env, faults>>

(* A mutant: the run always starts now. *)
RunStartNow(L, ep) == None

(* Lane.FailureRunStart: the lane's own, else the snapshot's. *)
RunStart(L, ep) == IF L.start # None THEN L.start ELSE ep.first

(* A mutant: one tick too early. *)
OverdueEarly(start, ep) == start >= DisableAfter - 1 /\ ~ep.off

Overdue(start, ep) == start >= DisableAfter /\ ~ep.off

(* MarkDisabled comes before the write and lets through one caller only. *)
Marked(L) == [L EXCEPT !.disabled = TRUE]

(* After the start of the run is known: disable, quarantine, or neither.  The
   breaker decides openLong. *)
Judge(h, L, start, openLong) ==
    LET w == hs[h].w
        g == [hs[h] EXCEPT !.ok = FALSE, !.start = start]
        S == [L EXCEPT !.start = start]
    IN CASE Overdue(start, g.ep) ->
              /\ lane' = [lane EXCEPT ![w] = Marked(S)]
              /\ Step(h, IF L.disabled THEN ToRecord(g) ELSE [g EXCEPT !.pc = "disabling"])
         [] ~Overdue(start, g.ep) /\ openLong /\ ~g.ep.quarantined ->
              /\ lane' = [lane EXCEPT ![w] = [S EXCEPT !.quarantined = TRUE]]
              /\ Step(h, IF L.quarantined THEN ToRecord(g)
                         ELSE [ToRecord(g) EXCEPT !.pc = "quarantining"])
         [] OTHER ->
              /\ lane' = [lane EXCEPT ![w] = S]
              /\ Step(h, ToRecord(g))

SeeFailure == seen' = [seen EXCEPT !.bad = 0, !.oldest = IF @ = None THEN 0 ELSE @]

(* A failure in a run that is known; the first one writes the start first. *)
FailAgain(h, openLong) ==
    LET w == hs[h].w IN
    /\ hs[h].pc = "sent" /\ RunStart(lane[w], hs[h].ep) # None
    /\ SeeFailure
    /\ Judge(h, lane[w], RunStart(lane[w], hs[h].ep), openLong)
    /\ UNCHANGED <<row, snap, history, env, faults>>

FailFirst(h) ==
    LET w == hs[h].w IN
    /\ hs[h].pc = "sent" /\ RunStart(lane[w], hs[h].ep) = None
    /\ SeeFailure
    /\ lane' = [lane EXCEPT ![w].start = 0]
    /\ Step(h, [hs[h] EXCEPT !.pc = "beginning", !.ok = FALSE, !.start = 0])
    /\ UNCHANGED <<row, snap, history, env, faults>>

(* The writes of the endpoint row; each may fail, which is only logged. *)
WriteClear(h) ==
    /\ hs[h].pc = "clearing"
    /\ Step(h, ToRecord(hs[h]))
    /\ \/ row' = [row EXCEPT !.first = None] /\ UNCHANGED faults
       \/ Fail /\ UNCHANGED row
    /\ UNCHANGED <<snap, lane, seen, history, env>>

(* The row gets the moment the failure was seen, which may be a while ago. *)
WriteBegin(h, openLong) ==
    /\ hs[h].pc = "beginning"
    /\ \/ row' = [row EXCEPT !.first = hs[h].now] /\ UNCHANGED faults
       \/ Fail /\ UNCHANGED row
    /\ IF openLong /\ ~hs[h].ep.quarantined
       THEN /\ lane' = [lane EXCEPT ![hs[h].w].quarantined = TRUE]
            /\ Step(h, IF lane[hs[h].w].quarantined THEN ToRecord(hs[h])
                       ELSE [ToRecord(hs[h]) EXCEPT !.pc = "quarantining"])
       ELSE Step(h, ToRecord(hs[h])) /\ UNCHANGED lane
    /\ UNCHANGED <<snap, seen, history, env>>

(* What a switch-off for a run that began at start contradicts. *)
Wrong(start) ==
    {v \in {"blip", "broken", "reopened"} :
        CASE v = "blip" -> start < DisableAfter \/ start > seen.oldest
          [] v = "broken" -> seen.ok < start
          [] v = "reopened" -> seen.enabled < DisableAfter}

(* SetDisabled and, once it is written, the operational event. *)
WriteDisabled(h) ==
    /\ hs[h].pc = "disabling"
    /\ Step(h, ToRecord(hs[h]))
    /\ \/ /\ row' = [row EXCEPT !.off = TRUE]
          /\ verdicts' = verdicts \cup Wrong(hs[h].start)
          /\ UNCHANGED faults
       \/ Fail /\ UNCHANGED <<row, verdicts>>
    /\ UNCHANGED <<snap, lane, seen, warned, surprised, env>>

WritePool(h) ==
    /\ hs[h].pc = "quarantining"
    /\ Step(h, ToRecord(hs[h]))
    /\ \/ row' = [row EXCEPT !.quarantined = TRUE] /\ UNCHANGED faults
       \/ Fail /\ UNCHANGED row
    /\ UNCHANGED <<snap, lane, seen, history, env>>

-----------------------------------------------------------------------------
(* emitAttemptEvents: the lane remembers whether a warning is out, and the   *)
(* event itself is ingested afterwards.                                     *)

Record(h) ==
    LET w == hs[h].w
        done == Idle
        emit(kind) == [hs[h] EXCEPT !.pc = kind] IN
    /\ hs[h].pc = "record"
    /\ \/ /\ hs[h].ok
          /\ lane' = [lane EXCEPT ![w].notice = FALSE]
          /\ Step(h, IF lane[w].notice THEN emit("recovered") ELSE done)
       \/ /\ ~hs[h].ok /\ Notifies     \* the schedule is used up
          /\ lane' = [lane EXCEPT ![w].notice = FALSE]
          /\ Step(h, emit("exhausted"))
       \/ /\ ~hs[h].ok /\ Notifies     \* the attempt that warns
          /\ lane' = [lane EXCEPT ![w].notice = TRUE]
          /\ Step(h, IF lane[w].notice THEN done ELSE emit("failing"))
       \/ ~hs[h].ok /\ Step(h, done) /\ UNCHANGED lane
    /\ UNCHANGED <<row, snap, seen, history, env, faults>>

Emit(h) ==
    LET w == hs[h].w IN
    /\ hs[h].pc \in {"failing", "recovered", "exhausted"}
    /\ Step(h, Idle)
    /\ \/ /\ warned' = [warned EXCEPT ![w] = (hs[h].pc = "failing")]
          /\ surprised' = (surprised \/ (hs[h].pc = "recovered" /\ ~warned[w]))
          /\ UNCHANGED faults
       \/ Fail /\ UNCHANGED <<warned, surprised>>
    /\ UNCHANGED <<row, snap, lane, seen, verdicts, env>>

-----------------------------------------------------------------------------
(* The owner, the snapshot, eviction and time.                              *)

Switch == switches < MaxSwitches /\ switches' = switches + 1

Disable ==
    /\ owner = "idle" /\ ~row.off /\ Switch
    /\ row' = [row EXCEPT !.off = TRUE]
    /\ UNCHANGED <<snap, lane, hs, owner, seen, history, faults>>

(* setDisabled(false): two statements; when the second fails the first stays. *)
Enable ==
    /\ owner = "idle" /\ row.off /\ Switch
    /\ row' = [row EXCEPT !.off = FALSE]
    /\ owner' = "enabling"
    /\ seen' = [seen EXCEPT !.enabled = 0]
    /\ UNCHANGED <<snap, lane, hs, history, faults>>

StartOver ==
    /\ owner = "enabling" /\ owner' = "idle"
    /\ \/ row' = [row EXCEPT !.first = None] /\ UNCHANGED faults
       \/ Fail /\ UNCHANGED row
    /\ UNCHANGED <<snap, lane, hs, seen, history, switches>>

Refresh(w) ==
    /\ snap[w] # row
    /\ snap' = [snap EXCEPT ![w] = row]
    /\ UNCHANGED <<row, lane, hs, seen, history, env, faults>>

(* EvictIdle: the lane and what it remembers are gone. *)
Evict(w) ==
    /\ lane[w] # NewLane /\ \A h \in Handlers : hs[h].pc = "idle" \/ hs[h].w # w
    /\ lane' = [lane EXCEPT ![w] = NewLane]
    /\ UNCHANGED <<row, snap, hs, seen, history, env, faults>>

Aged(r) == [r EXCEPT !.first = Older(@)]

Tick ==
    /\ row' = Aged(row)
    /\ snap' = [w \in Workers |-> Aged(snap[w])]
    /\ lane' = [w \in Workers |-> [lane[w] EXCEPT !.start = Older(@)]]
    /\ hs' = [h \in Handlers |-> [hs[h] EXCEPT !.ep = Aged(@), !.start = Older(@),
                 !.now = IF hs[h].pc = "beginning" THEN Older(@) ELSE @]]
    /\ seen' = [f \in DOMAIN seen |-> Older(seen[f])]
    /\ UNCHANGED <<history, env, faults>>

-----------------------------------------------------------------------------
Finish(h) == \/ WriteClear(h) \/ WriteDisabled(h) \/ WritePool(h) \/ Record(h) \/ Emit(h)
             \/ \E b \in {FALSE, Quarantines} : WriteBegin(h, b)
Respond(h) == Succeed(h) \/ FailFirst(h) \/ \E b \in {FALSE, Quarantines} : FailAgain(h, b)

Next ==
    \/ \E h \in Handlers : Respond(h) \/ Finish(h) \/ \E w \in Workers : Begin(h, w)
    \/ \E w \in Workers : Refresh(w) \/ Evict(w)
    \/ Disable \/ Enable \/ StartOver \/ Tick

Spec == Init /\ [][Next]_vars

(* Deliveries keep coming and end, snapshots are refreshed and time passes.
   Eviction needs minutes without a delivery, so it is not forced. *)
FairSpec ==
    /\ Spec /\ WF_vars(Tick) /\ WF_vars(StartOver)
    /\ \A h \in Handlers : /\ WF_vars(\E w \in Workers : Begin(h, w))
                           /\ WF_vars(Respond(h)) /\ WF_vars(Finish(h))
    /\ \A w \in Workers : WF_vars(Refresh(w))

-----------------------------------------------------------------------------
(* Properties.                                                              *)

(* A single failure never switches the endpoint off: whatever stale start a
   worker adopted, the first failure ever lies at least DisableAfter before a
   switch-off by the engine (engine.go:673-701, lane.go:278-293). *)
BlipNeverDisables == "blip" \notin verdicts

(* An endpoint that only succeeds again loses its failure mark for good,
   whichever worker saw which delivery and whatever write failed: the next
   success looks at the row's mark too (engine.go:660-671). *)
RecoveryClears ==
    (<>[](seen.bad = MaxAge) /\ <>[](~row.off)) => <>[](row.first = None)

(* An endpoint that only fails is switched off in the end, whoever sees the
   failures, whatever write failed and however the owner switches it, unless
   from some moment on every delivery belongs to a worker whose lane is marked
   already: it has switched the endpoint off before, or failed to write it, and
   MarkDisabled lets nobody try again (engine.go:673-701, lane.go:320-331). *)
AllMarked == \A h \in Handlers : hs[h].pc # "idle" => lane[hs[h].w].disabled
DeadIsDisabledUnlessMarked == <>[](seen.ok = MaxAge) => ([]<>(row.off) \/ <>[]AllMarked)

(* engine.go:63-64: "DisableAfter is how long an endpoint must fail
   continuously before it is switched off".  An endpoint that only fails is
   switched off in the end; one failed write or one re-enable refutes it. *)
DeadIsDisabled == <>[](seen.ok = MaxAge) => []<>(row.off)

(* The same comment, engine.go:63-64: the endpoint failed continuously, so no
   delivery succeeded after the start of the run it is switched off for. *)
DisabledAfterUnbrokenRun == "broken" \notin verdicts

(* endpoint_usecase.go:288: "Re-enabling starts the failure window over". *)
ReenableStartsOver == "reopened" \notin verdicts

(* engine.go:751: "Send recovery only if a failing notice was previously sent". *)
RecoveryWasAnnounced == ~surprised
=============================================================================
