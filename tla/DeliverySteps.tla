--------------------------- MODULE DeliverySteps ----------------------------
(***************************************************************************)
(* What each statement and each step of Delivery does to a row and to the   *)
(* claims in memory, for every value of the constants: type correctness,    *)
(* that nothing is ever taken back, which rows a step can insert, delete or *)
(* lock, and which claims it can change.                                    *)
(***************************************************************************)
EXTENDS Delivery, TLAPS

-----------------------------------------------------------------------------
(* Rows and claims *)

LEMMA NewRowType ==
  /\ NoRow \in Row
  /\ \A k \in Kind, t \in Trigger, m \in Msgs, e \in Endpoints \cup {None} :
       NewRow(k, t, m, e) \in Row
BY Zenon DEF Row, NoRow, NewRow, RowState, Kind, Trigger

LEMMA UnlockedRow ==
  ASSUME NEW r \in Row
  PROVE  /\ Unlocked(r) \in Row /\ SameTask(r, Unlocked(r))
         /\ Unlocked(r).st = r.st /\ Unlocked(r).attempt = r.attempt
         /\ Unlocked(r).visible = r.visible
         /\ Unlocked(r).lockedBy = None /\ Unlocked(r).expired = FALSE
BY Zenon DEF Row, Unlocked, SameTask

LEMMA PostponedRow ==
  ASSUME NEW r \in Row
  PROVE  /\ Postponed(r) \in Row /\ SameTask(r, Postponed(r))
         /\ Postponed(r).st = r.st /\ Postponed(r).attempt = r.attempt
         /\ Postponed(r).lockedBy = None /\ Postponed(r).expired = FALSE
<1>1. PICK u : u = Unlocked(r)
  OBVIOUS
<1>2. /\ u \in Row /\ SameTask(r, u) /\ u.st = r.st /\ u.attempt = r.attempt
      /\ u.lockedBy = None /\ u.expired = FALSE
  BY Zenon, <1>1, UnlockedRow
<1>3. Postponed(r) = [u EXCEPT !.visible = FALSE]
  BY Zenon, <1>1 DEF Postponed
<1>. QED
  BY Zenon, <1>2, <1>3 DEF Row, SameTask

LEMMA RetriedRow ==
  ASSUME NEW r \in Row
  PROVE  /\ Retried(r) \in Row /\ SameTask(r, Retried(r))
         /\ Retried(r).st = r.st /\ Retried(r).attempt = r.attempt + 1
         /\ Retried(r).lockedBy = None /\ Retried(r).expired = FALSE
<1>1. PICK u : u = Postponed(r)
  OBVIOUS
<1>2. /\ u \in Row /\ SameTask(r, u) /\ u.st = r.st /\ u.attempt = r.attempt
      /\ u.lockedBy = None /\ u.expired = FALSE
  BY Zenon, <1>1, PostponedRow
<1>3. PICK n \in Nat : n = u.attempt + 1
  BY <1>2 DEF Row
<1>4. Retried(r) = [u EXCEPT !.attempt = n]
  BY Zenon, <1>1, <1>3 DEF Retried
<1>. QED
  BY Zenon, <1>2, <1>3, <1>4 DEF Row, SameTask

LEMMA DeletedRow ==
  ASSUME NEW r \in Row
  PROVE  /\ Deleted(r) \in Row /\ SameTask(r, Deleted(r))
         /\ Deleted(r).st = "gone" /\ Deleted(r).attempt = r.attempt
         /\ Deleted(r).lockedBy = None /\ Deleted(r).expired = FALSE
<1>1. PICK u : u = Unlocked(r)
  OBVIOUS
<1>2. /\ u \in Row /\ SameTask(r, u) /\ u.st = r.st /\ u.attempt = r.attempt
      /\ u.lockedBy = None /\ u.expired = FALSE
  BY Zenon, <1>1, UnlockedRow
<1>3. Deleted(r) = [u EXCEPT !.st = "gone"]
  BY Zenon, <1>1 DEF Deleted
<1>. QED
  BY Zenon, <1>2, <1>3 DEF Row, SameTask, RowState

Completes(S) ==
  /\ row' \in [TaskIds -> Row]
  /\ \A i \in TaskIds :
       /\ SameTask(row[i], row'[i]) /\ row'[i].attempt = row[i].attempt
       /\ i \in S /\ Live(i) =>
            row'[i].st = "gone" /\ row'[i].lockedBy = None /\ row'[i].expired = FALSE
       /\ ~(i \in S /\ Live(i)) => row'[i] = row[i]

LEMMA CompleteEffect ==
  ASSUME row \in [TaskIds -> Row], NEW S, Complete(S)
  PROVE  Completes(S)
BY Zenon, DeletedRow DEF Complete, SameTask, Completes

Retries(t) ==
  /\ row' \in [TaskIds -> Row]
  /\ Live(t) => /\ SameTask(row[t], row'[t]) /\ row'[t].st = "live"
                /\ row'[t].attempt = row[t].attempt + 1
                /\ row'[t].lockedBy = None /\ row'[t].expired = FALSE
  /\ \A i \in TaskIds : ~(i = t /\ Live(i)) => row'[i] = row[i]

LEMMA RetryEffect ==
  ASSUME row \in [TaskIds -> Row], NEW t \in TaskIds, Retry(t)
  PROVE  Retries(t)
BY Zenon, RetriedRow DEF Retry, Live, Retries

Defers(t) ==
  /\ row' \in [TaskIds -> Row]
  /\ Live(t) => /\ SameTask(row[t], row'[t]) /\ row'[t].st = "live"
                /\ row'[t].attempt = row[t].attempt
                /\ row'[t].lockedBy = None /\ row'[t].expired = FALSE
  /\ \A i \in TaskIds : ~(i = t /\ Live(i)) => row'[i] = row[i]

LEMMA DeferEffect ==
  ASSUME row \in [TaskIds -> Row], NEW t \in TaskIds, Defer(t)
  PROVE  Defers(t)
BY Zenon, PostponedRow DEF Defer, Live, Defers

Releases(S) ==
  /\ row' \in [TaskIds -> Row]
  /\ \A i \in TaskIds :
       /\ SameTask(row[i], row'[i]) /\ row'[i].attempt = row[i].attempt
       /\ row'[i].st = row[i].st
       /\ i \in S /\ Live(i) => row'[i].lockedBy = None /\ row'[i].expired = FALSE
       /\ ~(i \in S /\ Live(i)) => row'[i] = row[i]

LEMMA ReleaseEffect ==
  ASSUME row \in [TaskIds -> Row], NEW S, Release(S)
  PROVE  Releases(S)
BY Zenon, UnlockedRow DEF Release, SameTask, Releases

-----------------------------------------------------------------------------
(* Claims in memory *)

LEMMA NoClaimFacts == NoClaim.pc = "idle" /\ NoClaim \notin Handler
BY Zenon DEF NoClaim, Handler, Phase

\* The same claim, further along.
SameClaim(c, d) == /\ d.worker = c.worker /\ d.task = c.task
                   /\ d.attempt = c.attempt

Moves(h, ph) ==
  /\ hs' \in [Handlers -> Handler \cup {NoClaim}]
  /\ hs'[h].pc = ph /\ SameClaim(hs[h], hs'[h]) /\ hs'[h].status = hs[h].status
  /\ \A g \in Handlers : g # h => hs'[g] = hs[g]

Frees(S) ==
  /\ hs' \in [Handlers -> Handler \cup {NoClaim}]
  /\ \A g \in Handlers : hs'[g] = IF g \in S THEN NoClaim ELSE hs[g]

LEMMA GotoEffect ==
  ASSUME hs \in [Handlers -> Handler \cup {NoClaim}],
         NEW h \in Handlers, NEW ph \in Phase, hs[h].pc # "idle", Goto(h, ph)
  PROVE  Moves(h, ph)
<1>1. hs[h] \in Handler
  BY Zenon, NoClaimFacts
<1>2. ASSUME NEW c \in Handler
      PROVE  /\ [c EXCEPT !.pc = ph] \in Handler
             /\ [c EXCEPT !.pc = ph].pc = ph
             /\ [c EXCEPT !.pc = ph].worker = c.worker
             /\ [c EXCEPT !.pc = ph].task = c.task
             /\ [c EXCEPT !.pc = ph].attempt = c.attempt
             /\ [c EXCEPT !.pc = ph].status = c.status
  BY Zenon DEF Handler
<1>. QED
  BY Zenon, <1>1, <1>2 DEF Goto, Moves, SameClaim

LEMMA ForgetEffect ==
  ASSUME hs \in [Handlers -> Handler \cup {NoClaim}], NEW S, Forget(S)
  PROVE  Frees(S)
BY Zenon DEF Forget, Frees

LEMMA FinishEffect ==
  ASSUME hs \in [Handlers -> Handler \cup {NoClaim}], NEW h \in Handlers, Finish(h)
  PROVE  Frees({h})
BY Zenon DEF Finish, Frees

LEMMA ClaimFields ==
  ASSUME hs \in [Handlers -> Handler \cup {NoClaim}], NEW h \in Handlers, hs[h].pc # "idle"
  PROVE  /\ hs[h] \in Handler /\ hs[h].task \in TaskIds /\ hs[h].worker \in Workers
         /\ hs[h].attempt \in Nat /\ hs[h].status \in AttemptStatus
BY Zenon, NoClaimFacts DEF Handler

LEMMA StatusType ==
  ASSUME NEW ok \in BOOLEAN, NEW trig, NEW n
  PROVE  StatusOf(ok, trig, n) \in AttemptStatus
BY Zenon DEF StatusOf, AttemptStatus

LEMMA FaultType == faults \in 0 .. MaxFaults /\ (Fault \/ NoFault) => faults' \in 0 .. MaxFaults
BY DeliveryAssumption DEF Fault, NoFault

LEMMA InitType == Init => TypeOK
<1>. SUFFICES ASSUME Init PROVE TypeOK
  OBVIOUS
<1>1. row \in [TaskIds -> Row]
  BY Zenon, NewRowType DEF Init
<1>2. hs \in [Handlers -> Handler \cup {NoClaim}]
  BY Zenon DEF Init
<1>3. faults \in 0 .. MaxFaults
  BY DeliveryAssumption DEF Init
<1>. QED
  BY Zenon, <1>1, <1>2, <1>3 DEF Init, TypeOK

-----------------------------------------------------------------------------
(* Steps *)

RowStep ==
  /\ row' \in [TaskIds -> Row]
  /\ \A i \in TaskIds :
       /\ row[i].st # "unborn" =>
            /\ row'[i].st # "unborn" /\ SameTask(row[i], row'[i])
            /\ row[i].attempt <= row'[i].attempt
       /\ row[i].st = "gone" => row'[i] = row[i]

LEMMA Attempts == ASSUME NEW r \in Row PROVE r.attempt \in Nat /\ SameTask(r, r)
BY Zenon DEF Row, SameTask

LEMMA FlagRow ==
  ASSUME NEW r \in Row, NEW q,
         q = [r EXCEPT !.visible = TRUE] \/ q = [r EXCEPT !.expired = TRUE]
  PROVE  /\ q \in Row /\ SameTask(r, q) /\ q.st = r.st
         /\ q.attempt = r.attempt /\ q.lockedBy = r.lockedBy
BY Zenon DEF Row, SameTask

LEMMA LockedRow ==
  ASSUME NEW r \in Row, NEW w \in Workers
  PROVE  LET q == [r EXCEPT !.lockedBy = w] IN
         /\ q \in Row /\ SameTask(r, q) /\ q.st = r.st
         /\ q.attempt = r.attempt /\ q.lockedBy = w /\ q.expired = r.expired
BY Zenon DEF Row, SameTask

LEMMA LockedStep ==
  ASSUME row \in [TaskIds -> Row], NEW w \in Workers,
         NEW S, \A i \in S : i \in TaskIds /\ Live(i), row' = Locked(S, w)
  PROVE  /\ RowStep
         /\ \A i \in TaskIds : /\ row'[i].st = row[i].st
                              /\ row'[i].attempt = row[i].attempt
                              /\ row'[i].expired = row[i].expired
                              /\ (i \in S => row'[i].lockedBy = w)
                              /\ (i \notin S => row'[i] = row[i])
BY LockedRow, Attempts DEF Locked, RowStep, Live

LEMMA StatementSteps ==
  ASSUME row \in [TaskIds -> Row]
  PROVE  /\ UNCHANGED row => RowStep
         /\ \A S : Complete(S) => RowStep
         /\ \A t \in TaskIds : Retry(t) => RowStep
         /\ \A t \in TaskIds : Defer(t) => RowStep
         /\ \A S : Release(S) => RowStep
<1>a. \A i \in TaskIds : row[i].attempt \in Nat /\ SameTask(row[i], row[i])
  BY Zenon, Attempts
<1>1. UNCHANGED row => RowStep
  BY <1>a DEF RowStep
<1>2. ASSUME NEW S, Complete(S) PROVE RowStep
  <2>1. Completes(S)
    BY Zenon, <1>2, CompleteEffect
  <2>. QED
    BY <2>1, <1>a DEF Completes, RowStep, Live
<1>3. ASSUME NEW t \in TaskIds, Retry(t) PROVE RowStep
  <2>1. Retries(t)
    BY Zenon, <1>3, RetryEffect
  <2>. QED
    BY <2>1, <1>a DEF Retries, RowStep, Live
<1>4. ASSUME NEW t \in TaskIds, Defer(t) PROVE RowStep
  <2>1. Defers(t)
    BY Zenon, <1>4, DeferEffect
  <2>. QED
    BY <2>1, <1>a DEF Defers, RowStep, Live
<1>5. ASSUME NEW S, Release(S) PROVE RowStep
  <2>1. Releases(S)
    BY Zenon, <1>5, ReleaseEffect
  <2>. QED
    BY <2>1, <1>a DEF Releases, RowStep, Live
<1>. QED
  BY Zenon, <1>1, <1>2, <1>3, <1>4, <1>5

\* What every step starts from.
LEMMA StepContext ==
  ASSUME TypeOK
  PROVE  /\ row \in [TaskIds -> Row] /\ hs \in [Handlers -> Handler \cup {NoClaim}]
         /\ (UNCHANGED row => RowStep)
         /\ \A i \in TaskIds : row[i].attempt \in Nat /\ SameTask(row[i], row[i])
BY Zenon, StatementSteps, Attempts DEF TypeOK

LEMMA StartStep ==
  ASSUME TypeOK, NEW h \in Handlers, Start(h)
  PROVE  TypeOK' /\ Advances
<1>. USE DEF TypeOK
<1>a. /\ row \in [TaskIds -> Row] /\ hs \in [Handlers -> Handler \cup {NoClaim}]
      /\ (UNCHANGED row => RowStep)
      /\ \A j \in TaskIds : row[j].attempt \in Nat /\ SameTask(row[j], row[j])
  BY Zenon, StepContext
<1>1. hs' \in [Handlers -> Handler \cup {NoClaim}]
  BY Zenon, <1>a, GotoEffect DEF Moves, Start, Phase
<1>. QED
  BY Zenon, <1>a, <1>1 DEF Start, Advances, RowStep

LEMMA KeepLockStep ==
  ASSUME TypeOK, NEW h \in Handlers, KeepLock(h)
  PROVE  TypeOK' /\ Advances
<1>. USE DEF TypeOK
<1>a. /\ row \in [TaskIds -> Row] /\ hs \in [Handlers -> Handler \cup {NoClaim}]
      /\ (UNCHANGED row => RowStep)
      /\ \A j \in TaskIds : row[j].attempt \in Nat /\ SameTask(row[j], row[j])
  BY Zenon, StepContext
<1>1. hs' \in [Handlers -> Handler \cup {NoClaim}]
  BY Zenon, <1>a, FinishEffect DEF Frees, KeepLock
<1>2. faults' \in 0 .. MaxFaults
  BY Zenon, <1>a, FaultType DEF KeepLock
<1>. QED
  BY Zenon, <1>a, <1>1, <1>2 DEF KeepLock, Advances, RowStep

LEMMA DeferTaskStep ==
  ASSUME TypeOK, NEW h \in Handlers, DeferTask(h)
  PROVE  TypeOK' /\ Advances
<1>. USE DEF TypeOK
<1>a. /\ row \in [TaskIds -> Row] /\ hs \in [Handlers -> Handler \cup {NoClaim}]
      /\ (UNCHANGED row => RowStep)
      /\ \A j \in TaskIds : row[j].attempt \in Nat /\ SameTask(row[j], row[j])
  BY Zenon, StepContext
<1>1. hs' \in [Handlers -> Handler \cup {NoClaim}]
  BY Zenon, <1>a, FinishEffect DEF Frees, DeferTask
<1>2. RowStep
  BY Zenon, <1>a, StatementSteps, ClaimFields DEF DeferTask, Live
<1>3. faults' \in 0 .. MaxFaults
  BY Zenon, <1>a, FaultType DEF DeferTask
<1>. QED
  BY Zenon, <1>a, <1>1, <1>2, <1>3 DEF DeferTask, Advances, RowStep

LEMMA FanoutDropStep ==
  ASSUME TypeOK, NEW h \in Handlers, FanoutDrop(h)
  PROVE  TypeOK' /\ Advances
<1>. USE DEF TypeOK
<1>a. /\ row \in [TaskIds -> Row] /\ hs \in [Handlers -> Handler \cup {NoClaim}]
      /\ (UNCHANGED row => RowStep)
      /\ \A j \in TaskIds : row[j].attempt \in Nat /\ SameTask(row[j], row[j])
  BY Zenon, StepContext
<1>1. hs' \in [Handlers -> Handler \cup {NoClaim}]
  BY Zenon, <1>a, FinishEffect DEF Frees, FanoutDrop, Drop
<1>2. RowStep
  BY Zenon, <1>a, StatementSteps DEF FanoutDrop, Drop, Live
<1>3. dropped' \in [TaskIds -> DropReason \cup {"none"}] /\ \A i \in TaskIds : row[i].st = "gone" => dropped'[i] = dropped[i]
  BY Zenon, <1>a, ClaimFields DEF FanoutDrop, Drop, DropReason, Live, Delivering, PastLane
<1>. QED
  BY Zenon, <1>a, <1>1, <1>2, <1>3 DEF FanoutDrop, Advances, RowStep

LEMMA FanoutExpandStep ==
  ASSUME TypeOK, NEW h \in Handlers, FanoutExpand(h)
  PROVE  TypeOK' /\ Advances
<1>. USE DEF TypeOK
<1>a. /\ row \in [TaskIds -> Row] /\ hs \in [Handlers -> Handler \cup {NoClaim}]
      /\ (UNCHANGED row => RowStep)
      /\ \A j \in TaskIds : row[j].attempt \in Nat /\ SameTask(row[j], row[j])
  BY Zenon, StepContext
<1>. DEFINE t == hs[h].task
<1>1. t \in TaskIds /\ row[t].msg \in Msgs /\ row[t].trig \in Trigger
  BY Zenon, <1>a, ClaimFields DEF FanoutExpand, Row
<1>2. PICK F \in SUBSET Fresh : \E M \in SUBSET Endpoints : \E g \in [F -> M] :
        row' = Expanded(t, F, g)
  BY ZenonT(30), <1>1, DeliveryAssumption DEF FanoutExpand, Matches
<1>3. PICK g : (\A i \in F : g[i] \in Endpoints) /\ row' = Expanded(t, F, g)
  BY Zenon, <1>2
<1>4. \A i \in F : NewRow("deliver", row[t].trig, row[t].msg, g[i]) \in Row
  BY Zenon, <1>1, <1>3, NewRowType DEF Kind
<1>5. RowStep
  <2>1. ASSUME NEW i \in TaskIds, Live(i)
        PROVE  /\ Deleted(row[i]) \in Row /\ SameTask(row[i], Deleted(row[i]))
               /\ Deleted(row[i]).st = "gone" /\ Deleted(row[i]).attempt = row[i].attempt
    BY Zenon, <1>a, DeletedRow
  <2>. QED
    BY SMTT(30), <1>a, <1>1, <1>3, <1>4, <2>1 DEF Expanded, RowStep, Fresh, Live
<1>6. hs' \in [Handlers -> Handler \cup {NoClaim}]
  BY Zenon, <1>a, FinishEffect DEF Frees, FanoutExpand
<1>7. /\ dropped' \in [TaskIds -> DropReason \cup {"none"}]
      /\ \A i \in TaskIds : row[i].st = "gone" => dropped'[i] = dropped[i]
  BY <1>1 DEF FanoutExpand, DropReason, Live
<1>. QED
  BY Zenon, <1>5, <1>6, <1>7 DEF FanoutExpand, Advances, RowStep

LEMMA WaitForLaneStep ==
  ASSUME TypeOK, NEW h \in Handlers, WaitForLane(h)
  PROVE  TypeOK' /\ Advances
<1>. USE DEF TypeOK
<1>a. /\ row \in [TaskIds -> Row] /\ hs \in [Handlers -> Handler \cup {NoClaim}]
      /\ (UNCHANGED row => RowStep)
      /\ \A j \in TaskIds : row[j].attempt \in Nat /\ SameTask(row[j], row[j])
  BY Zenon, StepContext
<1>1. hs' \in [Handlers -> Handler \cup {NoClaim}]
  BY Zenon, <1>a, GotoEffect DEF Moves, WaitForLane, Delivering, Phase
<1>2. faults' \in 0 .. MaxFaults
  BY Zenon, <1>a, FaultType DEF WaitForLane
<1>. QED
  BY Zenon, <1>a, <1>1, <1>2 DEF WaitForLane, Advances, RowStep

LEMMA LaneAcquiredStep ==
  ASSUME TypeOK, NEW h \in Handlers, LaneAcquired(h)
  PROVE  TypeOK' /\ Advances
<1>. USE DEF TypeOK
<1>a. /\ row \in [TaskIds -> Row] /\ hs \in [Handlers -> Handler \cup {NoClaim}]
      /\ (UNCHANGED row => RowStep)
      /\ \A j \in TaskIds : row[j].attempt \in Nat /\ SameTask(row[j], row[j])
  BY Zenon, StepContext
<1>1. hs' \in [Handlers -> Handler \cup {NoClaim}]
  BY Zenon, <1>a, GotoEffect DEF Moves, LaneAcquired, Phase
<1>. QED
  BY Zenon, <1>a, <1>1 DEF LaneAcquired, Advances, RowStep

LEMMA DeferForSaturationStep ==
  ASSUME TypeOK, NEW h \in Handlers, DeferForSaturation(h)
  PROVE  TypeOK' /\ Advances
<1>. USE DEF TypeOK
<1>a. /\ row \in [TaskIds -> Row] /\ hs \in [Handlers -> Handler \cup {NoClaim}]
      /\ (UNCHANGED row => RowStep)
      /\ \A j \in TaskIds : row[j].attempt \in Nat /\ SameTask(row[j], row[j])
  BY Zenon, StepContext
<1>1. hs' \in [Handlers -> Handler \cup {NoClaim}]
  BY Zenon, <1>a, FinishEffect DEF Frees, DeferForSaturation
<1>2. RowStep
  BY Zenon, <1>a, StatementSteps, ClaimFields DEF DeferForSaturation, Live
<1>. QED
  BY Zenon, <1>a, <1>1, <1>2 DEF DeferForSaturation, Advances, RowStep

LEMMA DeliverDropStep ==
  ASSUME TypeOK, NEW h \in Handlers, DeliverDrop(h)
  PROVE  TypeOK' /\ Advances
<1>. USE DEF TypeOK
<1>a. /\ row \in [TaskIds -> Row] /\ hs \in [Handlers -> Handler \cup {NoClaim}]
      /\ (UNCHANGED row => RowStep)
      /\ \A j \in TaskIds : row[j].attempt \in Nat /\ SameTask(row[j], row[j])
  BY Zenon, StepContext
<1>1. hs' \in [Handlers -> Handler \cup {NoClaim}]
  BY Zenon, <1>a, FinishEffect DEF Frees, DeliverDrop, Drop
<1>2. RowStep
  BY Zenon, <1>a, StatementSteps DEF DeliverDrop, Drop, Live
<1>3. dropped' \in [TaskIds -> DropReason \cup {"none"}] /\ \A i \in TaskIds : row[i].st = "gone" => dropped'[i] = dropped[i]
  BY ZenonT(30), <1>a, ClaimFields DEF DeliverDrop, Drop, DropReason, Live, Delivering, PastLane
<1>. QED
  BY Zenon, <1>a, <1>1, <1>2, <1>3 DEF DeliverDrop, Advances, RowStep

LEMMA RequeueForBreakerStep ==
  ASSUME TypeOK, NEW h \in Handlers, RequeueForBreaker(h)
  PROVE  TypeOK' /\ Advances
<1>. USE DEF TypeOK
<1>a. /\ row \in [TaskIds -> Row] /\ hs \in [Handlers -> Handler \cup {NoClaim}]
      /\ (UNCHANGED row => RowStep)
      /\ \A j \in TaskIds : row[j].attempt \in Nat /\ SameTask(row[j], row[j])
  BY Zenon, StepContext
<1>1. hs' \in [Handlers -> Handler \cup {NoClaim}]
  BY Zenon, <1>a, FinishEffect DEF Frees, RequeueForBreaker, Drop
<1>2. RowStep
  BY Zenon, <1>a, StatementSteps, ClaimFields DEF RequeueForBreaker, Drop, Live, Delivering
<1>3. dropped' \in [TaskIds -> DropReason \cup {"none"}] /\ \A i \in TaskIds : row[i].st = "gone" => dropped'[i] = dropped[i]
  BY Zenon, <1>a, ClaimFields DEF RequeueForBreaker, Drop, DropReason, Live, Delivering
<1>. QED
  BY Zenon, <1>a, <1>1, <1>2, <1>3 DEF RequeueForBreaker, Advances, RowStep

LEMMA SendStep ==
  ASSUME TypeOK, NEW h \in Handlers, Send(h)
  PROVE  TypeOK' /\ Advances
<1>. USE DEF TypeOK
<1>a. /\ row \in [TaskIds -> Row] /\ hs \in [Handlers -> Handler \cup {NoClaim}]
      /\ (UNCHANGED row => RowStep)
      /\ \A j \in TaskIds : row[j].attempt \in Nat /\ SameTask(row[j], row[j])
  BY Zenon, StepContext
<1>1. hs' \in [Handlers -> Handler \cup {NoClaim}]
  BY Zenon, <1>a, GotoEffect DEF Moves, Send, PastLane, Delivering, Phase
<1>. QED
  BY Zenon, <1>a, <1>1 DEF Send, Advances, RowStep

LEMMA RespondStep ==
  ASSUME TypeOK, NEW h \in Handlers, NEW ok \in BOOLEAN, Respond(h, ok)
  PROVE  TypeOK' /\ Advances
<1>. USE DEF TypeOK
<1>a. /\ row \in [TaskIds -> Row] /\ hs \in [Handlers -> Handler \cup {NoClaim}]
      /\ (UNCHANGED row => RowStep)
      /\ \A j \in TaskIds : row[j].attempt \in Nat /\ SameTask(row[j], row[j])
  BY Zenon, StepContext
<1>1. hs' \in [Handlers -> Handler \cup {NoClaim}]
  <2>1. hs[h] \in Handler
    BY Zenon, <1>a, ClaimFields DEF Respond
  <2>2. ASSUME NEW c \in Handler, NEW s \in AttemptStatus
        PROVE  [c EXCEPT !.pc = "recording", !.status = s] \in Handler
    BY Zenon DEF Handler, Phase
  <2>3. PICK s \in AttemptStatus :
          hs' = [hs EXCEPT ![h] = [@ EXCEPT !.pc = "recording", !.status = s]]
    BY Zenon, StatusType DEF Respond
  <2>. QED
    BY Zenon, <1>a, <2>1, <2>2, <2>3
<1>2. acked' \subseteq TaskIds /\ acked \subseteq acked'
  BY Zenon, <1>a, ClaimFields DEF Respond
<1>. QED
  BY Zenon, <1>a, <1>1, <1>2 DEF Respond, Advances, RowStep

LEMMA EnqueueRecordStep ==
  ASSUME TypeOK, NEW h \in Handlers, EnqueueRecord(h)
  PROVE  TypeOK' /\ Advances
<1>. USE DEF TypeOK
<1>a. /\ row \in [TaskIds -> Row] /\ hs \in [Handlers -> Handler \cup {NoClaim}]
      /\ (UNCHANGED row => RowStep)
      /\ \A j \in TaskIds : row[j].attempt \in Nat /\ SameTask(row[j], row[j])
  BY Zenon, StepContext
<1>1. hs' \in [Handlers -> Handler \cup {NoClaim}]
  BY Zenon, <1>a, GotoEffect DEF Moves, EnqueueRecord, Phase
<1>. QED
  BY Zenon, <1>a, <1>1 DEF EnqueueRecord, Advances, RowStep

LEMMA EnqueueTimesOutStep ==
  ASSUME TypeOK, NEW h \in Handlers, EnqueueTimesOut(h)
  PROVE  TypeOK' /\ Advances
<1>. USE DEF TypeOK
<1>a. /\ row \in [TaskIds -> Row] /\ hs \in [Handlers -> Handler \cup {NoClaim}]
      /\ (UNCHANGED row => RowStep)
      /\ \A j \in TaskIds : row[j].attempt \in Nat /\ SameTask(row[j], row[j])
  BY Zenon, StepContext
<1>1. hs' \in [Handlers -> Handler \cup {NoClaim}]
  BY Zenon, <1>a, FinishEffect DEF Frees, EnqueueTimesOut
<1>2. faults' \in 0 .. MaxFaults
  BY Zenon, <1>a, FaultType DEF EnqueueTimesOut
<1>. QED
  BY Zenon, <1>a, <1>1, <1>2 DEF EnqueueTimesOut, Advances, RowStep

LEMMA CollectStep ==
  ASSUME TypeOK, NEW h \in Handlers, Collect(h)
  PROVE  TypeOK' /\ Advances
<1>. USE DEF TypeOK
<1>a. /\ row \in [TaskIds -> Row] /\ hs \in [Handlers -> Handler \cup {NoClaim}]
      /\ (UNCHANGED row => RowStep)
      /\ \A j \in TaskIds : row[j].attempt \in Nat /\ SameTask(row[j], row[j])
  BY Zenon, StepContext
<1>1. hs' \in [Handlers -> Handler \cup {NoClaim}]
  BY Zenon, <1>a, GotoEffect DEF Moves, Collect, Phase
<1>. QED
  BY Zenon, <1>a, <1>1 DEF Collect, Advances, RowStep

LEMMA FinalizeRetryStep ==
  ASSUME TypeOK, NEW h \in Handlers, FinalizeRetry(h)
  PROVE  TypeOK' /\ Advances
<1>. USE DEF TypeOK
<1>a. /\ row \in [TaskIds -> Row] /\ hs \in [Handlers -> Handler \cup {NoClaim}]
      /\ (UNCHANGED row => RowStep)
      /\ \A j \in TaskIds : row[j].attempt \in Nat /\ SameTask(row[j], row[j])
  BY Zenon, StepContext
<1>1. hs' \in [Handlers -> Handler \cup {NoClaim}]
  BY Zenon, <1>a, FinishEffect DEF Frees, FinalizeRetry
<1>2. RowStep
  BY Zenon, <1>a, StatementSteps, ClaimFields DEF FinalizeRetry, Live
<1>3. faults' \in 0 .. MaxFaults
  BY Zenon, <1>a, FaultType DEF FinalizeRetry
<1>. QED
  BY Zenon, <1>a, <1>1, <1>2, <1>3 DEF FinalizeRetry, Advances, RowStep

LEMMA ClaimStep ==
  ASSUME TypeOK, NEW w \in Workers, Claim(w)
  PROVE  TypeOK' /\ Advances
<1>. USE DEF TypeOK
<1>a. /\ row \in [TaskIds -> Row] /\ hs \in [Handlers -> Handler \cup {NoClaim}]
      /\ (UNCHANGED row => RowStep)
      /\ \A j \in TaskIds : row[j].attempt \in Nat /\ SameTask(row[j], row[j])
  BY Zenon, StepContext
<1>1. PICK H \in SUBSET {h \in Handlers : hs[h].pc = "idle"} :
        \E g \in [H -> {i \in TaskIds : Claimable(i)}] :
          /\ row' = Locked({g[h] : h \in H}, w)
          /\ hs' = [h \in Handlers |->
                      IF h \in H
                      THEN [pc |-> "claimed", worker |-> w, task |-> g[h],
                            attempt |-> row[g[h]].attempt, status |-> "failed"]
                      ELSE hs[h]]
          /\ batch' = [batch EXCEPT ![w] = {g[h] : h \in H}]
  BY Zenon DEF Claim
<1>2. PICK g \in [H -> {i \in TaskIds : Claimable(i)}] :
          /\ row' = Locked({g[h] : h \in H}, w)
          /\ hs' = [h \in Handlers |->
                      IF h \in H
                      THEN [pc |-> "claimed", worker |-> w, task |-> g[h],
                            attempt |-> row[g[h]].attempt, status |-> "failed"]
                      ELSE hs[h]]
          /\ batch' = [batch EXCEPT ![w] = {g[h] : h \in H}]
  BY Zenon, <1>1
<1>3. \A h \in H : g[h] \in TaskIds /\ Live(g[h]) /\ row[g[h]].attempt \in Nat
  BY Zenon, <1>a, Attempts DEF Claimable
<1>4. RowStep
  <2>. DEFINE S == {g[h] : h \in H}
  <2>1. (\A i \in S : i \in TaskIds /\ Live(i)) /\ row' = Locked(S, w)
    BY <1>2, <1>3
  <2>. QED
    BY Zenon, <1>a, <2>1, LockedStep
<1>5. hs' \in [Handlers -> Handler \cup {NoClaim}]
  BY Zenon, <1>a, <1>2, <1>3 DEF Handler, Phase, AttemptStatus
<1>6. batch' \in [Workers -> SUBSET TaskIds]
  BY <1>2, <1>3
<1>. QED
  BY Zenon, <1>4, <1>5, <1>6 DEF Claim, Advances, RowStep

LEMMA ClaimLostStep ==
  ASSUME TypeOK, NEW w \in Workers, ClaimLost(w)
  PROVE  TypeOK' /\ Advances
<1>. USE DEF TypeOK
<1>a. /\ row \in [TaskIds -> Row] /\ hs \in [Handlers -> Handler \cup {NoClaim}]
      /\ (UNCHANGED row => RowStep)
      /\ \A j \in TaskIds : row[j].attempt \in Nat /\ SameTask(row[j], row[j])
  BY Zenon, StepContext
<1>1. RowStep
  BY Zenon, <1>a, LockedStep DEF ClaimLost, Claimable
<1>2. faults' \in 0 .. MaxFaults
  BY Zenon, FaultType DEF ClaimLost
<1>. QED
  BY Zenon, <1>1, <1>2 DEF ClaimLost, Advances, RowStep

LEMMA ReleaseBatchStep ==
  ASSUME TypeOK, NEW w \in Workers, ReleaseBatch(w)
  PROVE  TypeOK' /\ Advances
<1>. USE DEF TypeOK
<1>a. /\ row \in [TaskIds -> Row] /\ hs \in [Handlers -> Handler \cup {NoClaim}]
      /\ (UNCHANGED row => RowStep)
      /\ \A j \in TaskIds : row[j].attempt \in Nat /\ SameTask(row[j], row[j])
  BY Zenon, StepContext
<1>1. hs' \in [Handlers -> Handler \cup {NoClaim}]
  BY Zenon, <1>a, ForgetEffect DEF Frees, ReleaseBatch
<1>2. RowStep
  BY Zenon, <1>a, StatementSteps DEF ReleaseBatch, Live
<1>3. faults' \in 0 .. MaxFaults
  BY Zenon, <1>a, FaultType DEF ReleaseBatch
<1>4. lapse' \in [TaskIds -> {"none", "expiry", "release"}] /\ \A i \in TaskIds : lapse[i] # "none" => lapse'[i] = lapse[i]
  BY <1>a, ForgetEffect DEF Frees, ReleaseBatch
<1>. QED
  BY Zenon, <1>a, <1>1, <1>2, <1>3, <1>4 DEF ReleaseBatch, Advances, RowStep

LEMMA FlushStep ==
  ASSUME TypeOK, NEW w \in Workers, Flush(w)
  PROVE  TypeOK' /\ Advances
<1>. USE DEF TypeOK
<1>a. /\ row \in [TaskIds -> Row] /\ hs \in [Handlers -> Handler \cup {NoClaim}]
      /\ (UNCHANGED row => RowStep)
      /\ \A j \in TaskIds : row[j].attempt \in Nat /\ SameTask(row[j], row[j])
  BY Zenon, StepContext
<1>1. \A h \in InPhase(w, "batched") : h \in Handlers /\ hs[h].pc # "idle"
  BY Zenon DEF InPhase
<1>2. attempts \subseteq attempts' /\ attempts' \subseteq Attempt
  <2>1. \A h \in InPhase(w, "batched") : AttemptOf(h) \in Attempt
    BY <1>a, <1>1, ClaimFields DEF AttemptOf, Attempt
  <2>. QED
    BY Zenon, <2>1 DEF Flush
<1>3. hs' \in [Handlers -> Handler \cup {NoClaim}]
  <2>1. \A h \in InPhase(w, "batched") : [hs[h] EXCEPT !.pc = "copied"] \in Handler
    <3>1. ASSUME NEW c \in Handler PROVE [c EXCEPT !.pc = "copied"] \in Handler
      BY Zenon DEF Handler, Phase
    <3>. QED
      BY Zenon, <1>a, <1>1, <3>1, ClaimFields
  <2>. QED
    BY <1>a, <2>1, ForgetEffect DEF Frees, Flush
<1>4. faults' \in 0 .. MaxFaults
  BY Zenon, FaultType DEF Flush
<1>. QED
  BY Zenon, <1>a, <1>2, <1>3, <1>4 DEF Flush, Advances, RowStep

LEMMA FinalizeCompleteStep ==
  ASSUME TypeOK, NEW w \in Workers, FinalizeComplete(w)
  PROVE  TypeOK' /\ Advances
<1>. USE DEF TypeOK
<1>a. /\ row \in [TaskIds -> Row] /\ hs \in [Handlers -> Handler \cup {NoClaim}]
      /\ (UNCHANGED row => RowStep)
      /\ \A j \in TaskIds : row[j].attempt \in Nat /\ SameTask(row[j], row[j])
  BY Zenon, StepContext
<1>1. hs' \in [Handlers -> Handler \cup {NoClaim}]
  BY Zenon, <1>a, ForgetEffect DEF Frees, FinalizeComplete
<1>2. RowStep
  BY Zenon, <1>a, StatementSteps DEF FinalizeComplete, Live
<1>3. faults' \in 0 .. MaxFaults
  BY Zenon, <1>a, FaultType DEF FinalizeComplete
<1>. QED
  BY Zenon, <1>a, <1>1, <1>2, <1>3 DEF FinalizeComplete, Advances, RowStep

LEMMA ShutdownStep ==
  ASSUME TypeOK, NEW w \in Workers, Shutdown(w)
  PROVE  TypeOK' /\ Advances
<1>. USE DEF TypeOK
<1>a. /\ row \in [TaskIds -> Row] /\ hs \in [Handlers -> Handler \cup {NoClaim}]
      /\ (UNCHANGED row => RowStep)
      /\ \A j \in TaskIds : row[j].attempt \in Nat /\ SameTask(row[j], row[j])
  BY Zenon, StepContext
<1>1. faults' \in 0 .. MaxFaults
  BY Zenon, <1>a, FaultType DEF Shutdown
<1>. QED
  BY Zenon, <1>a, <1>1 DEF Shutdown, Advances, RowStep

LEMMA StoppedStep ==
  ASSUME TypeOK, NEW w \in Workers, Stopped(w)
  PROVE  TypeOK' /\ Advances
<1>. USE DEF TypeOK
<1>a. /\ row \in [TaskIds -> Row] /\ hs \in [Handlers -> Handler \cup {NoClaim}]
      /\ (UNCHANGED row => RowStep)
      /\ \A j \in TaskIds : row[j].attempt \in Nat /\ SameTask(row[j], row[j])
  BY Zenon, StepContext
<1>. QED
  BY Zenon, <1>a DEF Stopped, Advances, RowStep

LEMMA CrashStep ==
  ASSUME TypeOK, NEW w \in Workers, Crash(w)
  PROVE  TypeOK' /\ Advances
<1>. USE DEF TypeOK
<1>a. /\ row \in [TaskIds -> Row] /\ hs \in [Handlers -> Handler \cup {NoClaim}]
      /\ (UNCHANGED row => RowStep)
      /\ \A j \in TaskIds : row[j].attempt \in Nat /\ SameTask(row[j], row[j])
  BY Zenon, StepContext
<1>1. hs' \in [Handlers -> Handler \cup {NoClaim}]
  BY Zenon, <1>a, ForgetEffect DEF Frees, Crash
<1>2. faults' \in 0 .. MaxFaults
  BY Zenon, <1>a, FaultType DEF Crash
<1>. QED
  BY Zenon, <1>a, <1>1, <1>2 DEF Crash, Advances, RowStep

LEMMA RestartStep ==
  ASSUME TypeOK, NEW w \in Workers, Restart(w)
  PROVE  TypeOK' /\ Advances
<1>. USE DEF TypeOK
<1>a. /\ row \in [TaskIds -> Row] /\ hs \in [Handlers -> Handler \cup {NoClaim}]
      /\ (UNCHANGED row => RowStep)
      /\ \A j \in TaskIds : row[j].attempt \in Nat /\ SameTask(row[j], row[j])
  BY Zenon, StepContext
<1>. QED
  BY Zenon, <1>a DEF Restart, Advances, RowStep

LEMMA BecomeVisibleStep ==
  ASSUME TypeOK, NEW i \in TaskIds, BecomeVisible(i)
  PROVE  TypeOK' /\ Advances
<1>. USE DEF TypeOK
<1>a. /\ row \in [TaskIds -> Row] /\ hs \in [Handlers -> Handler \cup {NoClaim}]
      /\ (UNCHANGED row => RowStep)
      /\ \A j \in TaskIds : row[j].attempt \in Nat /\ SameTask(row[j], row[j])
  BY Zenon, StepContext
<1>1. RowStep
  BY <1>a, FlagRow, Attempts DEF BecomeVisible, RowStep, Live
<1>. QED
  BY Zenon, <1>a, <1>1 DEF BecomeVisible, Advances, RowStep

LEMMA ExpireStep ==
  ASSUME TypeOK, NEW i \in TaskIds, Expire(i)
  PROVE  TypeOK' /\ Advances
<1>. USE DEF TypeOK
<1>a. /\ row \in [TaskIds -> Row] /\ hs \in [Handlers -> Handler \cup {NoClaim}]
      /\ (UNCHANGED row => RowStep)
      /\ \A j \in TaskIds : row[j].attempt \in Nat /\ SameTask(row[j], row[j])
  BY Zenon, StepContext
<1>1. RowStep
  BY <1>a, FlagRow, Attempts DEF Expire, RowStep, Live
<1>2. faults' \in 0 .. MaxFaults
  BY Zenon, <1>a, FaultType DEF Expire
<1>3. /\ lapse' \in [TaskIds -> {"none", "expiry", "release"}]
      /\ \A j \in TaskIds : lapse[j] # "none" => lapse'[j] = lapse[j]
  BY Zenon DEF Expire
<1>. QED
  BY Zenon, <1>a, <1>1, <1>2, <1>3 DEF Expire, Advances, RowStep

LEMMA RescueStuckStep ==
  ASSUME TypeOK, RescueStuck
  PROVE  TypeOK' /\ Advances
<1>. USE DEF TypeOK
<1>a. /\ row \in [TaskIds -> Row] /\ hs \in [Handlers -> Handler \cup {NoClaim}]
      /\ (UNCHANGED row => RowStep)
      /\ \A j \in TaskIds : row[j].attempt \in Nat /\ SameTask(row[j], row[j])
  BY Zenon, StepContext
<1>1. RowStep
  <2>1. ASSUME NEW i \in TaskIds
        PROVE  /\ Unlocked(row[i]) \in Row /\ SameTask(row[i], Unlocked(row[i]))
               /\ Unlocked(row[i]).st = row[i].st /\ Unlocked(row[i]).attempt = row[i].attempt
    BY Zenon, <1>a, UnlockedRow
  <2>. QED
    BY <1>a, <2>1 DEF RescueStuck, RowStep, Live
<1>. QED
  BY Zenon, <1>a, <1>1 DEF RescueStuck, Advances, RowStep

LEMMA IngestStep ==
  ASSUME TypeOK, NEW m \in Msgs, Ingest(m)
  PROVE  TypeOK' /\ Advances
<1>. USE DEF TypeOK
<1>a. /\ row \in [TaskIds -> Row] /\ hs \in [Handlers -> Handler \cup {NoClaim}]
      /\ (UNCHANGED row => RowStep)
      /\ \A j \in TaskIds : row[j].attempt \in Nat /\ SameTask(row[j], row[j])
  BY Zenon, StepContext
<1>1. RowStep
  BY <1>a, NewRowType, Attempts DEF Ingest, Fresh, Kind, Trigger, RowStep
<1>. QED
  BY Zenon, <1>a, <1>1 DEF Ingest, Advances, RowStep, Fresh

LEMMA AgeOutStep ==
  ASSUME TypeOK, NEW m \in Msgs, AgeOut(m)
  PROVE  TypeOK' /\ Advances
<1>. USE DEF TypeOK
<1>a. /\ row \in [TaskIds -> Row] /\ hs \in [Handlers -> Handler \cup {NoClaim}]
      /\ (UNCHANGED row => RowStep)
      /\ \A j \in TaskIds : row[j].attempt \in Nat /\ SameTask(row[j], row[j])
  BY Zenon, StepContext
<1>1. faults' \in 0 .. MaxFaults
  BY Zenon, <1>a, FaultType DEF AgeOut
<1>. QED
  BY Zenon, <1>a, <1>1 DEF AgeOut, Advances, RowStep

LEMMA ResendStep ==
  ASSUME TypeOK, NEW m \in Msgs, NEW e \in Endpoints, Resend(m, e)
  PROVE  TypeOK' /\ Advances
<1>. USE DEF TypeOK
<1>a. /\ row \in [TaskIds -> Row] /\ hs \in [Handlers -> Handler \cup {NoClaim}]
      /\ (UNCHANGED row => RowStep)
      /\ \A j \in TaskIds : row[j].attempt \in Nat /\ SameTask(row[j], row[j])
  BY Zenon, StepContext
<1>1. RowStep
  BY <1>a, NewRowType, Attempts DEF Resend, Fresh, Kind, Trigger, RowStep
<1>2. faults' \in 0 .. MaxFaults
  BY Zenon, <1>a, FaultType DEF Resend
<1>. QED
  BY Zenon, <1>a, <1>1, <1>2 DEF Resend, Advances, RowStep, Fresh

LEMMA DeactivateStep ==
  ASSUME TypeOK, NEW e \in Endpoints, Deactivate(e)
  PROVE  TypeOK' /\ Advances
<1>. USE DEF TypeOK
<1>a. /\ row \in [TaskIds -> Row] /\ hs \in [Handlers -> Handler \cup {NoClaim}]
      /\ (UNCHANGED row => RowStep)
      /\ \A j \in TaskIds : row[j].attempt \in Nat /\ SameTask(row[j], row[j])
  BY Zenon, StepContext
<1>1. faults' \in 0 .. MaxFaults
  BY Zenon, <1>a, FaultType DEF Deactivate
<1>. QED
  BY Zenon, <1>a, <1>1 DEF Deactivate, Advances, RowStep

LEMMA StutterStep ==
  ASSUME TypeOK, UNCHANGED vars
  PROVE  TypeOK' /\ Advances
<1>. USE DEF TypeOK
<1>a. /\ row \in [TaskIds -> Row] /\ hs \in [Handlers -> Handler \cup {NoClaim}]
      /\ (UNCHANGED row => RowStep)
      /\ \A j \in TaskIds : row[j].attempt \in Nat /\ SameTask(row[j], row[j])
  BY Zenon, StepContext
<1>. QED
  BY Zenon, <1>a DEF vars, Advances, RowStep

LEMMA StepFacts == TypeOK /\ [Next]_vars => TypeOK' /\ Advances
BY Zenon, StartStep, KeepLockStep, DeferTaskStep, FanoutDropStep,
   FanoutExpandStep, WaitForLaneStep, LaneAcquiredStep, DeferForSaturationStep,
   DeliverDropStep, RequeueForBreakerStep, SendStep, RespondStep,
   EnqueueRecordStep, EnqueueTimesOutStep, CollectStep, FinalizeRetryStep,
   ClaimStep, ClaimLostStep, ReleaseBatchStep, FlushStep,
   FinalizeCompleteStep, ShutdownStep, StoppedStep, CrashStep,
   RestartStep, BecomeVisibleStep, ExpireStep, RescueStuckStep,
   IngestStep, AgeOutStep, ResendStep, DeactivateStep,
   StutterStep
   DEF Next, HandlerStep, WorkerStep, QueueStep, Environment

\* Every reachable state is well typed: a claim in memory always names a worker
\* and a row, and the fault budget is kept.
THEOREM TypeCorrect == Spec => []TypeOK
<1>1. Init => TypeOK
  BY Zenon, InitType
<1>2. TypeOK /\ [Next]_vars => TypeOK'
  BY Zenon, StepFacts
<1>. QED
  BY <1>1, <1>2, PTL DEF Spec

\* No step of any worker, however late it acts on a row that is not its own any
\* more, undoes what is recorded (the queue statements that match by id only).
THEOREM NothingTakenBack == Spec => OnlyAdvances
<1>1. TypeOK /\ [Next]_vars => [Advances]_vars
  BY Zenon, StepFacts
<1>. QED
  BY <1>1, TypeCorrect, PTL DEF Spec, OnlyAdvances

-----------------------------------------------------------------------------
(* Which steps write queue rows, and how *)

LEMMA RowCases ==
  [Next]_vars =>
    \/ UNCHANGED row
    \/ \E h \in Handlers :
         \/ DeferTask(h) \/ DeferForSaturation(h) \/ FinalizeRetry(h)
         \/ FanoutDrop(h) \/ DeliverDrop(h) \/ RequeueForBreaker(h)
         \/ FanoutExpand(h)
    \/ \E w \in Workers :
         Claim(w) \/ ClaimLost(w) \/ ReleaseBatch(w) \/ FinalizeComplete(w)
    \/ \E i \in TaskIds : BecomeVisible(i) \/ Expire(i)
    \/ RescueStuck
    \/ \E m \in Msgs : Ingest(m) \/ \E e \in Endpoints : Resend(m, e)
<1>1. \A h \in Handlers :
        (\/ Start(h) \/ KeepLock(h) \/ WaitForLane(h) \/ LaneAcquired(h) \/ Send(h)
         \/ (\E ok \in BOOLEAN : Respond(h, ok))
         \/ EnqueueRecord(h) \/ EnqueueTimesOut(h) \/ Collect(h)) => UNCHANGED row
  BY Zenon DEF Start, KeepLock, WaitForLane, LaneAcquired, Send, Respond,
         EnqueueRecord, EnqueueTimesOut, Collect
<1>2. \A w \in Workers :
        Flush(w) \/ Shutdown(w) \/ Stopped(w) \/ Crash(w) \/ Restart(w) => UNCHANGED row
  BY Zenon DEF Flush, Shutdown, Stopped, Crash, Restart
<1>3. /\ \A m \in Msgs : AgeOut(m) => UNCHANGED row
      /\ \A e \in Endpoints : Deactivate(e) => UNCHANGED row
      /\ UNCHANGED vars => UNCHANGED row
  BY Zenon DEF AgeOut, Deactivate, vars
<1>. QED
  BY Zenon, <1>1, <1>2, <1>3 DEF Next, HandlerStep, WorkerStep, QueueStep, Environment

\* A handler writes the row it claimed, and lets go of the claim.
Settles(h) ==
  /\ hs[h].pc # "idle" /\ hs[h].task \in TaskIds
  /\ Frees({h})
  /\ \/ UNCHANGED row
     \/ Defers(hs[h].task) \/ Retries(hs[h].task) \/ Completes({hs[h].task})
  /\ UNCHANGED <<stored, attempts, deactivated, batch, mode, accepted, acked, lapse>>

LEMMA SettlingSteps ==
  ASSUME TypeOK, NEW h \in Handlers,
         \/ DeferTask(h) \/ DeferForSaturation(h) \/ FinalizeRetry(h)
         \/ FanoutDrop(h) \/ DeliverDrop(h) \/ RequeueForBreaker(h)
  PROVE  Settles(h)
<1>1. hs[h].pc # "idle"
  BY Zenon DEF DeferTask, DeferForSaturation, FinalizeRetry, FanoutDrop, DeliverDrop,
         RequeueForBreaker, Delivering, PastLane
<1>2. /\ row \in [TaskIds -> Row] /\ hs \in [Handlers -> Handler \cup {NoClaim}]
      /\ hs[h].task \in TaskIds
  BY Zenon, <1>1, ClaimFields DEF TypeOK
<1>3. Finish(h)
  BY Zenon DEF DeferTask, DeferForSaturation, FinalizeRetry, FanoutDrop, DeliverDrop,
         RequeueForBreaker, Drop
<1>4. UNCHANGED row \/ Defer(hs[h].task) \/ Retry(hs[h].task) \/ Complete({hs[h].task})
  BY Zenon DEF DeferTask, DeferForSaturation, FinalizeRetry, FanoutDrop, DeliverDrop,
         RequeueForBreaker, Drop
<1>5. UNCHANGED <<stored, attempts, deactivated, batch, mode, accepted, acked, lapse>>
  BY Zenon DEF DeferTask, DeferForSaturation, FinalizeRetry, FanoutDrop, DeliverDrop,
         RequeueForBreaker
<1>6. Frees({h})
  BY Zenon, <1>2, <1>3, FinishEffect
<1>7. UNCHANGED row \/ Defers(hs[h].task) \/ Retries(hs[h].task) \/ Completes({hs[h].task})
  BY Zenon, <1>2, <1>4, DeferEffect, RetryEffect, CompleteEffect
<1>. QED
  BY Zenon, <1>1, <1>2, <1>5, <1>6, <1>7 DEF Settles

\* The Claim statement: rows S are locked, and the claims H in memory (none when
\* its result is lost) each stand for one of them.
Takes(w, S, H) ==
  /\ S \subseteq TaskIds /\ H \subseteq Handlers
  /\ \A i \in S : Live(i) /\ row[i].lockedBy = None
  /\ \A i \in TaskIds : /\ row'[i].st = row[i].st /\ row'[i].attempt = row[i].attempt
                        /\ row'[i].expired = row[i].expired
                        /\ (i \in S => row'[i].lockedBy = w)
                        /\ (i \notin S => row'[i] = row[i])
  /\ \A h \in H : /\ hs[h].pc = "idle" /\ hs'[h].pc = "claimed" /\ hs'[h].worker = w
                  /\ hs'[h].task \in S /\ hs'[h].attempt = row[hs'[h].task].attempt
                  /\ \A g \in H : hs'[g].task = hs'[h].task => g = h
  /\ \A h \in Handlers \ H : hs'[h] = hs[h]
  /\ UNCHANGED <<stored, attempts, deactivated, mode, accepted, acked, lapse, dropped>>

LEMMA ClaimEffect ==
  ASSUME TypeOK, NEW w \in Workers, Claim(w) \/ ClaimLost(w)
  PROVE  \E S, H : Takes(w, S, H)
<1>a. row \in [TaskIds -> Row] /\ hs \in [Handlers -> Handler \cup {NoClaim}]
  BY Zenon DEF TypeOK
<1>1. CASE Claim(w)
  <2>. DEFINE Pairs(H, g) ==
            /\ \A a, b \in H : g[a] = g[b] => a = b
            /\ row' = Locked({g[h] : h \in H}, w)
            /\ hs' = [h \in Handlers |->
                        IF h \in H
                        THEN [pc |-> "claimed", worker |-> w, task |-> g[h],
                              attempt |-> row[g[h]].attempt, status |-> "failed"]
                        ELSE hs[h]]
  <2>0. PICK H \in SUBSET {h \in Handlers : hs[h].pc = "idle"} :
          \E g \in [H -> {i \in TaskIds : Claimable(i)}] : Pairs(H, g)
    BY Zenon, <1>1 DEF Claim
  <2>1. PICK g \in [H -> {i \in TaskIds : Claimable(i)}] : Pairs(H, g)
    BY Zenon, <2>0
  <2>. DEFINE S == {g[h] : h \in H}
  <2>2. \A i \in S : i \in TaskIds /\ Live(i) /\ row[i].lockedBy = None
    BY Zenon DEF Claimable
  <2>3. \A i \in TaskIds : /\ row'[i].st = row[i].st /\ row'[i].attempt = row[i].attempt
                           /\ row'[i].expired = row[i].expired
                           /\ (i \in S => row'[i].lockedBy = w)
                           /\ (i \notin S => row'[i] = row[i])
    BY <1>a, <2>1, <2>2, LockedStep
  <2>4. \A h \in H : /\ hs[h].pc = "idle" /\ hs'[h].pc = "claimed" /\ hs'[h].worker = w
                     /\ hs'[h].task = g[h] /\ hs'[h].attempt = row[g[h]].attempt
    BY Zenon, <2>1
  <2>5. \A h \in Handlers \ H : hs'[h] = hs[h]
    BY Zenon, <2>1
  <2>6. UNCHANGED <<stored, attempts, deactivated, mode, accepted, acked, lapse, dropped>>
    BY Zenon, <1>1 DEF Claim
  <2>7. \A h \in H : /\ hs'[h].task \in S
                     /\ \A k \in H : hs'[k].task = hs'[h].task => k = h
    BY <2>1, <2>4
  <2>8. Takes(w, S, H)
    BY <2>2, <2>3, <2>4, <2>5, <2>6, <2>7 DEF Takes
  <2>. QED
    BY Zenon, <2>8
<1>2. CASE ClaimLost(w)
  <2>1. PICK S \in SUBSET {i \in TaskIds : Claimable(i)} : row' = Locked(S, w)
    BY Zenon, <1>2 DEF ClaimLost
  <2>2. \A i \in S : i \in TaskIds /\ Live(i) /\ row[i].lockedBy = None
    BY Zenon DEF Claimable
  <2>3. \A i \in TaskIds : /\ row'[i].st = row[i].st /\ row'[i].attempt = row[i].attempt
                           /\ row'[i].expired = row[i].expired
                           /\ (i \in S => row'[i].lockedBy = w)
                           /\ (i \notin S => row'[i] = row[i])
    BY <1>a, <2>1, <2>2, LockedStep
  <2>4. UNCHANGED <<stored, attempts, deactivated, hs, mode, accepted, acked, lapse, dropped>>
    BY Zenon, <1>2 DEF ClaimLost
  <2>5. Takes(w, S, {})
    BY Zenon, <2>2, <2>3, <2>4 DEF Takes
  <2>. QED
    BY Zenon, <2>5
<1>. QED
  BY Zenon, <1>1, <1>2

\* A row comes into being.
Adds(i, r) ==
  /\ i \in TaskIds /\ row[i].st = "unborn" /\ row'[i] = r
  /\ \A j \in TaskIds : j # i => row'[j] = row[j]
  /\ UNCHANGED <<attempts, deactivated, hs, batch, mode, acked, lapse, dropped>>

LEMMA BirthEffect ==
  ASSUME TypeOK, NEW m \in Msgs
  PROVE  /\ Ingest(m) => \E i : Adds(i, NewRow("fanout", "scheduled", m, None))
         /\ \A e \in Endpoints :
              Resend(m, e) => \E i : Adds(i, NewRow("deliver", "manual", m, e))
BY DEF Ingest, Resend, Fresh, Adds, TypeOK

\* A fan-out row t is replaced by deliver rows F, g[i] being the endpoint of i.
Expands(h, F, g) ==
  LET t == hs[h].task IN
  /\ hs[h].pc = "running" /\ t \in TaskIds /\ row[t].kind = "fanout"
  /\ row[t].msg \in stored
  /\ F \subseteq TaskIds /\ \A i \in F : row[i].st = "unborn" /\ g[i] \in Subscribed[row[t].msg]
  /\ \A i, j \in F : g[i] = g[j] => i = j
  /\ \A e \in Subscribed[row[t].msg] \ deactivated : \E i \in F : g[i] = e
  /\ \A i \in F : row'[i] = NewRow("deliver", row[t].trig, row[t].msg, g[i])
  /\ \A i \in TaskIds \ F : IF i = t /\ Live(i) THEN row'[i] = Deleted(row[i])
                                               ELSE row'[i] = row[i]
  /\ dropped' = IF Live(t) THEN [dropped EXCEPT ![t] = "fanned_out"] ELSE dropped
  /\ Frees({h})
  /\ UNCHANGED <<stored, attempts, deactivated, batch, mode, accepted, acked, lapse>>

LEMMA ExpandEffect ==
  ASSUME TypeOK, NEW h \in Handlers, FanoutExpand(h)
  PROVE  \E F, g : Expands(h, F, g)
<1>. DEFINE t == hs[h].task
<1>1. hs[h].pc = "running" /\ t \in TaskIds /\ row[t].kind = "fanout" /\ row[t].msg \in stored
  BY Zenon, ClaimFields DEF FanoutExpand, TypeOK
<1>. DEFINE Routes(M, F, g) ==
        /\ \A i, j \in F : g[i] = g[j] => i = j
        /\ \A e \in M : \E i \in F : g[i] = e
        /\ row' = Expanded(t, F, g)
<1>0. PICK M \in Matches(row[t].msg), F \in SUBSET Fresh : \E g \in [F -> M] : Routes(M, F, g)
  BY Zenon DEF FanoutExpand
<1>2. PICK g \in [F -> M] : Routes(M, F, g)
  BY Zenon, <1>0
<1>3. /\ F \subseteq TaskIds
      /\ \A i \in F : row[i].st = "unborn" /\ g[i] \in Subscribed[row[t].msg]
      /\ \A e \in Subscribed[row[t].msg] \ deactivated : \E i \in F : g[i] = e
  BY Zenon, <1>2 DEF Fresh, Matches
<1>4. /\ \A i \in F : row'[i] = NewRow("deliver", row[t].trig, row[t].msg, g[i])
      /\ \A i \in TaskIds \ F : IF i = t /\ Live(i) THEN row'[i] = Deleted(row[i])
                                                   ELSE row'[i] = row[i]
  BY Zenon, <1>2, <1>3 DEF Expanded
<1>5. Frees({h})
  BY Zenon, FinishEffect DEF FanoutExpand, TypeOK
<1>6. /\ dropped' = IF Live(t) THEN [dropped EXCEPT ![t] = "fanned_out"] ELSE dropped
      /\ UNCHANGED <<stored, attempts, deactivated, batch, mode, accepted, acked, lapse>>
  BY Zenon DEF FanoutExpand
<1>7. Expands(h, F, g)
  BY Zenon, <1>1, <1>2, <1>3, <1>4, <1>5, <1>6 DEF Expands
<1>. QED
  BY Zenon, <1>7

LEMMA BatchEffect ==
  ASSUME TypeOK, NEW w \in Workers
  PROVE  /\ ReleaseBatch(w) =>
              /\ Frees(InPhase(w, "claimed"))
              /\ UNCHANGED row \/ Releases(batch[w])
         /\ FinalizeComplete(w) =>
              /\ Frees(InPhase(w, "copied"))
              /\ UNCHANGED row \/ Completes({hs[h].task : h \in InPhase(w, "copied")})
<1>1. row \in [TaskIds -> Row] /\ hs \in [Handlers -> Handler \cup {NoClaim}]
  BY Zenon DEF TypeOK
<1>2. ASSUME ReleaseBatch(w)
      PROVE  /\ Frees(InPhase(w, "claimed"))
             /\ UNCHANGED row \/ Releases(batch[w])
  <2>1. Forget(InPhase(w, "claimed")) /\ (UNCHANGED row \/ Release(batch[w]))
    BY Zenon, <1>2 DEF ReleaseBatch
  <2>. QED
    BY Zenon, <1>1, <2>1, ForgetEffect, ReleaseEffect
<1>3. ASSUME FinalizeComplete(w)
      PROVE  /\ Frees(InPhase(w, "copied"))
             /\ UNCHANGED row \/ Completes({hs[h].task : h \in InPhase(w, "copied")})
  <2>. DEFINE T == {hs[h].task : h \in InPhase(w, "copied")}
  <2>1. Forget(InPhase(w, "copied")) /\ (UNCHANGED row \/ Complete(T))
    BY Zenon, <1>3 DEF FinalizeComplete
  <2>. HIDE DEF T
  <2>2. Frees(InPhase(w, "copied")) /\ (UNCHANGED row \/ Completes(T))
    BY Zenon, <1>1, <2>1, ForgetEffect, CompleteEffect
  <2>. QED
    BY Zenon, <2>2 DEF T
<1>. QED
  BY Zenon, <1>2, <1>3

-----------------------------------------------------------------------------
(* Rows *)

LEMMA RowsStep ==
  ASSUME TypeOK, TypeOK', Advances, [Next]_vars, ClaimsConsistent
  PROVE  \A i \in TaskIds : RowOK(i)'
<1>a. /\ row \in [TaskIds -> Row] /\ row' \in [TaskIds -> Row]
      /\ accepted \subseteq accepted' /\ \A i \in TaskIds : RowOK(i)
  BY Zenon DEF TypeOK, Advances, ClaimsConsistent
<1>b. ASSUME NEW i \in TaskIds, row'[i] = row[i] PROVE RowOK(i)'
  BY Zenon, <1>a, <1>b DEF RowOK
\* A row that keeps its task, and is unlocked or deleted.
<1>c. ASSUME NEW i \in TaskIds, SameTask(row[i], row'[i]), row[i].st = "live",
             row'[i].st # "unborn", row'[i].lockedBy = None, row'[i].expired = FALSE
      PROVE  RowOK(i)'
  BY Zenon, <1>a, <1>c DEF RowOK, SameTask
\* A new row.
<1>d. ASSUME NEW i \in TaskIds, NEW k, NEW t, NEW m, NEW e,
             row'[i] = NewRow(k, t, m, e), m \in accepted',
             k = "fanout" => t = "scheduled"
      PROVE  RowOK(i)'
  <2>1. /\ row'[i].st = "live" /\ row'[i].kind = k /\ row'[i].trig = t /\ row'[i].msg = m
        /\ row'[i].lockedBy = None /\ row'[i].expired = FALSE
    BY <1>d DEF NewRow
  <2>. QED
    BY Zenon, <1>d, <2>1 DEF RowOK
\* A locked row whose lock, expiry or visibility changes.
<1>e. ASSUME NEW i \in TaskIds, SameTask(row[i], row'[i]), row[i].st = "live",
             row'[i].st = "live", row'[i].lockedBy # None \/ row'[i].expired = FALSE
      PROVE  RowOK(i)'
  BY Zenon, <1>a, <1>e DEF RowOK, SameTask
<1>f. \A i \in TaskIds : row[i].st # "unborn" => SameTask(row[i], row'[i])
  BY Zenon DEF Advances
<1>1. CASE UNCHANGED row
  BY Zenon, <1>1, <1>b
<1>2. ASSUME NEW h \in Handlers, Settles(h) PROVE \A i \in TaskIds : RowOK(i)'
  BY Zenon, <1>2, <1>b, <1>c DEF Settles, Defers, Retries, Completes, Live
<1>3. ASSUME NEW h \in Handlers, NEW F, NEW g, Expands(h, F, g)
      PROVE  \A i \in TaskIds : RowOK(i)'
  <2>. SUFFICES ASSUME NEW i \in TaskIds PROVE RowOK(i)'
    OBVIOUS
  <2>. DEFINE t == hs[h].task
  <2>1. CASE i \in F
    <3>1. /\ row'[i] = NewRow("deliver", row[t].trig, row[t].msg, g[i])
          /\ t \in TaskIds /\ hs[h].pc = "running"
      BY Zenon, <1>3, <2>1 DEF Expands
    <3>2. row[t].msg \in accepted
      BY Zenon, <3>1 DEF ClaimsConsistent, ClaimOK, RowOK
    <3>. QED
      BY <1>a, <1>d, <3>1, <3>2
  <2>2. CASE i \notin F /\ i = t /\ Live(i)
    <3>1. row'[i] = Deleted(row[i]) /\ row[i] \in Row
      BY Zenon, <1>3, <1>a, <2>2 DEF Expands
    <3>2. SameTask(row[i], row'[i]) /\ row'[i].st = "gone" /\ row'[i].lockedBy = None /\ row'[i].expired = FALSE
      BY Zenon, <3>1, DeletedRow
    <3>. QED
      BY Zenon, <1>c, <2>2, <3>2 DEF Live
  <2>3. CASE i \notin F /\ ~(i = t /\ Live(i))
    BY Zenon, <1>3, <1>b, <2>3 DEF Expands
  <2>. QED
    BY Zenon, <2>1, <2>2, <2>3
<1>4. ASSUME NEW w \in Workers, NEW S, NEW H, Takes(w, S, H) PROVE \A i \in TaskIds : RowOK(i)'
  <2>. SUFFICES ASSUME NEW i \in TaskIds PROVE RowOK(i)'
    OBVIOUS
  <2>1. CASE i \in S
    <3>1. /\ row[i].st = "live" /\ row'[i].st = "live"
          /\ row'[i].lockedBy = w /\ w # None
      BY ZenonT(30), <1>4, <2>1, DeliveryAssumption DEF Takes, Live
    <3>2. SameTask(row[i], row'[i])
      BY Zenon, <1>f, <3>1
    <3>. QED
      BY Zenon, <1>e, <3>1, <3>2
  <2>2. CASE i \notin S
    BY Zenon, <1>4, <1>b, <2>2 DEF Takes
  <2>. QED
    BY Zenon, <2>1, <2>2
<1>5. ASSUME NEW w \in Workers, ReleaseBatch(w) PROVE \A i \in TaskIds : RowOK(i)'
  <2>1. UNCHANGED row \/ Releases(batch[w])
    BY Zenon, <1>5, BatchEffect
  <2>. QED
    BY Zenon, <2>1, <1>b, <1>c DEF Releases, Live
<1>6. ASSUME NEW w \in Workers, FinalizeComplete(w) PROVE \A i \in TaskIds : RowOK(i)'
  <2>1. UNCHANGED row \/ \E T : Completes(T)
    BY Zenon, <1>6, BatchEffect
  <2>. QED
    BY Zenon, <2>1, <1>b, <1>c DEF Completes, Live
<1>7. ASSUME NEW i \in TaskIds, BecomeVisible(i) \/ Expire(i) PROVE \A j \in TaskIds : RowOK(j)'
  <2>1. \A j \in TaskIds : j # i => row'[j] = row[j]
    BY Zenon, <1>7, <1>a DEF BecomeVisible, Expire
  <2>2. row[i].st = "live" /\ row'[i].st = "live"
    BY Zenon, <1>7, <1>a, FlagRow DEF BecomeVisible, Expire, Live
  <2>3. row'[i].lockedBy # None \/ row'[i].expired = FALSE
    BY <1>7, <1>a DEF BecomeVisible, Expire, RowOK, Row
  <2>. QED
    BY Zenon, <1>b, <1>e, <1>f, <2>1, <2>2, <2>3
<1>8. CASE RescueStuck
  <2>. SUFFICES ASSUME NEW i \in TaskIds PROVE RowOK(i)'
    OBVIOUS
  <2>1. row'[i] = row[i] \/ (row[i].st = "live" /\ row'[i] = Unlocked(row[i]))
    BY Zenon, <1>8 DEF RescueStuck, Live
  <2>2. CASE row[i].st = "live" /\ row'[i] = Unlocked(row[i])
    <3>0. row[i] \in Row
      BY Zenon, <1>a
    <3>a. /\ SameTask(row[i], Unlocked(row[i])) /\ Unlocked(row[i]).st = row[i].st
          /\ Unlocked(row[i]).lockedBy = None /\ Unlocked(row[i]).expired = FALSE
      BY Zenon, <3>0, UnlockedRow
    <3>1. SameTask(row[i], row'[i]) /\ row'[i].st = "live" /\ row'[i].lockedBy = None /\ row'[i].expired = FALSE
      BY Zenon, <2>2, <3>a
    <3>. QED
      BY Zenon, <1>c, <2>2, <3>1
  <2>. QED
    BY Zenon, <1>b, <2>1, <2>2
<1>9. ASSUME NEW m \in Msgs, Ingest(m) PROVE \A i \in TaskIds : RowOK(i)'
  <2>1. PICK i : Adds(i, NewRow("fanout", "scheduled", m, None))
    BY Zenon, <1>9, BirthEffect
  <2>2. m \in accepted'
    BY Zenon, <1>9 DEF Ingest
  <2>. QED
    BY Zenon, <1>b, <1>d, <2>1, <2>2 DEF Adds
<1>10. ASSUME NEW m \in Msgs, NEW e \in Endpoints, Resend(m, e) PROVE \A i \in TaskIds : RowOK(i)'
  <2>1. PICK i : Adds(i, NewRow("deliver", "manual", m, e))
    BY Zenon, <1>10, BirthEffect
  <2>2. m \in accepted'
    BY Zenon, <1>10 DEF Resend
  <2>. QED
    BY <1>b, <1>d, <2>1, <2>2 DEF Adds
<1>. QED
  BY Zenon, <1>1, <1>2, <1>3, <1>4, <1>5, <1>6, <1>7, <1>8, <1>9, <1>10,
     RowCases, SettlingSteps, ExpandEffect, ClaimEffect

-----------------------------------------------------------------------------
(* Claims *)

\* What a claim knows of its row stays true as long as it is the same claim.
LEMMA ClaimCarried ==
  ASSUME TypeOK, TypeOK', Advances, NEW h \in Handlers, hs[h].pc # "idle",
         ClaimOK(h), SameClaim(hs[h], hs'[h])
  PROVE  /\ hs[h].task \in TaskIds /\ row'[hs[h].task].st # "unborn"
         /\ hs'[h].task = hs[h].task
         /\ hs'[h].attempt = hs[h].attempt /\ hs'[h].attempt <= row'[hs[h].task].attempt
         /\ SameTask(row[hs[h].task], row'[hs[h].task])
         /\ acked \subseteq acked' /\ attempts \subseteq attempts'
<1>. DEFINE i == hs[h].task
<1>1. i \in TaskIds /\ hs[h].attempt \in Nat
  BY Zenon, ClaimFields DEF TypeOK
<1>2. row[i].st # "unborn" /\ hs[h].attempt <= row[i].attempt
  BY Zenon DEF ClaimOK
<1>3. /\ row'[i].st # "unborn" /\ SameTask(row[i], row'[i]) /\ row[i].attempt <= row'[i].attempt
      /\ acked \subseteq acked' /\ attempts \subseteq attempts'
  BY Zenon, <1>1, <1>2 DEF Advances
<1>4. row[i].attempt \in Nat /\ row'[i].attempt \in Nat
  BY Zenon, <1>1, Attempts DEF TypeOK
<1>. QED
  BY <1>1, <1>2, <1>3, <1>4 DEF SameClaim

LEMMA ClaimKept ==
  ASSUME TypeOK, TypeOK', Advances, NEW h \in Handlers, ClaimOK(h),
         hs'[h] = hs[h] \/ hs'[h] = NoClaim
  PROVE  ClaimOK(h)'
<1>1. CASE hs'[h].pc = "idle"
  BY Zenon, <1>1 DEF ClaimOK
<1>2. CASE hs'[h].pc # "idle"
  <2>1. hs'[h] = hs[h] /\ hs[h].pc # "idle"
    BY Zenon, <1>2, NoClaimFacts
  <2>2. SameClaim(hs[h], hs'[h])
    BY Zenon, <2>1 DEF SameClaim
  <2>3. /\ row'[hs[h].task].st # "unborn" /\ hs'[h].attempt <= row'[hs[h].task].attempt
        /\ SameTask(row[hs[h].task], row'[hs[h].task])
        /\ acked \subseteq acked' /\ attempts \subseteq attempts'
    BY Zenon, <2>1, <2>2, ClaimCarried
  <2>. QED
    BY Zenon, <2>1, <2>3 DEF ClaimOK, SameTask, AttemptOf
<1>. QED
  BY Zenon, <1>1, <1>2

\* A claim moves to a later phase that asks no more of its row than the last.
LEMMA ClaimMoved ==
  ASSUME TypeOK, TypeOK', Advances, NEW h \in Handlers, NEW ph, hs[h].pc # "idle", ClaimOK(h),
         SameClaim(hs[h], hs'[h]), hs'[h].status = hs[h].status, hs'[h].pc = ph,
         ph \in DeliverPhase => row[hs[h].task].kind = "deliver",
         ph \in OutcomePhase => hs[h].pc \in OutcomePhase,
         ph = "copied" => AttemptOf(h) \in attempts'
  PROVE  ClaimOK(h)'
<1>1. /\ row'[hs[h].task].st # "unborn" /\ hs'[h].attempt <= row'[hs[h].task].attempt
      /\ SameTask(row[hs[h].task], row'[hs[h].task])
      /\ hs'[h].task = hs[h].task /\ hs'[h].attempt = hs[h].attempt
      /\ acked \subseteq acked' /\ attempts \subseteq attempts'
  BY Zenon, ClaimCarried
<1>. QED
  BY Zenon, <1>1 DEF ClaimOK, SameTask, AttemptOf, Exhausted

LEMMA StatusFacts ==
  ASSUME NEW ok \in BOOLEAN, NEW trig \in Trigger, NEW n
  PROVE  /\ StatusOf(ok, trig, n) = "succeeded" => ok
         /\ StatusOf(ok, trig, n) = "failed" => trig = "manual" \/ Exhausted(n)
         /\ StatusOf(ok, trig, n) = "pending_retry" => trig = "scheduled" /\ ~Exhausted(n)
BY Zenon DEF StatusOf, Trigger

\* The steps that change a claim other than by ending it.
LEMMA HandlerCases ==
  ASSUME TypeOK, [Next]_vars
  PROVE  \/ \A h \in Handlers : hs'[h] = hs[h] \/ hs'[h] = NoClaim
         \/ \E h \in Handlers : \/ Start(h) \/ WaitForLane(h) \/ LaneAcquired(h)
                                \/ Send(h) \/ EnqueueRecord(h) \/ Collect(h)
         \/ \E h \in Handlers, ok \in BOOLEAN : Respond(h, ok)
         \/ \E w \in Workers : Claim(w) \/ Flush(w)
<1>. DEFINE Keeps == \A h \in Handlers : hs'[h] = hs[h] \/ hs'[h] = NoClaim
<1>a. hs \in [Handlers -> Handler \cup {NoClaim}]
  BY Zenon DEF TypeOK
<1>1. /\ UNCHANGED hs => Keeps
      /\ \A S : Forget(S) => Keeps
      /\ \A h \in Handlers : Finish(h) => Keeps
  BY Zenon, <1>a DEF Forget, Finish
<1>2. \A h \in Handlers :
        (\/ KeepLock(h) \/ DeferTask(h) \/ FanoutDrop(h) \/ FanoutExpand(h)
         \/ DeferForSaturation(h) \/ DeliverDrop(h) \/ RequeueForBreaker(h)
         \/ EnqueueTimesOut(h) \/ FinalizeRetry(h)) => Finish(h)
  BY Zenon DEF KeepLock, DeferTask, FanoutDrop, FanoutExpand, DeferForSaturation,
         DeliverDrop, RequeueForBreaker, EnqueueTimesOut, FinalizeRetry, Drop
<1>3. \A w \in Workers :
        (ReleaseBatch(w) \/ FinalizeComplete(w) \/ Crash(w)) => \E S : Forget(S)
  BY Zenon DEF ReleaseBatch, FinalizeComplete, Crash
<1>4. /\ \A w \in Workers : (ClaimLost(w) \/ Shutdown(w) \/ Stopped(w) \/ Restart(w)) => UNCHANGED hs
      /\ \A i \in TaskIds : BecomeVisible(i) \/ Expire(i) => UNCHANGED hs
      /\ \A m \in Msgs : Ingest(m) \/ AgeOut(m) => UNCHANGED hs
      /\ \A m \in Msgs, e \in Endpoints : Resend(m, e) => UNCHANGED hs
      /\ \A e \in Endpoints : Deactivate(e) => UNCHANGED hs
      /\ RescueStuck \/ UNCHANGED vars => UNCHANGED hs
  BY Zenon DEF ClaimLost, Shutdown, Stopped, Restart, BecomeVisible, Expire, Ingest, AgeOut,
         Resend, Deactivate, RescueStuck, vars
<1>. HIDE DEF Keeps
<1>5. \/ Keeps
      \/ \E h \in Handlers : \/ Start(h) \/ WaitForLane(h) \/ LaneAcquired(h)
                             \/ Send(h) \/ EnqueueRecord(h) \/ Collect(h)
      \/ \E h \in Handlers, ok \in BOOLEAN : Respond(h, ok)
      \/ \E w \in Workers : Claim(w) \/ Flush(w)
  BY Zenon, <1>1, <1>2, <1>3, <1>4 DEF Next, HandlerStep, WorkerStep, QueueStep, Environment
<1>. QED
  BY Zenon, <1>5 DEF Keeps

LEMMA ClaimsStep ==
  ASSUME TypeOK, TypeOK', Advances, [Next]_vars, ClaimsConsistent
  PROVE  \A h \in Handlers : ClaimOK(h)'
<1>a. /\ row \in [TaskIds -> Row] /\ hs \in [Handlers -> Handler \cup {NoClaim}]
      /\ \A h \in Handlers : ClaimOK(h)
  BY Zenon DEF TypeOK, ClaimsConsistent
<1>b. \A h \in Handlers : (hs'[h] = hs[h] \/ hs'[h] = NoClaim) => ClaimOK(h)'
  BY Zenon, <1>a, ClaimKept
<1>1. ASSUME NEW h \in Handlers,
             \/ Start(h) \/ WaitForLane(h) \/ LaneAcquired(h)
             \/ Send(h) \/ EnqueueRecord(h) \/ Collect(h)
      PROVE  \A g \in Handlers : ClaimOK(g)'
  <2>. DEFINE Fits(ph) == /\ hs[h].pc # "idle" /\ Goto(h, ph) /\ ph \in Phase /\ ph # "copied"
                          /\ (ph \in DeliverPhase => row[hs[h].task].kind = "deliver")
                          /\ (ph \in OutcomePhase => hs[h].pc \in OutcomePhase)
  <2>1. \E ph : Fits(ph)
    <3>a. ClaimOK(h)
      BY Zenon, <1>a
    <3>1. CASE Start(h)
      <4>1. Fits("running")
        BY Zenon, <3>1 DEF Start, Phase, DeliverPhase, OutcomePhase
      <4>. QED
        BY Zenon, <4>1
    <3>2. CASE WaitForLane(h)
      <4>1. Fits("waiting")
        BY Zenon, <3>2 DEF WaitForLane, Delivering, Phase, DeliverPhase, OutcomePhase
      <4>. QED
        BY Zenon, <4>1
    <3>3. CASE LaneAcquired(h)
      <4>1. Fits("admitted")
        BY Zenon, <3>a, <3>3 DEF LaneAcquired, ClaimOK, Phase, DeliverPhase, OutcomePhase
      <4>. QED
        BY Zenon, <4>1
    <3>4. CASE Send(h)
      <4>1. Fits("sent")
        BY Zenon, <3>a, <3>4 DEF Send, PastLane, Delivering, ClaimOK, Phase, DeliverPhase, OutcomePhase
      <4>. QED
        BY Zenon, <4>1
    <3>5. CASE EnqueueRecord(h)
      <4>1. Fits("buffered")
        BY Zenon, <3>a, <3>5 DEF EnqueueRecord, ClaimOK, Phase, DeliverPhase, OutcomePhase
      <4>. QED
        BY Zenon, <4>1
    <3>6. CASE Collect(h)
      <4>1. Fits("batched")
        BY Zenon, <3>a, <3>6 DEF Collect, ClaimOK, Phase, DeliverPhase, OutcomePhase
      <4>. QED
        BY Zenon, <4>1
    <3>. QED
      BY Zenon, <1>1, <3>1, <3>2, <3>3, <3>4, <3>5, <3>6
  <2>2. PICK ph : Fits(ph)
    BY Zenon, <2>1
  <2>3. Moves(h, ph)
    BY Zenon, <1>a, <2>2, GotoEffect
  <2>4. ClaimOK(h)'
    <3>1. /\ SameClaim(hs[h], hs'[h]) /\ hs'[h].status = hs[h].status /\ hs'[h].pc = ph
      BY Zenon, <2>3 DEF Moves
    <3>. QED
      BY Zenon, <1>a, <2>2, <3>1, ClaimMoved
  <2>. QED
    BY Zenon, <1>b, <2>3, <2>4 DEF Moves
<1>2. ASSUME NEW h \in Handlers, NEW ok \in BOOLEAN, Respond(h, ok)
      PROVE  \A g \in Handlers : ClaimOK(g)'
  <2>. DEFINE i == hs[h].task
  <2>1. hs[h].pc = "sent" /\ i \in TaskIds /\ hs[h] \in Handler /\ row[i].trig \in Trigger
    BY Zenon, <1>2, <1>a, ClaimFields DEF Respond, Row
  <2>2. row[i].kind = "deliver"
    BY Zenon, <1>a, <2>1 DEF ClaimOK, DeliverPhase
  <2>3. /\ hs'[h].pc = "recording" /\ SameClaim(hs[h], hs'[h])
        /\ hs'[h].status = StatusOf(ok, row[i].trig, hs[h].attempt)
        /\ \A g \in Handlers : g # h => hs'[g] = hs[g]
    BY Zenon, <1>2, <1>a, <2>1 DEF Respond, SameClaim, Handler
  <2>4. ok => i \in acked'
    BY Zenon, <1>2 DEF Respond
  <2>5. /\ row'[i].st # "unborn" /\ hs'[h].attempt <= row'[i].attempt
        /\ SameTask(row[i], row'[i]) /\ hs'[h].task = i /\ hs'[h].attempt = hs[h].attempt
    BY Zenon, <1>a, <2>1, <2>3, ClaimCarried
  <2>6. /\ hs'[h].status = "succeeded" => ok
        /\ hs'[h].status = "failed" => row[i].trig = "manual" \/ Exhausted(hs[h].attempt)
        /\ hs'[h].status = "pending_retry" => row[i].trig = "scheduled" /\ ~Exhausted(hs[h].attempt)
    BY Zenon, <2>1, <2>3, StatusFacts
  <2>7. ClaimOK(h)'
    BY Zenon, <2>2, <2>3, <2>4, <2>5, <2>6 DEF ClaimOK, SameTask, Exhausted, DeliverPhase, OutcomePhase
  <2>. QED
    BY Zenon, <1>b, <2>3, <2>7
<1>3. ASSUME NEW w \in Workers, Claim(w) PROVE \A g \in Handlers : ClaimOK(g)'
  <2>1. PICK S, H : Takes(w, S, H)
    BY Zenon, <1>3, ClaimEffect
  <2>2. ASSUME NEW g \in H PROVE ClaimOK(g)'
    <3>1. /\ hs'[g].pc = "claimed" /\ hs'[g].task \in S /\ S \subseteq TaskIds
          /\ hs'[g].attempt = row[hs'[g].task].attempt
      BY Zenon, <2>1 DEF Takes
    <3>2. /\ row'[hs'[g].task].st = "live"
          /\ row'[hs'[g].task].attempt = row[hs'[g].task].attempt
      BY ZenonT(30), <2>1, <3>1 DEF Takes, Live
    <3>3. row[hs'[g].task].attempt \in Nat
      BY Zenon, <1>a, <3>1, Attempts
    <3>. QED
      BY <3>1, <3>2, <3>3 DEF ClaimOK, DeliverPhase, OutcomePhase
  <2>. QED
    BY Zenon, <1>b, <2>1, <2>2 DEF Takes
<1>4. ASSUME NEW w \in Workers, Flush(w) PROVE \A g \in Handlers : ClaimOK(g)'
  <2>. DEFINE B == InPhase(w, "batched")
  <2>1. CASE Forget(B)
    BY Zenon, <2>1, <1>b DEF Forget
  <2>2. CASE /\ attempts' = attempts \cup {AttemptOf(h) : h \in B}
             /\ hs' = [h \in Handlers |->
                         IF h \in B THEN [hs[h] EXCEPT !.pc = "copied"] ELSE hs[h]]
    <3>1. ASSUME NEW g \in Handlers, g \in B PROVE ClaimOK(g)'
      <4>1. hs[g].pc = "batched" /\ hs[g] \in Handler
        BY Zenon, <3>1, <1>a, ClaimFields DEF InPhase
      <4>2. /\ hs'[g].pc = "copied" /\ SameClaim(hs[g], hs'[g]) /\ hs'[g].status = hs[g].status
        BY Zenon, <2>2, <3>1, <4>1 DEF SameClaim, Handler
      <4>3. AttemptOf(g) \in attempts'
        BY Zenon, <2>2, <3>1
      <4>4. row[hs[g].task].kind = "deliver"
        BY Zenon, <1>a, <4>1 DEF ClaimOK, DeliverPhase
      <4>5. hs[g].pc \in OutcomePhase /\ hs[g].pc # "idle"
        BY Zenon, <4>1 DEF OutcomePhase
      <4>. QED
        BY Zenon, <1>a, <4>2, <4>3, <4>4, <4>5, ClaimMoved
    <3>. QED
      BY Zenon, <2>2, <1>b, <3>1
  <2>. QED
    BY Zenon, <1>4, <2>1, <2>2 DEF Flush
<1>. QED
  BY Zenon, <1>b, <1>1, <1>2, <1>3, <1>4, HandlerCases

=============================================================================
