--------------------------- MODULE TimingProofs -------------------------------
(* The times of a delivery: within one attempt (TaskBudget), for any tasks,      *)
(* timeouts and limits, and between attempts (RetryPolicy), for any schedule,    *)
(* floor and Retry-After headers.                                                *)
EXTENDS TaskBudget, Sequences, FiniteSetTheorems, TLAPS

(* A handler that waits has a deadline ahead of it, and none beyond the one of   *)
(* its task's context.                                                           *)
WithinContext ==
  \A t \in Tasks : task[t].at \in Active =>
    now <= task[t].until /\ task[t].until <= task[t].started + RequestTimeout + Slack

BudgetInv == TypeOK /\ WithinContext

USE DEF Holding, Active

(* What a handler's deadline can be: context.WithTimeout never passes the        *)
(* task's own deadline, and is not in the past while that is not.                *)
LEMMA DeadlineStaysWithin ==
  ASSUME BudgetInv, NEW t \in Tasks, task[t].at \in Active, NEW d \in Nat
  PROVE  /\ WithTimeout(t, d) \in Nat /\ Deadline(t) \in Nat
         /\ now <= WithTimeout(t, d) /\ WithTimeout(t, d) <= Deadline(t) /\ now <= Deadline(t)
<1>1. /\ now \in Nat /\ task[t].started \in Nat /\ task[t].until \in Nat
  BY DEF BudgetInv, TypeOK
<1>2. now <= task[t].until /\ task[t].until <= task[t].started + RequestTimeout + Slack
  BY DEF BudgetInv, WithinContext
<1>3. RequestTimeout \in Nat /\ Slack \in Nat
  BY BudgetAssumption
<1> QED
  BY <1>1, <1>2, <1>3 DEF WithTimeout, Deadline

(* A handler that moves on with a deadline within its context keeps the          *)
(* invariant (every step of handleDeliver).                                      *)
LEMMA GotoKeeps ==
  ASSUME BudgetInv, NEW t \in Tasks, NEW at \in {"queued", "claimed", "done"} \cup Active, NEW u \in Nat,
         at \in Active => now <= u /\ u <= Deadline(t),
         Goto(t, at, u), UNCHANGED now
  PROVE  BudgetInv'
<1>1. TypeOK'
  BY Zenon DEF BudgetInv, TypeOK, Goto
<1>2. ASSUME NEW s \in Tasks, task'[s].at \in Active
      PROVE  now' <= task'[s].until /\ task'[s].until <= task'[s].started + RequestTimeout + Slack
  <2>1. CASE s = t
    BY <1>2, <2>1 DEF BudgetInv, TypeOK, Goto, Deadline
  <2>2. CASE s # t
    BY <1>2, <2>2 DEF BudgetInv, TypeOK, WithinContext, Goto
  <2> QED
    BY <2>1, <2>2
<1> QED
  BY <1>1, <1>2 DEF BudgetInv, WithinContext

(* The clock does not pass a deadline that a handler waits on. *)
LEMMA TickKeeps == BudgetInv /\ Tick => BudgetInv'
<1> SUFFICES ASSUME BudgetInv, Tick PROVE BudgetInv'
  OBVIOUS
<1>1. TypeOK'
  BY DEF BudgetInv, TypeOK, Tick
<1>2. ASSUME NEW t \in Tasks, task'[t].at \in Active
      PROVE  now' <= task'[t].until /\ task'[t].until <= task'[t].started + RequestTimeout + Slack
  BY <1>2 DEF BudgetInv, TypeOK, WithinContext, Tick
<1> QED
  BY <1>1, <1>2 DEF BudgetInv, WithinContext

(* A claim starts no handler. *)
LEMMA ClaimKeeps == BudgetInv /\ Claim => BudgetInv'
<1> SUFFICES ASSUME BudgetInv, Claim PROVE BudgetInv'
  OBVIOUS
<1>1. PICK B \in SUBSET {t \in Tasks : task[t].at = "queued"} :
        task' = [t \in Tasks |-> IF t \in B THEN [task[t] EXCEPT !.at = "claimed", !.claimed = now] ELSE task[t]]
  BY Zenon DEF Claim
<1>2. now' = now
  BY Zenon DEF Claim
<1>3. TypeOK'
  BY <1>1, <1>2, Zenon DEF BudgetInv, TypeOK
<1>4. ASSUME NEW t \in Tasks, task'[t].at \in Active
      PROVE  task'[t] = task[t]
  BY <1>1, <1>4, Zenon DEF BudgetInv, TypeOK
<1> QED
  BY <1>2, <1>3, <1>4 DEF BudgetInv, WithinContext

(* Every step of a handler keeps it within its context. *)
LEMMA StepKeeps ==
  ASSUME BudgetInv, NEW t \in Tasks, Step(t)
  PROVE  BudgetInv'
<1>0. /\ RequestTimeout \in Nat /\ Slack \in Nat /\ LaneWaitTimeout \in Nat
      /\ now \in Nat
  BY BudgetAssumption DEF BudgetInv, TypeOK
<1>1. CASE Dispatch(t)
  <2>1. TypeOK'
    <3>1. now' = now /\ now + RequestTimeout + Slack \in Nat
      BY <1>0, <1>1 DEF Dispatch
    <3> DEFINE T == [at: {"queued", "claimed", "done"} \cup Active, claimed: Nat, started: Nat, until: Nat]
    <3>2. task \in [Tasks -> T] /\ task[t] \in T
      BY DEF BudgetInv, TypeOK
    <3> DEFINE r == [task[t] EXCEPT !.at = "run", !.started = now, !.until = now + RequestTimeout + Slack]
    <3>3. r \in T
      BY <1>0, <3>1, <3>2, Zenon
    <3>4. task' = [task EXCEPT ![t] = r]
      BY <1>1, <3>2, Zenon DEF Dispatch
    <3>5. task' \in [Tasks -> T]
      <4> HIDE DEF T, r
      <4> QED
        BY <3>2, <3>3, <3>4
    <3> QED
      BY <1>0, <3>1, <3>5 DEF TypeOK
  <2>2. ASSUME NEW s \in Tasks, task'[s].at \in Active
        PROVE  now' <= task'[s].until /\ task'[s].until <= task'[s].started + RequestTimeout + Slack
    BY <1>0, <1>1, <2>2 DEF BudgetInv, TypeOK, WithinContext, Dispatch
  <2> QED
    BY <2>1, <2>2 DEF BudgetInv, WithinContext
<1>2. CASE LaneFull(t)
  <2>1. task[t].at \in Active
    BY <1>2 DEF LaneFull
  <2> QED
    BY <1>0, <1>2, <2>1, DeadlineStaysWithin, GotoKeeps DEF LaneFull
<1>3. CASE LaneAcquired(t)
  <2>1. task[t].at \in Active
    BY <1>3 DEF LaneAcquired
  <2> QED
    BY <1>0, <1>3, <2>1, DeadlineStaysWithin, GotoKeeps DEF LaneAcquired
<1>4. CASE SlotAgain(t)
  <2>1. task[t].at \in Active
    BY <1>4 DEF SlotAgain
  <2> QED
    BY <1>0, <1>4, <2>1, DeadlineStaysWithin, GotoKeeps DEF SlotAgain
<1>5. CASE Leave(t)
  BY <1>5, GotoKeeps DEF Leave
<1>6. CASE Send(t)
  <2>1. task[t].at \in Active
    BY <1>6 DEF Send
  <2> QED
    BY <1>0, <1>6, <2>1, DeadlineStaysWithin, GotoKeeps DEF Send
<1>7. CASE Deliver(t)
  <2>1. task[t].at \in Active
    BY <1>7 DEF Deliver
  <2> QED
    BY <1>0, <1>7, <2>1, DeadlineStaysWithin, GotoKeeps DEF Deliver
<1>8. CASE recordAttempt(t)
  BY <1>8, GotoKeeps DEF recordAttempt
<1> QED
  BY <1>1, <1>2, <1>3, <1>4, <1>5, <1>6, <1>7, <1>8 DEF Step

(* Within its context a handler can outlast its lock only when it started late. *)
LEMMA ContextBoundsOverrun == BudgetInv => OverrunNeedsAWait
<1> SUFFICES ASSUME BudgetInv, NEW t \in Tasks, task[t].at \in Active, now > task[t].claimed + LockTTL
             PROVE  task[t].started - task[t].claimed > LockTTL - (RequestTimeout + Slack)
  BY DEF OverrunNeedsAWait
<1>1. now \in Nat /\ task[t].started \in Nat /\ task[t].until \in Nat /\ task[t].claimed \in Nat
  BY DEF BudgetInv, TypeOK
<1>2. now <= task[t].until /\ task[t].until <= task[t].started + RequestTimeout + Slack
  BY DEF BudgetInv, WithinContext
<1>3. RequestTimeout \in Nat /\ Slack \in Nat /\ TaskLockTTL \in Nat
  BY BudgetAssumption
<1> QED
  BY <1>1, <1>2, <1>3 DEF LockTTL

(* For every timeout, lock, lane wait, limit and number of tasks: a handler is   *)
(* at work past its claim's lock only if the task waited for its first slot      *)
(* longer than the lock exceeds the task's context.                              *)
THEOREM OverrunOnlyAfterAWait == Spec => [](TypeOK /\ OverrunNeedsAWait)
<1>1. Init => BudgetInv
  BY DEF Init, Fresh, BudgetInv, TypeOK, WithinContext
<1>2. BudgetInv /\ [Next]_vars => BudgetInv'
  <2> SUFFICES ASSUME BudgetInv, [Next]_vars PROVE BudgetInv'
    OBVIOUS
  <2>1. CASE Tick
    BY <2>1, TickKeeps
  <2>2. CASE Claim
    BY <2>2, ClaimKeeps
  <2>3. CASE \E t \in Tasks : Step(t)
    BY <2>3, StepKeeps
  <2>4. CASE UNCHANGED vars
    BY <2>4 DEF vars, BudgetInv, TypeOK, WithinContext
  <2> QED
    BY <2>1, <2>2, <2>3, <2>4 DEF Next
<1>3. BudgetInv => TypeOK /\ OverrunNeedsAWait
  BY ContextBoundsOverrun DEF BudgetInv
<1> QED
  BY <1>1, <1>2, <1>3, PTL DEF Spec

(* The slots in use stay a finite set, and one step adds at most the handler     *)
(* that takes it.                                                                *)
LEMMA HeldIsFinite == IsFiniteSet(held) /\ Cardinality(held) \in Nat
<1>1. held \subseteq Tasks
  BY DEF held
<1>2. IsFiniteSet(held)
  BY <1>1, TasksFinite, FS_Subset
<1> QED
  BY <1>2, FS_CardinalityType

(* A step after which nobody new holds a slot keeps the bound. *)
LEMMA FewerKeepsBound ==
  ASSUME InflightIsBounded, held' \subseteq held
  PROVE  InflightIsBounded'
<1>1. IsFiniteSet(held) /\ Cardinality(held) \in Nat
  BY HeldIsFinite
<1>2. IsFiniteSet(held') /\ Cardinality(held') <= Cardinality(held)
  BY <1>1, FS_Subset
<1>3. Cardinality(held') \in Nat
  BY <1>2, FS_CardinalityType
<1>4. MaxInflight \in Nat
  BY BudgetAssumption
<1> QED
  BY <1>1, <1>2, <1>3, <1>4 DEF InflightIsBounded

(* A handler that takes a free slot keeps the bound (inflightSlot.acquire). *)
LEMMA AcquireKeepsBound ==
  ASSUME InflightIsBounded, NEW t \in Tasks, SlotFree, held' \subseteq held \cup {t}
  PROVE  InflightIsBounded'
<1>1. IsFiniteSet(held) /\ Cardinality(held) \in Nat
  BY HeldIsFinite
<1>2. /\ IsFiniteSet(held \cup {t}) /\ Cardinality(held \cup {t}) \in Nat
      /\ Cardinality(held \cup {t}) <= Cardinality(held) + 1
  <2>1. IsFiniteSet(held \cup {t})
    BY <1>1, FS_AddElement
  <2>2. Cardinality(held \cup {t}) = IF t \in held THEN Cardinality(held) ELSE Cardinality(held) + 1
    BY <1>1, FS_AddElement
  <2> QED
    BY <1>1, <2>1, <2>2
<1>3. IsFiniteSet(held') /\ Cardinality(held') <= Cardinality(held \cup {t})
  BY <1>2, FS_Subset
<1>4. Cardinality(held') \in Nat
  BY <1>3, FS_CardinalityType
<1>5. MaxInflight \in Nat
  BY BudgetAssumption
<1> QED
  BY <1>1, <1>2, <1>3, <1>4, <1>5 DEF InflightIsBounded, SlotFree

(* A handler that already holds its slot, or gives it back, adds nobody. *)
LEMMA GotoHolds ==
  ASSUME TypeOK, NEW t \in Tasks, NEW at, NEW u, Goto(t, at, u),
         at \in Holding => task[t].at \in Holding
  PROVE  held' \subseteq held
BY DEF TypeOK, Goto, held

(* No more than MaxInflight handlers hold a slot, for every number of tasks and  *)
(* every limit, although waiters give theirs back and take it again.             *)
THEOREM SlotsStayBounded == Spec => []InflightIsBounded
<1>1. Init => InflightIsBounded
  <2> SUFFICES ASSUME Init PROVE InflightIsBounded
    OBVIOUS
  <2>1. held = {}
    BY DEF Init, Fresh, held
  <2>2. Cardinality(held) = 0
    BY <2>1, FS_EmptySet
  <2> QED
    BY <2>2, BudgetAssumption DEF InflightIsBounded
<1>2. TypeOK /\ InflightIsBounded /\ [Next]_vars => InflightIsBounded'
  <2> SUFFICES ASSUME TypeOK, InflightIsBounded, [Next]_vars PROVE InflightIsBounded'
    OBVIOUS
  <2>1. CASE Tick
    <3>1. held' = held
      BY <2>1 DEF Tick, held
    <3> QED
      BY <3>1, FewerKeepsBound
  <2>2. CASE Claim
    <3>1. PICK B \in SUBSET {t \in Tasks : task[t].at = "queued"} :
            task' = [t \in Tasks |-> IF t \in B THEN [task[t] EXCEPT !.at = "claimed", !.claimed = now] ELSE task[t]]
      BY <2>2, Zenon DEF Claim
    <3>2. held' \subseteq held
      BY <3>1, Zenon DEF TypeOK, held
    <3> QED
      BY <3>2, FewerKeepsBound
  <2>3. ASSUME NEW t \in Tasks, Dispatch(t) \/ SlotAgain(t) PROVE InflightIsBounded'
    <3>1. SlotFree
      BY <2>3 DEF Dispatch, SlotAgain
    <3>2. held' \subseteq held \cup {t}
      BY <2>3 DEF TypeOK, Dispatch, SlotAgain, Goto, held
    <3> QED
      BY <3>1, <3>2, AcquireKeepsBound
  <2>4. ASSUME NEW t \in Tasks, LaneFull(t) \/ LaneAcquired(t) \/ Leave(t) \/ Send(t) \/ Deliver(t) \/ recordAttempt(t)
        PROVE  InflightIsBounded'
    <3>1. held' \subseteq held
      BY <2>4, GotoHolds DEF LaneFull, LaneAcquired, Leave, Send, Deliver, recordAttempt
    <3> QED
      BY <3>1, FewerKeepsBound
  <2>5. CASE UNCHANGED vars
    <3>1. held' = held
      BY <2>5 DEF vars, held
    <3> QED
      BY <3>1, FewerKeepsBound
  <2> QED
    BY <2>1, <2>2, <2>3, <2>4, <2>5 DEF Next, Step
<1>3. Spec => []TypeOK
  BY OverrunOnlyAfterAWait, PTL
<1> QED
  BY <1>1, <1>2, <1>3, PTL DEF Spec

(* A claimed task stays within its time and its slots, for every size.           *)
THEOREM TasksStayWithinBudget == Spec => []WithinBudget
<1>1. TypeOK /\ OverrunNeedsAWait /\ InflightIsBounded => WithinBudget
  BY DEF WithinBudget
<1> QED BY <1>1, OverrunOnlyAfterAWait, SlotsStayBounded, PTL

-------------------------------------------------------------------------------
(* Between the attempts.                                                         *)

CONSTANTS Schedule, OverloadFloor, Second, HalfRange, Headers
VARIABLES attempt, ended, elapsed, nominal, last

R == INSTANCE RetryPolicy

(* Every header parses to nothing or to a duration (ParseRetryAfter).          *)
LEMMA ParsedIsDuration ==
  ASSUME R!PolicyAssumption, NEW h \in Headers PROVE R!ParseRetryAfter(h) \subseteq Int
<1>1. h.value \in Int /\ Second \in Nat /\ HalfRange \in Nat \ {0}
  BY DEF R!PolicyAssumption
<1>2. h.value * Second \in Int BY <1>1
<1>3. R!Wrap(h.value * Second) \in Int BY <1>1, <1>2 DEF R!Wrap
<1> QED BY <1>1, <1>3 DEF R!ParseRetryAfter

(* The delay before the jitter is within [d, 2d] of the scheduled one (clamp). *)
LEMMA TargetIsClamped ==
  ASSUME R!PolicyAssumption, NEW base \in Nat, NEW h \in Headers
  PROVE  R!Target(base, h) \in Nat /\ base <= R!Target(base, h) /\ R!Target(base, h) <= 2 * base
<1>1. CASE R!ParseRetryAfter(h) = {}
  BY <1>1 DEF R!Target
<1>2. CASE R!ParseRetryAfter(h) # {}
  <2> DEFINE v == CHOOSE x \in R!ParseRetryAfter(h) : TRUE
  <2>1. v \in Int BY <1>2, ParsedIsDuration
  <2>2. R!Target(base, h) = R!clamp(v, base, 2 * base) BY <1>2 DEF R!Target
  <2> HIDE DEF v
  <2> QED BY <2>1, <2>2 DEF R!clamp
<1> QED BY <1>1, <1>2

(* The scheduled delay is a natural number (Base).                             *)
LEMMA BaseIsNat ==
  ASSUME R!PolicyAssumption, NEW n \in Nat, ~R!Exhausted(n), NEW o \in BOOLEAN
  PROVE  R!Base(n, o) \in Nat
<1>1. Schedule \in Seq(Nat \ {0}) /\ OverloadFloor \in Nat BY DEF R!PolicyAssumption
<1>2. n + 1 \in 1..Len(Schedule) BY <1>1 DEF R!Exhausted
<1>3. Schedule[n + 1] \in Nat BY <1>1, <1>2
<1> QED BY <1>1, <1>3 DEF R!Base

(* One decision of Delay keeps to its bounds.                                  *)
LEMMA DelayBounds ==
  ASSUME R!PolicyAssumption, NEW n \in Nat, ~R!Exhausted(n), NEW o \in BOOLEAN, NEW h \in Headers,
         NEW d \in R!Delay(n, o, h)
  PROVE  /\ d \in Nat
         /\ 9 * R!Base(n, o) <= 10 * d
         /\ 10 * d <= 22 * R!Base(n, o)
<1> DEFINE b == R!Base(n, o)
           t == R!Target(b, h)
<1>1. b \in Nat BY BaseIsNat
<1>2. t \in Nat /\ b <= t /\ t <= 2 * b BY <1>1, TargetIsClamped
<1>3. d \in R!randomJitter(t) BY DEF R!Delay
<1> HIDE DEF b, t
<1>4. d \in Nat /\ 9 * t <= 10 * d /\ 10 * d <= 11 * t BY <1>2, <1>3 DEF R!randomJitter
<1>5. 9 * b <= 10 * d /\ 10 * d <= 22 * b BY <1>1, <1>2, <1>4
<1> QED BY <1>4, <1>5 DEF b

(* A failed attempt that is retried keeps the invariant (Delay).               *)
LEMMA RetryKeeps ==
  ASSUME R!PolicyAssumption, R!RetriesAreBounded, NEW o \in BOOLEAN, NEW h \in Headers,
         R!Retry(o, h)
  PROVE  R!RetriesAreBounded'
<1> DEFINE b == R!Base(attempt, o)
<1>1. attempt \in Nat /\ ~R!Exhausted(attempt) /\ elapsed \in Nat /\ nominal \in Nat /\ ended \in BOOLEAN
  <2>1. Len(Schedule) \in Nat BY DEF R!PolicyAssumption
  <2> QED BY <2>1 DEF R!RetriesAreBounded, R!TypeOK, R!Retry, R!MaxAttempts
<1>2. PICK d \in R!Delay(attempt, o, h) :
        /\ elapsed' = elapsed + d
        /\ last'.base = b /\ last'.delay = d /\ last'.overloaded = o
        /\ last'.asked = IF h.kind \in {"seconds", "date"} /\ h.value > 0
                         THEN h.value * (IF h.kind = "seconds" THEN Second ELSE 1) ELSE 0
  BY DEF R!Retry
<1>3. b \in Nat BY <1>1, BaseIsNat
<1>4. d \in Nat /\ 9 * b <= 10 * d /\ 10 * d <= 22 * b BY <1>1, DelayBounds
<1>5. nominal' = nominal + b /\ attempt' = attempt + 1 /\ ended' = ended BY DEF R!Retry
<1> HIDE DEF b
<1>6. R!DelayIsClamped' BY <1>2, <1>4 DEF R!DelayIsClamped
<1>7. 9 * nominal <= 10 * elapsed /\ 10 * elapsed <= 22 * nominal BY DEF R!RetriesAreBounded, R!HorizonIsBounded
<1>8. R!HorizonIsBounded' BY <1>1, <1>2, <1>3, <1>4, <1>5, <1>7 DEF R!HorizonIsBounded
<1>9. last'.asked \in Int
  <2>1. h.value \in Int /\ Second \in Nat BY DEF R!PolicyAssumption
  <2>2. h.value * Second \in Int BY <2>1
  <2> QED BY <1>2, <2>1, <2>2
<1>10. attempt + 1 \in 0..(R!MaxAttempts - 1)
  <2>1. Len(Schedule) \in Nat BY DEF R!PolicyAssumption
  <2> QED BY <1>1, <2>1 DEF R!Exhausted, R!MaxAttempts
<1>11. R!TypeOK' BY <1>1, <1>2, <1>3, <1>4, <1>5, <1>9, <1>10 DEF R!TypeOK
<1> QED BY <1>6, <1>8, <1>11 DEF R!RetriesAreBounded

(* Every delay a delivery waits, and its whole life, stays within the bounds   *)
(* of the schedule, whatever receivers answer.                                 *)
THEOREM RetriesStayInSchedule ==
  ASSUME R!PolicyAssumption PROVE R!Spec => []R!RetriesAreBounded
<1>1. R!Init => R!RetriesAreBounded
  <2>1. Len(Schedule) \in Nat BY DEF R!PolicyAssumption
  <2>2. R!Init => /\ attempt = 0 /\ ended = FALSE /\ elapsed = 0 /\ nominal = 0
                  /\ last.base = 0 /\ last.asked = 0 /\ last.delay = 0 /\ last.overloaded = FALSE
    BY DEF R!Init, R!NoDecision
  <2>3. ASSUME R!Init PROVE R!TypeOK
    <3>1. attempt \in 0..(R!MaxAttempts - 1) BY <2>1, <2>2, <2>3 DEF R!MaxAttempts
    <3>2. ended \in BOOLEAN /\ last.overloaded \in BOOLEAN BY <2>2, <2>3, Zenon
    <3>3. elapsed \in Nat /\ nominal \in Nat /\ last.base \in Nat /\ last.delay \in Nat /\ last.asked \in Int
      BY <2>2, <2>3
    <3> QED BY <3>1, <3>2, <3>3, Zenon DEF R!TypeOK
  <2> QED BY <2>2, <2>3 DEF R!RetriesAreBounded, R!DelayIsClamped, R!HorizonIsBounded
<1>2. R!RetriesAreBounded /\ [R!Next]_(R!vars) => R!RetriesAreBounded'
  <2> SUFFICES ASSUME R!RetriesAreBounded, [R!Next]_(R!vars) PROVE R!RetriesAreBounded' OBVIOUS
  <2>1. CASE R!GiveUp
    BY <2>1 DEF R!RetriesAreBounded, R!TypeOK, R!GiveUp, R!DelayIsClamped, R!HorizonIsBounded
  <2>2. CASE \E o \in BOOLEAN, h \in Headers : R!Retry(o, h) BY <2>2, RetryKeeps
  <2>3. CASE UNCHANGED R!vars
    BY <2>3 DEF R!RetriesAreBounded, R!TypeOK, R!vars, R!DelayIsClamped, R!HorizonIsBounded
  <2> QED BY <2>1, <2>2, <2>3 DEF R!Next
<1> QED BY <1>1, <1>2, PTL DEF R!Spec
===============================================================================
