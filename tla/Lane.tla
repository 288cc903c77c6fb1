-------------------------------- MODULE Lane --------------------------------
(***************************************************************************)
(* The lane of one endpoint in one worker: the resizable semaphore with its *)
(* waiters, the additive-increase/multiplicative-decrease concurrency, the  *)
(* circuit breaker, and the lane manager that builds and evicts lanes.      *)
(*                                                                         *)
(* hs is where each delivery goroutine stands in Engine.handleDeliver.  A   *)
(* lane object outlives its eviction while a goroutine still refers to it,  *)
(* so lane maps object ids to objects and current is the manager's entry.   *)
(***************************************************************************)
EXTENDS Naturals, Sequences, FiniteSets

CONSTANTS
  Handlers,              \* delivery goroutines for this endpoint
  LaneIds,               \* lane objects in memory at once
  InitialConcurrency, MaxConcurrency, SuccessesPerIncrease, MaxWaiters,
  RateLimited,           \* whether the lane has a limiter
  FailureThreshold, Cooldown, MaxCooldown,
  None

\* What NewLane and NewBreaker make of any options they are given.
LaneAssumption ==
  /\ MaxConcurrency \in Nat \ {0}
  /\ InitialConcurrency \in 1 .. MaxConcurrency
  /\ SuccessesPerIncrease \in Nat \ {0}
  /\ MaxWaiters \in Nat \ {0}
  /\ RateLimited \in BOOLEAN
  /\ FailureThreshold \in Nat \ {0}
  /\ Cooldown \in Nat \ {0}
  /\ MaxCooldown \in Nat /\ Cooldown <= MaxCooldown
  /\ None \notin LaneIds
  /\ IsFiniteSet(Handlers)

VARIABLES
  lane,      \* lane objects
  current,   \* LaneManager.lanes[endpoint], None when there is none
  hs         \* delivery goroutines

vars == <<lane, current, hs>>

-----------------------------------------------------------------------------
(* Types *)

BreakerState == {"closed", "open", "halfopen"}

\* touched: lastUsed is less than IdleEviction ago.  cooled: retryAt has passed.
\* lost and crossed are history, see the properties.
LaneRec == [concurrency : 1 .. MaxConcurrency, inFlight : Nat, waiting : Nat,
            waiters : Seq(Handlers), successes : 0 .. SuccessesPerIncrease - 1,
            touched : BOOLEAN, lost : BOOLEAN,
            breaker : BreakerState, fails : 0 .. FailureThreshold,
            cooldown : Cooldown .. MaxCooldown, cooled : BOOLEAN,
            probe : BOOLEAN, crossed : BOOLEAN]

NewLane == [concurrency |-> InitialConcurrency, inFlight |-> 0, waiting |-> 0,
            waiters |-> <<>>, successes |-> 0, touched |-> TRUE, lost |-> FALSE,
            breaker |-> "closed", fails |-> 0, cooldown |-> Cooldown,
            cooled |-> FALSE, probe |-> FALSE, crossed |-> FALSE]

\* routed: has the lane, not yet asked the breaker.  allowed: before TryAcquire.
\* turnedAway: before Acquire.  limited .. failed: inside Acquire.  slotting:
\* wants its in-flight slot back.  holding: has the lane slot.  answered: the
\* outcome is reported, the deferred Release is still to come.
Phase == {"idle", "routed", "allowed", "turnedAway", "limited", "trying",
          "parked", "admitted", "failed", "slotting", "holding", "answered"}

InAcquire == {"limited", "trying", "parked", "admitted", "failed"}
HasSlot == {"admitted", "slotting", "holding", "answered"}

Goroutine == [pc : Phase, lane : LaneIds \cup {None}, woken : BOOLEAN, probe : BOOLEAN]

Gone == [pc |-> "idle", lane |-> None, woken |-> FALSE, probe |-> FALSE]

\* The shape of lanes and goroutines; it includes that AIMD keeps concurrency
\* within 1 .. MaxConcurrency and the breaker keeps its cooldown within bounds.
TypeOK ==
  /\ lane \in [LaneIds -> LaneRec]
  /\ current \in LaneIds \cup {None}
  /\ hs \in [Handlers -> Goroutine]

-----------------------------------------------------------------------------
(* State functions *)

On(l) == {h \in Handlers : hs[h].lane = l}

\* Objects nobody refers to: the garbage collector has them.
Garbage == {l \in LaneIds : l # current /\ On(l) = {}}

Free(L) == IF L.inFlight < L.concurrency THEN L.concurrency - L.inFlight ELSE 0

\* wakeWaitersLocked: how many waiters it wakes, which, and the lane after it.
WakeCount(L) == IF Free(L) < Len(L.waiters) THEN Free(L) ELSE Len(L.waiters)

Woken(L) == {L.waiters[i] : i \in 1 .. WakeCount(L)}

Awake(L) == [L EXCEPT !.waiters = SubSeq(@, WakeCount(L) + 1, Len(@)), !.lost = FALSE]

\* Goroutine h goes on as g; everyone lane L wakes finds its channel closed.
Proceed(h, g, L) ==
  hs' = [k \in Handlers |->
           IF k = h THEN g
           ELSE IF k \in Woken(L) THEN [hs[k] EXCEPT !.woken = TRUE] ELSE hs[k]]

Goto(h, ph) == hs' = [hs EXCEPT ![h].pc = ph]

Leave(h) == hs' = [hs EXCEPT ![h] = Gone]

Touch(L) == [L EXCEPT !.touched = TRUE]

\* Mutant: an off-by-one in the test keeps the last slot.
FreedLate(L) == [L EXCEPT !.inFlight = IF @ > 1 THEN @ - 1 ELSE @]

\* Lane.Release without its wake-ups.
Freed(L) == [L EXCEPT !.inFlight = IF @ > 0 THEN @ - 1 ELSE @]

\* Lane.Release by goroutine h, which then goes on as g.
Release(h, g) ==
  LET l == hs[h].lane
      L == Freed(lane[l])
  IN /\ lane' = [lane EXCEPT ![l] = Awake(L)]
     /\ Proceed(h, g, L)

-----------------------------------------------------------------------------
(* The circuit breaker *)

\* Breaker.Allow says yes, and leaves the breaker as L.
AllowedBy(L) ==
  \/ L.breaker = "closed"
  \/ L.breaker = "open" /\ L.cooled
  \/ L.breaker = "halfopen" /\ ~L.probe

\* Mutant: the move to half-open forgets that it admitted a probe.
ProbingUnmarked(L) ==
  IF L.breaker = "closed" THEN L
  ELSE [L EXCEPT !.breaker = "halfopen", !.probe = L.breaker = "halfopen"]

Probing(L) ==
  IF L.breaker = "closed" THEN L
  ELSE [L EXCEPT !.breaker = "halfopen", !.probe = TRUE]

\* Mutant: the run of failures survives a success.
BreakerSuccessKeepsRun(L) ==
  [L EXCEPT !.probe = FALSE, !.breaker = "closed", !.cooldown = Cooldown, !.cooled = FALSE]

BreakerSuccess(L) ==
  [L EXCEPT !.fails = 0, !.probe = FALSE, !.breaker = "closed",
            !.cooldown = Cooldown, !.cooled = FALSE]

Doubled(c) == IF 2 * c < MaxCooldown THEN 2 * c ELSE MaxCooldown

\* reopen; a breaker that was closed keeps its first cooldown.
Reopened(L) ==
  [L EXCEPT !.cooldown = IF L.breaker = "closed" THEN @ ELSE Doubled(@),
            !.breaker = "open", !.cooled = FALSE]

\* The count is read only against the threshold, so it stops there.
Counted(L) == [L EXCEPT !.fails = IF @ < FailureThreshold THEN @ + 1 ELSE @]

BreakerFailure(L) ==
  LET C == Counted(L)
  IN CASE C.breaker = "halfopen" -> [Reopened(C) EXCEPT !.probe = FALSE]
       [] C.breaker = "closed" /\ C.fails = FailureThreshold -> Reopened(C)
       [] OTHER -> C

\* History: a delivery that is not the probe reports while the breaker is half-open.
Crossing(h, L) ==
  [L EXCEPT !.crossed = @ \/ (L.breaker = "halfopen" /\ ~hs[h].probe)]

-----------------------------------------------------------------------------
(* Additive increase, multiplicative decrease *)

Increased(L) ==
  IF L.successes + 1 < SuccessesPerIncrease THEN [L EXCEPT !.successes = @ + 1]
  ELSE [L EXCEPT !.successes = 0,
                 !.concurrency = IF @ < MaxConcurrency THEN @ + 1 ELSE @]

Decreased(L, refused) ==
  [L EXCEPT !.successes = 0,
            !.concurrency = IF refused \/ @ \div 2 = 0 THEN 1 ELSE @ \div 2]

-----------------------------------------------------------------------------
(* Steps of a delivery goroutine *)

Init ==
  /\ lane = [l \in LaneIds |-> NewLane]
  /\ current = None
  /\ hs = [h \in Handlers |-> Gone]

\* LaneManager.For: the lane in the map, or a new one.  It does not touch it.
For(h) ==
  /\ hs[h].pc = "idle"
  /\ \/ /\ current # None
        /\ hs' = [hs EXCEPT ![h].pc = "routed", ![h].lane = current]
        /\ UNCHANGED <<lane, current>>
     \/ /\ current = None
        /\ \E l \in Garbage :
             /\ lane' = [lane EXCEPT ![l] = NewLane]
             /\ current' = l
             /\ hs' = [hs EXCEPT ![h].pc = "routed", ![h].lane = l]

\* The breaker decides.  A refused task is requeued (requeueForBreaker).
Allow(h) ==
  LET L == lane[hs[h].lane] IN
  /\ hs[h].pc = "routed"
  /\ \/ /\ AllowedBy(L)
        /\ lane' = [lane EXCEPT ![hs[h].lane] = Probing(L)]
        /\ hs' = [hs EXCEPT ![h].pc = "allowed", ![h].probe = L.breaker # "closed"]
     \/ /\ ~AllowedBy(L)
        /\ Leave(h)
        /\ UNCHANGED lane
  /\ UNCHANGED current

\* TryAcquire takes a free slot unless the limiter has no token.
TryAcquire(h) ==
  LET l == hs[h].lane IN
  /\ hs[h].pc = "allowed"
  /\ \/ /\ Free(lane[l]) > 0
        /\ lane' = [lane EXCEPT ![l] = [Touch(@) EXCEPT !.inFlight = @ + 1]]
        /\ Goto(h, "holding")
     \/ /\ Free(lane[l]) = 0 \/ RateLimited
        /\ lane' = [lane EXCEPT ![l] = Touch(@)]
        /\ Goto(h, "turnedAway")
  /\ UNCHANGED current

\* Acquire up to the limiter; a saturated lane sends the task back to the queue.
Acquire(h) ==
  LET l == hs[h].lane IN
  /\ hs[h].pc = "turnedAway"
  /\ \/ /\ lane[l].waiting >= MaxWaiters
        /\ lane' = [lane EXCEPT ![l] = Touch(@)]
        /\ Leave(h)
     \/ /\ lane[l].waiting < MaxWaiters
        /\ lane' = [lane EXCEPT ![l] = [Touch(@) EXCEPT !.waiting = @ + 1]]
        /\ Goto(h, "limited")
  /\ UNCHANGED current

\* limiter.Wait, where there is a limiter; the wait may end with the context.
LimiterWait(h) ==
  /\ hs[h].pc = "limited"
  /\ \/ Goto(h, "trying")
     \/ RateLimited /\ Goto(h, "failed")
  /\ UNCHANGED <<lane, current>>

\* One turn of Acquire's loop: take a free slot or park.
TakeOrPark(h) ==
  LET l == hs[h].lane IN
  /\ hs[h].pc = "trying"
  /\ \/ /\ Free(lane[l]) > 0
        /\ lane' = [lane EXCEPT ![l].inFlight = @ + 1]
        /\ Goto(h, "admitted")
     \/ /\ Free(lane[l]) = 0
        /\ lane' = [lane EXCEPT ![l].waiters = Append(@, h)]
        /\ hs' = [hs EXCEPT ![h].pc = "parked", ![h].woken = FALSE]
  /\ UNCHANGED current

\* The waiter's channel is closed and its select takes that case.
Resume(h) ==
  /\ hs[h].pc = "parked" /\ hs[h].woken
  /\ Goto(h, "trying")
  /\ UNCHANGED <<lane, current>>

\* Mutant: the waiter leaves its channel in the list.
CancelWaiterKeepsPlace(h) ==
  /\ hs[h].pc = "parked"
  /\ Goto(h, "failed")
  /\ UNCHANGED <<lane, current>>

\* The wait timed out, possibly as the channel closed: cancelWaiter passes no
\* wake-up on.
CancelWaiter(h) ==
  LET l == hs[h].lane IN
  /\ hs[h].pc = "parked"
  /\ lane' = [lane EXCEPT
                ![l].waiters = SelectSeq(@, LAMBDA k : k # h),
                ![l].lost = @ \/ hs[h].woken]
  /\ Goto(h, "failed")
  /\ UNCHANGED current

\* Acquire's deferred decrement, with the slot or with an error.
LeaveAcquire(h) ==
  /\ hs[h].pc \in {"admitted", "failed"}
  /\ lane' = [lane EXCEPT ![hs[h].lane].waiting = @ - 1]
  /\ IF hs[h].pc = "admitted" THEN Goto(h, "slotting") ELSE Leave(h)
  /\ UNCHANGED current

\* slot.acquire: back on the in-flight budget, or the worker is stopping and
\* the lane slot is returned.
ReclaimSlot(h) ==
  /\ hs[h].pc = "slotting"
  /\ \/ Goto(h, "holding") /\ UNCHANGED lane
     \/ Release(h, Gone)
  /\ UNCHANGED current

\* The payload cannot be loaded, decoded or signed: handleDeliver returns
\* without a request, so neither the breaker nor AIMD hears of it.
Abandon(h) ==
  /\ hs[h].pc = "holding"
  /\ Release(h, Gone)
  /\ UNCHANGED current

\* Mutant: the new slot is not offered to the waiters.
OnSuccessSilent(h) ==
  /\ hs[h].pc = "holding"
  /\ lane' = [lane EXCEPT ![hs[h].lane] = Increased(BreakerSuccess(Crossing(h, @)))]
  /\ Goto(h, "answered")
  /\ UNCHANGED current

\* Lane.OnSuccess: the breaker, then one more slot every so often.
OnSuccess(h) ==
  LET l == hs[h].lane
      L == Increased(BreakerSuccess(Crossing(h, lane[l])))
      grown == L.concurrency > lane[l].concurrency
  IN /\ hs[h].pc = "holding"
     /\ lane' = [lane EXCEPT ![l] = IF grown THEN Awake(L) ELSE L]
     /\ IF grown THEN Proceed(h, [hs[h] EXCEPT !.pc = "answered"], L)
                 ELSE Goto(h, "answered")
     /\ UNCHANGED current

\* Lane.OnFailure; refused: nothing listens at the endpoint.
OnFailure(h, refused) ==
  LET l == hs[h].lane IN
  /\ hs[h].pc = "holding"
  /\ lane' = [lane EXCEPT
                ![l] = Decreased(BreakerFailure(Crossing(h, @)), refused)]
  /\ Goto(h, "answered")
  /\ UNCHANGED current

\* recordAttempt is done and the deferred Release runs.
Return(h) ==
  /\ hs[h].pc = "answered"
  /\ Release(h, Gone)
  /\ UNCHANGED current

-----------------------------------------------------------------------------
(* Time and eviction *)

\* The breaker's retryAt passes.
Cool(l) ==
  /\ lane[l].breaker = "open" /\ ~lane[l].cooled
  /\ lane' = [lane EXCEPT ![l].cooled = TRUE]
  /\ UNCHANGED <<current, hs>>

\* IdleEviction passes without use.  Waits and requests end long before it
\* (seconds against ten minutes), so nobody is on the lane then.
GrowIdle(l) ==
  /\ lane[l].touched
  /\ On(l) = {}
  /\ lane' = [lane EXCEPT ![l].touched = FALSE]
  /\ UNCHANGED <<current, hs>>

\* LaneManager.EvictIdle, on every maintenance tick.
EvictIdle ==
  /\ current # None
  /\ lane[current].inFlight = 0
  /\ lane[current].breaker = "closed"
  /\ ~lane[current].touched
  /\ current' = None
  /\ UNCHANGED <<lane, hs>>

HandlerStep(h) ==
  \/ For(h) \/ Allow(h) \/ TryAcquire(h) \/ Acquire(h) \/ LimiterWait(h)
  \/ TakeOrPark(h) \/ Resume(h) \/ CancelWaiter(h) \/ LeaveAcquire(h)
  \/ ReclaimSlot(h) \/ Abandon(h) \/ OnSuccess(h)
  \/ \E refused \in BOOLEAN : OnFailure(h, refused)
  \/ Return(h)

Next ==
  \/ \E h \in Handlers : HandlerStep(h)
  \/ \E l \in LaneIds : Cool(l) \/ GrowIdle(l)
  \/ EvictIdle

Spec == Init /\ [][Next]_vars

\* Goroutines run, tasks for the endpoint keep coming (a refused or deferred
\* task becomes visible again) and the clock moves.
FairSpec ==
  /\ Spec
  /\ \A h \in Handlers : WF_vars(HandlerStep(h))
  /\ \A l \in LaneIds : WF_vars(Cool(l))

-----------------------------------------------------------------------------
(* Properties *)

\* Lane.inFlight counts exactly the goroutines that hold a slot and
\* Lane.waiting those inside Acquire, on every exit of handleDeliver: the guard
\* "if inFlight > 0" in Release never hides a second release, and MaxWaiters
\* bounds what it says it bounds.
SlotsCounted ==
  \A l \in LaneIds : l \notin Garbage =>
    /\ lane[l].inFlight = Cardinality({h \in On(l) : hs[h].pc \in HasSlot})
    /\ lane[l].waiting = Cardinality({h \in On(l) : hs[h].pc \in InAcquire})

\* No wake-up is missing: while someone is parked, every free slot has a
\* goroutine on its way to it, unless a woken waiter timed out since the last
\* wake-up (cancelWaiter keeps the wake-up it was given).  wakeWaitersLocked is
\* called from Release and from OnSuccess only.
WakeupsReachWaiters ==
  \A l \in LaneIds : lane[l].waiters # <<>> /\ ~lane[l].lost =>
    Free(lane[l]) <= Cardinality({h \in On(l) : \/ hs[h].pc = "trying"
                                                \/ hs[h].pc = "parked" /\ hs[h].woken})

\* The waiter list and the goroutines agree: each parked goroutine that has not
\* been woken is in the list of its own lane exactly once, and nobody else is,
\* so wakeWaitersLocked never closes a channel twice (a panic in Go).
WaitersAreParked ==
  \A l \in LaneIds :
    /\ \A i \in DOMAIN lane[l].waiters :
         LET g == hs[lane[l].waiters[i]]
         IN g.lane = l /\ g.pc = "parked" /\ ~g.woken
    /\ \A i, j \in DOMAIN lane[l].waiters :
         lane[l].waiters[i] = lane[l].waiters[j] => i = j
    /\ \A h \in On(l) : hs[h].pc = "parked" /\ ~hs[h].woken =>
         \E i \in DOMAIN lane[l].waiters : lane[l].waiters[i] = h

Probes(l) == {h \in On(l) : hs[h].probe /\ hs[h].pc \notin {"answered"}}

\* Breaker.Allow: one probe at a time, as long as no delivery that started
\* before the breaker opened reports while it is half-open.
OneProbe ==
  \A l \in LaneIds : ~lane[l].crossed =>
    /\ Cardinality(Probes(l)) <= 1
    /\ Probes(l) # {} => lane[l].breaker = "halfopen" /\ lane[l].probe

\* A closed breaker is always short of FailureThreshold consecutive failures,
\* whatever late reports arrived while it was open or half-open
\* (Breaker.OnFailure tests the threshold only when it is closed).
ClosedBelowThreshold ==
  \A l \in LaneIds : lane[l].breaker = "closed" => lane[l].fails < FailureThreshold

\* breaker.go:18: "BreakerHalfOpen allows exactly one probe in flight".
OneProbeInFlight == \A l \in LaneIds : Cardinality(Probes(l)) <= 1

\* breaker.go:81-83: while half-open, "a second concurrent delivery is refused
\* until the probe reports back": a half-open breaker eventually hears from it.
ProbeReportsBack ==
  \A l \in LaneIds : lane[l].breaker = "halfopen" ~> lane[l].breaker # "halfopen"

\* lanes.go:21-22: "Concurrent deliveries to the same endpoint share one lane".
OneLanePerEndpoint ==
  \A g, h \in Handlers : hs[g].pc # "idle" /\ hs[h].pc # "idle" => hs[g].lane = hs[h].lane

=============================================================================
