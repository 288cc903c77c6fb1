------------------------------ MODULE RetryPolicy -----------------------------
(* The retry policy (internal/domain/retry) over the life of one delivery:     *)
(* after each failed attempt Delay picks the wait from the schedule, the       *)
(* overload floor, the receiver's Retry-After header and the jitter.           *)
(*                                                                             *)
(* A duration is a signed integer that wraps around at HalfRange, as in Go;    *)
(* its unit is the model's tick.  The random offset of the jitter is any       *)
(* integer within the tenth.                                                   *)
EXTENDS Integers, Sequences

CONSTANTS
  Schedule,      \* WithSchedule or DefaultSchedule: the delay before each retry
  OverloadFloor,
  Second,        \* ticks in a second
  HalfRange,     \* 2^(w-1) for the w = 64 bits of a Duration
  Headers        \* Retry-After values receivers send

Kinds == {"none", "garbage", "seconds", "date"}

PolicyAssumption ==
  /\ Schedule \in Seq(Nat \ {0}) /\ OverloadFloor \in Nat /\ Second \in Nat /\ HalfRange \in Nat \ {0}
  /\ \A h \in Headers : h.kind \in Kinds /\ h.value \in Int

VARIABLES
  attempt,  \* zero-based number of the next attempt
  ended,    \* no retry is due any more
  elapsed,  \* time from the first attempt to the next one
  nominal,  \* history: what the schedule alone adds up to, with the floor where it applies
  last      \* the last decision

vars == <<attempt, ended, elapsed, nominal, last>>

NoDecision == [base |-> 0, asked |-> 0, delay |-> 0, overloaded |-> FALSE]

(* One type invariant; the attempts never outnumber MaxAttempts. *)
MaxAttempts == Len(Schedule) + 1
TypeOK ==
  /\ attempt \in 0..(MaxAttempts - 1) /\ ended \in BOOLEAN
  /\ elapsed \in Nat /\ nominal \in Nat
  /\ last.base \in Nat /\ last.delay \in Nat /\ last.asked \in Int /\ last.overloaded \in BOOLEAN

Init == attempt = 0 /\ ended = FALSE /\ elapsed = 0 /\ nominal = 0 /\ last = NoDecision

-------------------------------------------------------------------------------
Exhausted(n) == n >= Len(Schedule)

Wrap(x) == ((x + HalfRange) % (2 * HalfRange)) - HalfRange

\* The set holds the parsed duration, or nothing.
ParseRetryAfter(h) ==
  CASE h.kind = "seconds" -> IF h.value < 0 THEN {} ELSE {Wrap(h.value * Second)}
    [] h.kind = "date"    -> IF h.value <= 0 THEN {} ELSE {h.value}
    [] OTHER              -> {}

clampLow(d, lo, hi) == IF d < lo THEN lo ELSE d
clampHigh(d, lo, hi) == IF d > hi THEN hi ELSE d
clamp(d, lo, hi) == IF d < lo THEN lo ELSE IF d > hi THEN hi ELSE d

randomJitter(d) == {j \in 0..(2 * d) : 9 * d <= 10 * j /\ 10 * j <= 11 * d}

\* The scheduled delay, raised to the floor after a timeout or a 429.
Base(n, overloaded) ==
  LET d == Schedule[n + 1]
  IN IF overloaded /\ d < OverloadFloor THEN OverloadFloor ELSE d

Target(base, h) ==
  LET ra == ParseRetryAfter(h)
  IN IF ra = {} THEN base ELSE clamp(CHOOSE v \in ra : TRUE, base, 2 * base)

Delay(n, overloaded, h) == randomJitter(Target(Base(n, overloaded), h))

\* An attempt fails: retry after the delay, or give up.
Retry(overloaded, h) ==
  /\ ~ended /\ ~Exhausted(attempt)
  /\ \E d \in Delay(attempt, overloaded, h) :
       /\ elapsed' = elapsed + d
       /\ last' = [base |-> Base(attempt, overloaded), delay |-> d, overloaded |-> overloaded,
                   asked |-> IF h.kind \in {"seconds", "date"} /\ h.value > 0
                             THEN h.value * (IF h.kind = "seconds" THEN Second ELSE 1) ELSE 0]
  /\ nominal' = nominal + Base(attempt, overloaded)
  /\ attempt' = attempt + 1
  /\ UNCHANGED ended
GiveUp ==
  /\ ~ended /\ Exhausted(attempt)
  /\ ended' = TRUE
  /\ UNCHANGED <<attempt, elapsed, nominal, last>>

Next == GiveUp \/ \E overloaded \in BOOLEAN, h \in Headers : Retry(overloaded, h)
Spec == Init /\ [][Next]_vars

-------------------------------------------------------------------------------
(* Properties. *)

(* Whatever the receiver puts into Retry-After (values that wrap around        *)
(* included), a retry waits between nine tenths of the scheduled delay and     *)
(* twice that delay and a tenth of it (Delay).                                 *)
DelayIsClamped == 9 * last.base <= 10 * last.delay /\ 10 * last.delay <= 22 * last.base

(* Over its whole life a delivery stays inside the schedule: its last attempt  *)
(* is no later than 2.2 times the sum of the delays, and no earlier than 0.9   *)
(* times it, which is what message retention has to outlast.                   *)
HorizonIsBounded == 9 * nominal <= 10 * elapsed /\ 10 * elapsed <= 22 * nominal

(* Both, with the types: every delay of a delivery, and its whole life, stay     *)
(* within the bounds of the schedule.                                            *)
RetriesAreBounded == TypeOK /\ DelayIsClamped /\ HorizonIsBounded

(* OverloadFloor is the minimum delay after a timeout or a 429.                *)
FloorIsMinimum == last.overloaded => last.delay >= OverloadFloor

(* Retry-After is honoured within [d, 2d]: a receiver that asks for at least   *)
(* twice the delay gets it, up to the jitter.                                  *)
LongRetryAfterIsHonoured == last.asked >= 2 * last.base /\ last.base > 0 => 10 * last.delay >= 18 * last.base
===============================================================================
