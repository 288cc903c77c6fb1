------------------------------ MODULE AttemptLog ------------------------------
(* The readers of the delivery log while workers write it: the paginated       *)
(* listing (keyset cursor, over-fetch by one) and the live tail that polls the *)
(* same listing (internal/adapters/inbound/http/attemptstream).                *)
(*                                                                             *)
(* An attempt gets its created_at and its id when it is recorded, and becomes  *)
(* visible when its worker's batch is copied, so attempts of different workers *)
(* commit in any order.  An id is random within its second: the model's ids    *)
(* are unordered in time.  Times are microseconds.                             *)
EXTENDS Integers, FiniteSets, Sequences, SequencesExt, FiniteSetsExt

CONSTANTS
  Ids,              \* attempt ids, as numbers for the order the database compares
  MaxTime,          \* bound on the clock
  DefaultPageSize,  \* repositories.DefaultPageSize
  MaxPageSize,      \* repositories.MaxPageSize
  Limits,           \* page sizes a client asks for
  StreamLimit,      \* page size of the live tail (50 in the code)
  MaxDrops,         \* bound on retention drops
  MaxStreams        \* bound on live tails opened

LogAssumption ==
  /\ Ids \subseteq Nat
  /\ {MaxTime, MaxDrops, MaxStreams} \subseteq Nat
  /\ {DefaultPageSize, MaxPageSize, StreamLimit} \subseteq Nat \ {0}
  /\ Limits \subseteq Nat

VARIABLES
  clock,     \* time.Now
  buffered,  \* attempts in the memory of some worker's writer
  log,       \* delivery_attempt
  walk,      \* a client following next cursors
  stream,    \* a client of the live tail
  drops, streams,
  late,      \* history: attempts committed after the tail read one that is not older
  crowded    \* history: attempts a full page of the tail left out

vars == <<clock, buffered, log, walk, stream, drops, streams, late, crowded>>

Attempt == [id: Ids, at: 0..MaxTime]
None == [id |-> -1, at |-> -1]
NoWalk == [on |-> FALSE, done |-> FALSE, cursor |-> None, before |-> {}, seen |-> {}, twice |-> FALSE]
NoStream == [on |-> FALSE, from |-> 0, since |-> 0, batch |-> <<>>, sent |-> <<>>]

(* One type invariant: every record keeps its shape (DeliveryAttempt rows, the *)
(* cursor payload, and Serve's position).                                      *)
TypeOK ==
  /\ clock \in 0..MaxTime
  /\ buffered \subseteq Attempt /\ log \subseteq Attempt
  /\ late \subseteq Attempt /\ crowded \subseteq Attempt
  /\ walk \in [on: BOOLEAN, done: BOOLEAN, cursor: Attempt \cup {None},
               before: SUBSET Attempt, seen: SUBSET Attempt, twice: BOOLEAN]
  /\ stream.on \in BOOLEAN /\ stream.from \in 0..MaxTime /\ stream.since \in 0..(MaxTime + 1)
  /\ stream.batch \in Seq(Attempt) /\ stream.sent \in Seq(Attempt)
  /\ drops \in 0..MaxDrops /\ streams \in 0..MaxStreams

Init ==
  /\ clock = 0 /\ buffered = {} /\ log = {} /\ walk = NoWalk /\ stream = NoStream
  /\ drops = 0 /\ streams = 0 /\ late = {} /\ crowded = {}

-------------------------------------------------------------------------------
(* The listing. *)

GetLimit(asked) ==
  IF asked <= 0 THEN DefaultPageSize ELSE IF asked > MaxPageSize THEN MaxPageSize ELSE asked

\* ORDER BY created_at DESC, id DESC.
Newer(a, b) == a.at > b.at \/ (a.at = b.at /\ a.id > b.id)
Ordered(S) == SetToSortSeq(S, Newer)

\* The keyset predicate of a cursor; the empty cursor is the first page.
AfterCursorNoTie(S, c) == IF c = None THEN S ELSE {a \in S : a.at < c.at}
ApplyKeysetCursor(S, c) == IF c = None THEN S ELSE {a \in S : Newer(c, a)}

\* limit + 1 rows are fetched; the extra one only says that there are more.
Fetched(S, limit) == LET q == Ordered(S) IN SubSeq(q, 1, Min({Len(q), limit + 1}))
BuildCursorResult(S, limit) ==
  LET q == Fetched(S, limit)
      n == Min({Len(q), limit})
  IN [items |-> SubSeq(q, 1, n), hasMore |-> Len(q) > limit,
      next |-> IF Len(q) > limit THEN q[n] ELSE None]

-------------------------------------------------------------------------------
(* The writers. *)

Tick == clock < MaxTime /\ clock' = clock + 1
        /\ UNCHANGED <<buffered, log, walk, stream, drops, streams, late, crowded>>

\* recordAttempt: the id and the real time are fixed here.
Record(i) ==
  /\ i \notin {a.id : a \in buffered \cup log \cup walk.before \cup late \cup Range(stream.sent) \cup Range(stream.batch)}
  /\ buffered' = buffered \cup {[id |-> i, at |-> clock]}
  /\ UNCHANGED <<clock, log, walk, stream, drops, streams, late, crowded>>

\* CopyAttempts: one worker's batch becomes visible.
Copy(B) ==
  /\ B # {}
  /\ buffered' = buffered \ B
  /\ log' = log \cup B
  /\ late' = late \cup {a \in B : stream.on /\ \E e \in Range(stream.sent \o stream.batch) : a.at <= e.at}
  /\ UNCHANGED <<clock, walk, stream, drops, streams, crowded>>

\* Retention drops the partition that holds everything up to time t.
DropPartition(t) ==
  /\ drops < MaxDrops /\ t < clock /\ \E a \in log : a.at <= t
  /\ drops' = drops + 1
  /\ log' = {a \in log : a.at > t}
  /\ UNCHANGED <<clock, buffered, walk, stream, streams, late, crowded>>

-------------------------------------------------------------------------------
(* A client that follows the cursors of GET .../attempt to the last page. *)

StartWalk ==
  /\ ~walk.on /\ ~walk.done
  /\ walk' = [NoWalk EXCEPT !.on = TRUE, !.before = log]
  /\ UNCHANGED <<clock, buffered, log, stream, drops, streams, late, crowded>>

ReadPage(asked) ==
  LET page == BuildCursorResult(ApplyKeysetCursor(log, walk.cursor), GetLimit(asked))
      items == Range(page.items)
  IN /\ walk.on
     /\ walk' = [walk EXCEPT !.on = page.hasMore, !.done = ~page.hasMore, !.cursor = page.next,
                             !.seen = @ \cup items,
                             !.twice = @ \/ items \cap walk.seen # {}]
     /\ UNCHANGED <<clock, buffered, log, stream, drops, streams, late, crowded>>

-------------------------------------------------------------------------------
(* The live tail. *)

\* Serve starts at the present.
Open ==
  /\ ~stream.on /\ streams < MaxStreams
  /\ streams' = streams + 1
  /\ stream' = [NoStream EXCEPT !.on = TRUE, !.from = clock, !.since = clock]
  /\ late' = {} /\ crowded' = {}
  /\ UNCHANGED <<clock, buffered, log, walk, drops>>

\* The listing is read in one statement, and its newest page is kept, oldest
\* first; a failing query changes nothing.
Query ==
  LET all == {a \in log : a.at >= stream.since}
      batch == Reverse(BuildCursorResult(all, StreamLimit).items)
  IN /\ stream.on /\ stream.batch = <<>>
     /\ stream' = [stream EXCEPT !.batch = batch]
     /\ crowded' = crowded \cup (all \ Range(batch))
     /\ UNCHANGED <<clock, buffered, log, walk, drops, streams, late>>

\* Each event moves the position one microsecond past its attempt.
SinceSame(since, a) == IF a.at >= since THEN a.at ELSE since
SinceAnyTime(since, a) == clock + 1
SinceAfter(since, a) == IF a.at >= since THEN a.at + 1 ELSE since

\* One event is written, which may take as long as the client pleases.
Write ==
  /\ stream.on /\ stream.batch # <<>>
  /\ stream' = [stream EXCEPT !.batch = Tail(@), !.sent = Append(@, Head(stream.batch)),
                              !.since = SinceAfter(@, Head(stream.batch))]
  /\ UNCHANGED <<clock, buffered, log, walk, drops, streams, late, crowded>>

\* The client goes away, or an event cannot be encoded or written: Serve returns.
Disconnect ==
  /\ stream.on
  /\ stream' = [stream EXCEPT !.on = FALSE, !.batch = <<>>]
  /\ UNCHANGED <<clock, buffered, log, walk, drops, streams, late, crowded>>

Next ==
  \/ Tick
  \/ \E i \in Ids : Record(i)
  \/ \E B \in SUBSET buffered : Copy(B)
  \/ \E t \in 0..MaxTime : DropPartition(t)
  \/ StartWalk
  \/ \E asked \in Limits : ReadPage(asked)
  \/ Open \/ Query \/ Write \/ Disconnect

Spec == Init /\ [][Next]_vars

-------------------------------------------------------------------------------
(* Properties. *)

(* A client that follows the cursors to the end has seen every attempt that    *)
(* was committed when it began and was not dropped meanwhile, whatever page    *)
(* sizes it asked for and whatever was committed or dropped between its pages, *)
(* and has seen none twice (ApplyKeysetCursor, BuildCursorResult).             *)
WalkIsExact == ~walk.twice /\ (walk.done => (walk.before \cap log) \subseteq walk.seen)

(* The events of one live tail are in strictly increasing order of the log,    *)
(* across polls and with late commits, so none is sent twice (Serve).          *)
TailIsOrdered ==
  \A j \in 1..(Len(stream.sent) - 1) : Newer(stream.sent[j + 1], stream.sent[j])

(* What the tail has passed and neither sent nor read to be written next is an *)
(* attempt that became visible only after the tail had read one that is not    *)
(* older, written or not, or one that did not fit in a page; Serve loses       *)
(* nothing else.                                                               *)
Passed == {a \in log : stream.from <= a.at /\ a.at < stream.since}
TailLosesOnlyLateOrCrowded ==
  stream.on => Passed \subseteq (Range(stream.sent \o stream.batch) \cup late \cup crowded)

(* The live tail writes new delivery attempts: everything recorded since it    *)
(* was opened and now behind its position has been sent or is about to be.     *)
TailIsComplete == stream.on => Passed \subseteq Range(stream.sent \o stream.batch)
===============================================================================
