# A TLA+ model of huxio

huxio accepts webhook messages over HTTP, stores them in Postgres and delivers
them to the subscribed endpoints. Several processes share one database; there is
no other coordinator. This directory holds TLA+ modules for the parts of huxio
whose steps interleave, the TLC configurations that check them on small
instances, and TLAPS proofs of their safety properties for instances of every
size. `PROJECT.json` lists the parts, the runs, the lines each definition stands
for, the hazards with the line where each one bites, and the theorems.

## The system's parts

| part | code (under `src/`) | module | what is hard about it |
|---|---|---|---|
| queue, engine, attempt writer | `queue_repo.go`, `engine.go`, `attempt_writer.go` | `Delivery` | every statement but the claim names a row by id only, so a worker whose lock lapsed still changes it; attempts and queue rows are written separately |
| the promise to a publisher | `README.md` | `DeliveryContract` | what may leave the queue |
| task times, retry schedule | `engine.go`, `configs/`, `domain/retry` | `TaskBudget`, `RetryPolicy` | a lock that runs from the claim, a context that runs from the slot; clamping and overflow |
| lanes and breaker | `lane.go`, `lanes.go`, `breaker.go` | `Lane` | wake-ups, a probe that never reports back, eviction |
| endpoint health | `applyHealthTransitions`, `lane.go` | `EndpointHealth` | one fact kept in the row, the snapshot and the lane |
| outbound client | `deliveryhttp/` | `Outbound` | slow lookups that store old answers; dial after a change |
| partition leases | `lease_manager.go`, `lease_repo.go`, `runner.go` | `PartitionLeases` | a worker claims from what it remembers, not from the table |
| maintenance | `maintenance/loop.go`, `maintenance_repo.go` | `Maintenance` | a leader that lost its lease goes on |
| process life cycle | `serve.go`, `runner.go`, migrations | `Process` | shutdown order, concurrent migrations, early errors |
| configuration snapshot | `config/`, `snapshot_repo.go`, `listener.go` | `ConfigSnapshot` | decisions on an old snapshot; a load of several queries |
| ingest | `ingest_usecase.go`, `message_repo.go` | `MessageIntake` | unique event ids in daily partitions; lost answers |
| idempotency keys | `middleware/idempotency.go`, `idempotency_repo.go` | `Idempotency` | duplicates while a request runs; lock expiry |
| rate limiting | `middleware/ratelimit.go`, `application/nodes` | `RateLimit` | a limit divided by a stale node count |
| delivery log | `attempt_repo.go`, `attemptstream/` | `AttemptLog` | pages and a tail of a log that is written late |
| resend, recover, replay | `attempt_usecase.go` | `Replay` | reading what failed while workers go on |
| administration | `endpoint_usecase.go`, `event_type_usecase.go` | `EndpointAdmin`, `EventTypes` | read, change, write back |
| operational events | `operational_usecase.go` | `Operational` | lookup, create and cache across processes |

A message becomes one fan-out row. A worker claims it, expands it into one
deliver row per matching endpoint of its snapshot, and deletes it in the same
transaction. A deliver row is claimed, passes the endpoint's lane and breaker, is
sent, and its outcome goes to the worker's attempt writer, which copies a batch
of attempts and then retries or deletes the rows. The maintenance leader unlocks
rows whose holder died.

## How the modules correspond to the code

An action is one atomic step of the code: a statement or a transaction, or the
stretch of a goroutine between two of them, with everything it changes. Where the
code ignores an error, the failing statement is an alternative of the same action
or an action of its own, and `MaxFaults` bounds how often it happens. Timestamps
are reduced to what is compared (has it passed, which is earlier), and a clock
action changes that. Variables marked as history in a module are read by
properties and not by guards, except for the bounds on counters. Definitions keep
the names of the code. The definitions that `PROJECT.json` lists as mutants are
wrong versions of the definition they name: with them the property fails, which
shows that it depends on that code. No specification uses them.

- `Delivery`. `row[i]` is the `delivery_task` row `i`, `stored` the message table,
  `attempts` the attempt table. `hs[h]` is one claim in a worker's memory from the
  claim statement until its row has been written: `claimed`, `running`, `waiting`
  (for a lane), `admitted`, `sent`, `recording` (blocked in `Enqueue`),
  `buffered`, `batched`, `copied` (attempt durable, row not finalised).
  `KeepLock` stands for every return that leaves the row locked. `lapse[i]`
  records that a row lost its lock while a claim on it was in memory. The lane,
  the breaker and the snapshot are left open here: a lane may be full and the
  breaker may refuse at any time. Every worker may claim every row, so no result
  about deliveries relies on partition leases. Subscribed endpoints exist, and
  every snapshot has seen them, before the first message; snapshots that have not
  are the subject of `ConfigSnapshot`. Retention, which drops old days of both
  tables, is in `Maintenance` and `AttemptLog`: here `attempts` keeps what was
  recorded.
- `DeliveryContract`. A pair of message and endpoint is owed from the commit of
  the message, settled when its outcome is recorded or it cannot be delivered,
  queued while a row stands for it. `Delivery` instantiates it with `Owed`,
  `SettledPairs` and `QueuedPairs`.
- `TaskBudget`. `until` is the deadline of the context a handler waits on. Time
  does not pass it because the wait ends there.
- `RetryPolicy`. One delivery from attempt to attempt. Durations wrap around at
  `HalfRange`, as in Go; the jitter is any integer within the tenth.
- `Lane`. Lane objects by id, since one outlives its eviction while a goroutine
  refers to it; `hs` is where each goroutine stands in `handleDeliver`.
- `EndpointHealth`. Ages instead of timestamps. Each write of
  `applyHealthTransitions` is a step, and the owner switches the endpoint in two,
  the second of which may fail.
- `Outbound`. One host, several deliveries. Dials are not cancelled with their
  request, as in Go's transport. The guard's decision is a constant.
- `PartitionLeases`. `rebalance` statement by statement. `wk[w].owned` is what the
  worker claims from, `lease` what the table says. A statement may take effect and
  its answer be lost; `adrift` notes the partitions the table took from a worker
  that has not had a heartbeat go through since.
- `Maintenance`. Each DDL statement of the partition pass is a step, and the lease
  may run out between any two.
- `Process`. The goroutines of `serve`'s error group, readiness and a load
  balancer that notices it later, migrations under the advisory lock.
- `ConfigSnapshot`. A load is one step per query; `builtAt` is stamped after them.
  `lost` records deliveries dropped although they were due.
- `MessageIntake`. An insert waits for an open transaction with the same key. A
  message id carries its second. Of `validate` only the retention check is kept: the
  others refuse a request and change nothing.
- `Idempotency`. One key. `excuse` records what may lead to a second message: a
  handler that outlived its lock, a crash, a response not stored or past its TTL, a
  commit reported as an error. A claim whose answer is lost leaves what a crash
  right after the claim leaves.
- `RateLimit`. Tokens in units that make a tick's refill whole. The limit
  divides evenly by every number of nodes up to it, so shares are exact.
- `AttemptLog`. Attempts get time and id when recorded and are visible when their
  batch is copied, in any order. The tail reads a page in one step and writes its
  events in steps of their own, so commits fall in between.
- `Replay`. Listing, batch limit and inserts per message of one call, with
  deliveries between them. A task may succeed, fail, or leave the queue without an
  attempt (`Drop`).
- `EndpointAdmin`, `EventTypes`. Two clients between read and write of one row. An
  update that also switches the endpoint writes twice, and `intended` follows every
  statement that took effect, whatever its caller was told.
- `Operational`. Emitters of several processes and a tenant who changes
  applications.

## Runs

Components that share no state are checked in one run: `MCWorker`, `MCCluster`,
`MCApi` and the three progress modules hold one instance of each component, and
`part` says which of them runs; the others have no state, or keep their initial one. The run explores the sum of the state spaces, and
each property names the part it speaks about: `LeasesHold` of `MCCluster` is
`part = "leases" => W!LeasesHold`, the property that `LeaseProofs` proves of
`PartitionLeases`.

| run | instance | shows |
|---|---|---|
| `delivery_races` | 2 workers, 2 claims, 3 rows, 1 message, 1 endpoint, 2 faults | types, exclusive claims, no silent loss, honest log, attempts within the schedule, consistent claims, nothing taken back |
| `delivery_fanout` | 1 worker, 2 endpoints, 3 rows, 2 faults | one expansion per fan-out, and no endpoint lost in it |
| `delivery_contract` | 2 messages (one cannot be sent), 4 rows, 1 fault | `Delivery` implements `DeliveryContract` |
| `delivery_progress` | 1 worker, 3 rows, 1 fault, fairness | every row leaves the queue, every owed delivery is settled |
| `worker_rules` | parts time, lane, health, events, client | `WithinBudget`: a handler works past its lock only after a wait for its slot, and no more slots than allowed; `LaneAddsUp`, `BreakerAdmitsOne`: slots counted, waiters woken, one probe; `BlipNeverDisables`: one failure never disables; `OutboundIsGuarded`: only allowed addresses, only fresh answers |
| `cluster_rules` | parts leases, maintenance, deploy, drain, snapshot | `LeasesHold`: one server per partition, but for the windows named below; `MaintenanceKeepsUp`: days are prepared, one leader; `ProcessesAreOrderly`: no clash of migrations, flush before exit, accepted requests answered; `SnapshotIsTrusted`: nothing due is dropped on a snapshot that could know better; `NothingIsUndone`: no drop within retention, no older snapshot |
| `api_rules` | parts retry, keys, intake, shares, stable, log, replay, admin, rollover, types, agree, lookup | `RetriesAreBounded`: delays and horizon; `KeysAnswerOnce`: one message and its answer per key; `IntakeIsSound`: message and fan-out row together, one per event id and second, found by id; `LimitIsKept`: a node's share, and the limit while the set of nodes does not change; `LogReadsAreExact`: a walk sees each attempt once, the tail is ordered and loses only attempts that were committed late or crowded out; `ReplayTakesTheFailed`; `RolloverHasNoGap`; `EditsAreKept` and `RetiredStaysRetired` for endpoints and event types; `OperationalEventsArrive` |
| `health_progress` | 1 worker and 2 deliveries; 2 workers and 1 delivery; 1 worker and an owner who switches; one failed write each | a failure mark goes away after recovery; a dead endpoint is disabled unless only workers that already marked it deliver |
| `cluster_progress` | leases, maintenance, snapshot, one failure each | shares settle, partitions catch up, changes arrive |
| `api_progress` | client, process, keys, counts, replay | calls and processes end, a key is not blocked for good, node counts converge, repeated recovery reaches every failed delivery unless a full batch of failed ones is ahead of it |
| `delivery_shutdown_release` | 2 workers, batches of 2, 2 endpoints | expected violation |
| `snapshot_torn` | the snapshot part of `cluster_rules` | expected violation |

Properties with an exception state what the code has. `ExclusiveClaim`,
`FanoutOnce` and `AttemptsWithinSchedule` hold for rows that never lapsed: after a
lapse two handlers hold the row. `LeasesHold` excepts leases that ran out, leases
released with the answer lost, both until the next heartbeat that goes through, and
the moment between the two halves of shedding. `EditsAreKept` and
`RolloverHasNoGap` except requests that wrote back a column another one had changed
since they read it. `MarkFollowsHealth` excepts workers whose lane is marked
(`DeadIsDisabled` below), and `RepeatedRecoveryReaches` a full batch ahead:
deliveries that keep failing, or whose endpoint is gone, stay at the head of every
listing. `KeysAnswerOnce` excepts what `excuse`
records, `BreakerAdmitsOne` a report from before the breaker opened,
`SnapshotIsTrusted` snapshots read before the task was queued. `NoSilentLoss`,
`HonestLog`, `ClaimsConsistent` and `OnlyAdvances` have no exception.

The names with several parts (`LeasesHold`, `IntakeIsSound`, `WithinBudget` and the
like) are conjunctions of smaller properties, each with its own comment in the
component's module.

### Bounds

In `Delivery`, one fault makes a claim stale and a second disturbs the worker that
took over: the shortest way to every race of two holders, which are the two
workers and two claims. `ScheduleLen` is 1 so that there is a retry and an
exhausted attempt (0 in `delivery_fanout`, which is about the expansion); three rows are a fan-out row, its delivery and a second
delivery. Elsewhere two actors race for one thing (key, lease, row, event type),
and counters pass the value where the code changes its mind: three deliveries for
a lane of one slot, then two; retention of one and two days over three; more requests
than the limit of two; more attempts than a page. Time bounds (`MaxTime`,
`MaxClock`, `MaxDay`, `MaxAge`) let the timeouts a part is about pass. Handlers, workers and row ids are interchangeable in
`MCDelivery`, the two nodes and the two endpoints in `MCCluster`, and the safety runs
of those use symmetry; liveness runs use none. Deadlock is not checked, because the
system rests when there is nothing to do or a bound is reached.

### Fairness

All fairness is weak unless it says otherwise. Faults, administrators and callers of
the API are not forced to act, but for the exceptions in the list, and endpoints may
fail every request.

| module | goes on | because |
|---|---|---|
| `Delivery` | handlers, claim loop, writer, restart, clock, rescue | scheduler, poll and flush timers, the supervisor of the process, the maintenance ticker |
| `Lane` | goroutines, new tasks, clock | a refused or deferred task becomes visible again |
| `EndpointHealth` | deliveries begin and end, refresh, clock | the endpoint has traffic; the refresh ticker. Eviction of lanes is not forced |
| `Outbound` | lookups, dials, responses, clock | dial and header timeouts |
| `PartitionLeases` | rebalance, heartbeat, shutdown; old heartbeats and leases nobody serves run out | the heartbeat ticker drives both |
| `Maintenance` | the work of a tick, lease expiry; strongly, a granted partition tick | a leader renews at every tick, so leadership does not change hands before each partition tick for ever |
| `Process` | goroutines of the error group, migrations, exit | nobody has to finish a request, which may be a stream |
| `ConfigSnapshot` | announcements, manager loop, refresh | the refresh ticker covers lost announcements |
| `Idempotency` | clients repeat, requests are served, time | repeating is what the key is for; the purge is not relied on |
| `RateLimit` | clock, heartbeat | ticker |
| `Replay` | workers, writers, one call's inserts; strongly, the next recovery | the operator repeats the recovery until nothing is left |

## Proofs

The theorems hold for instances of every size that satisfy the assumption on the
constants named in the component's module (`DeliveryAssumption`, `LeaseAssumption`
and so on): sets are finite where something is counted, bounds are natural numbers,
the "nobody" value is not a worker, and for `TaskBudget` the settings passed
`Validate`. The MC modules assume the same of their instances, so TLC evaluates it.
Bounds on faults and time stay in the theorems, as arbitrary numbers.

| theorem | module | states |
|---|---|---|
| `TypeCorrect`, `NothingTakenBack` | `DeliverySteps` | `[]TypeOK`, `OnlyAdvances` |
| `ClaimsStayConsistent`, `ClaimsAreExclusive`, `NothingIsLost`, `TheLogIsHonest`, `FanoutHappensOnce`, `ScheduleIsKept` | `DeliveryProofs` | `[]ClaimsConsistent`, `[]ExclusiveClaim`, `[]NoSilentLoss`, `[]HonestLog`, `[]FanoutOnce`, `[]AttemptsWithinSchedule` |
| `AcceptedIsKept`, `DeliveryKeepsContract` | `DeliveryProofs` | everything owed is settled or queued; `Delivery` implements `DeliveryContract` |
| `TasksStayWithinBudget`, `OverrunOnlyAfterAWait`, `SlotsStayBounded` | `TimingProofs` | `[]WithinBudget` and its parts |
| `RetriesStayInSchedule` | `TimingProofs` | `[]RetriesAreBounded` of `RetryPolicy` |
| `LeasesHoldAlways` | `LeaseProofs` | `[]LeasesHold` |
| `MaintenanceKeepsUpAlways`, `RetentionIsAlwaysKept` | `MaintenanceProofs` | `[]MaintenanceKeepsUp`, `RetentionIsKept` |
| `SnapshotIsTrustedAlways`, `SnapshotsAlwaysAdvance` | `SnapshotProofs` | `[]SnapshotIsTrusted`, `SnapshotsAdvance` |
| `KeysAnswerOnceAlways` | `IdempotencyProofs` | `[]KeysAnswerOnce` |
| `IntakeIsSoundAlways` | `IntakeProofs` | `[]IntakeIsSound` |

Each proof has an inductive invariant, lemmas that say what the actions keep of it,
and a last step that combines them.

- `Delivery`. `Inv` is the conjunction of the invariants in the table.
  `ClaimsConsistent` is the strengthening: a removed row has its outcome only
  because a claim in phase `copied` has its attempt in the log, and an attempt is
  honest only because the claim that wrote it was. `ExclusiveClaim` gives the
  schedule (the counter a handler read is still the row's) and the fan-out (no
  second holder can expand). `RowCases`, `HandlerCases`, `LogCases` and
  `CountCases` say what a step can do to a row, a claim and the log; each
  invariant needs only the cases that can disturb it.
- The refinement. `Filed` adds that every accepted message has had a fan-out row
  and that only removed rows carry a reason for dropping. With it, `Kept` follows:
  each owed pair is settled or stands in the queue. An ingest is `Accept`, a
  resend or a second expansion is `Requeue`, a first expansion and every other step
  is `Settle` or a stutter. That a settled pair stays settled rests on
  `OnlyAdvances`, and that only settled pairs leave the queue on `NoSilentLoss`.
- `TaskBudget`. `BudgetInv`: a waiting handler's deadline is ahead of it and not
  beyond its task's context.
- `RetryPolicy`. `RetriesAreBounded` is inductive. The lemmas are about the
  operators: what a header parses to, `clamp`, the jitter, one `Delay`.
- `PartitionLeases`. `LeaseInv`: each partition a running worker claims from is
  leased to it and fresh, or adrift, or being shed (`Backed`); a worker that does
  not run is not in the middle of a rebalance.
- `Maintenance`. `MaintenanceInv`: a loop that creates days has created those from
  today up to its next one; what it is about to drop was past retention when it was
  listed and stays so, because days only pass; a loop at work holds the lease
  unless it ran out. Hence no old leader can drop a day another one prepared.
- `ConfigSnapshot`. `SnapshotInv`: a snapshot has every endpoint that was
  deliverable when its first query ran and still is, but for unreadable secrets
  (`Covers`), also while it is being read (`Reading`); a manager that is not up to
  date has a token, an announcement under way or a noted miss (`Informed`).
- `Idempotency`. `KeyInv`: as long as nothing in `excuse` has happened, the request
  at work holds the unexpired row, and a message that exists is behind the lock of
  the request about to store its response or behind the response.
- `MessageIntake`. `IntakeInv`: ids are handed out once, a row's time is the one in
  its id, and an open transaction has its key to itself.

Only model-checked:

- All liveness properties (`QueueDrains`, `OwedIsSettled` and the progress runs):
  TLAPS does not reason about fairness and `ENABLED`.
- The safety properties of `Lane`, `EndpointHealth`, `Outbound`, `Process`,
  `RateLimit`, `AttemptLog`, `Replay`, `EndpointAdmin`, `EventTypes` and
  `Operational`, for which no inductive invariant has been worked out. For
  `RateLimit`, `AttemptLog` and `Replay` it would rest on sums, sorted pages and
  folds over sets, that is on induction over data, which the installed provers
  cannot instantiate.

## Where the code and its documentation differ

Two differences are runs of their own. `delivery_shutdown_release` states the
comment at `engine.go:308`, "Give back what has not been started":
`claimAndDispatch` passes the whole batch to `release`, so a shutdown in the middle
of a batch also unlocks tasks whose handlers run, and another worker may deliver
them again. `snapshot_torn` states the comment at `engine.go:439`: a snapshot is
stamped after its queries, so one that has not seen an endpoint may look newer than
the fan-out and the fan-out is dropped.

The others are stated as definitions in the modules. TLC refutes each one on the
component's module with the constants given here, under `Spec`, or under `FairSpec`
where it says so; lower-case names and `None` are model values. No run repeats them.
Paths are shortened to their last parts.

### `EndpointAdmin`

- `GivenSecretSigns`, usecases/endpoint_usecase.go:376. RotateSecret writes the list
  of old secrets it computed from the row it read, so of two overlapping rotations the
  second discards the secret the first one installed and returned to its caller;
  usecases/endpoint_usecase.go:341-343 says it "keeps the previous one alive for the
  overlap window, so both signatures are emitted and receivers can roll over without
  downtime".
  Constants: `Clients = {c1, c2}; Secrets = {1, 2, 3}; Generated = {1, 2, 3};
  SecretType = "hmac-sha256"; Urls = {u1}; Flags = {}; Names = {}; Spellings = {};
  Overlap = 2; MaxTime = 2; MaxOps = 2`.
- `OtherFieldsAreKept`, usecases/endpoint_usecase.go:241. UpdateEndpoint and
  PatchHeaders write every mutable column from a copy read earlier
  (endpoint_repo.go:61), so an update of one field undoes another request's change of
  another field; usecases/endpoint_usecase.go:192 says "UpdateEndpoint applies the
  supplied fields".
  Constants: `Clients = {c1, c2}; Secrets = {1}; Generated = {1}; SecretType =
  "hmac-sha256"; Urls = {u1, u2}; Flags = {}; Names = {h1}; Spellings = {upper};
  Overlap = 1; MaxTime = 0; MaxOps = 2`.
- `SnapshotSigns`, usecases/endpoint_usecase.go:452. GenerateSecret makes 24 random
  bytes for every endpoint, and signing with ed25519 needs 32 or 64
  (domain/signing/signer.go:162-170), so an ed25519 endpoint with a generated secret,
  at creation or by rotation, can sign no delivery and its tasks are dropped
  (engine.go:592); README.md:111 says "HMAC-SHA256 by default, ed25519 if you want
  asymmetric verification" and usecases/endpoint_usecase.go:98 says "generating and
  sealing a signing secret when the caller did not supply one".
  Constants: `Clients = {c1}; Secrets = {1, 2}; Generated = {2}; SecretType =
  "ed25519"; Urls = {u1}; Flags = {}; Names = {}; Spellings = {}; Overlap = 1; MaxTime
  = 0; MaxOps = 2`.
- `RemovedHeaderIsNotSent`, usecases/endpoint_usecase.go:416. PatchHeaders compares
  names exactly, while deliveries fold them to lower case (dispatch/engine.go:826), so
  removing X-Team leaves x-team in place, and two spellings of a name are stored side
  by side; usecases/endpoint_usecase.go:402 says "An empty value removes a header".
  Constants: `Clients = {c1}; Secrets = {1}; Generated = {1}; SecretType =
  "hmac-sha256"; Urls = {u1}; Flags = {}; Names = {h1}; Spellings = {upper, lower};
  Overlap = 1; MaxTime = 0; MaxOps = 2`.

### `EndpointHealth`

- `DeadIsDisabled`, dispatch/engine.go:690 (`FairSpec`). MarkDisabled is set before
  SetDisabled is written and only a success clears it, so after the owner has
  re-enabled the endpoint (or after a failed write) the same worker returns early on
  every later failure, for as long as the lane is in use; the comment at
  dispatch/engine.go:63 says "DisableAfter is how long an endpoint must fail
  continuously before it is switched off".
  Constants: `Workers = {w1}; Handlers = {h1}; DisableAfter = 2; MaxAge = 2;
  Quarantines = FALSE; Notifies = FALSE; MaxFaults = 0; MaxSwitches = 1`.
- `DisabledAfterUnbrokenRun`, dispatch/lane.go:285. FailureRunStart adopts
  FirstFailureAt from the snapshot even when this lane has just ended the run, and
  keeps it; dispatch/engine.go:63 says "DisableAfter is how long an endpoint must fail
  continuously" and migrations/schema/00001_initial_schema.sql:103 "Start of the
  current unbroken run of failures. Cleared on any success."
  Constants: `Workers = {w1}; Handlers = {h1}; DisableAfter = 2; MaxAge = 3;
  Quarantines = FALSE; Notifies = FALSE; MaxFaults = 0; MaxSwitches = 0`.
- `ReenableStartsOver`, usecases/endpoint_usecase.go:289. setDisabled clears
  first_failure_at in the row only; every worker's lane keeps its failureStart, so the
  first failure after the re-enable is measured against the old run. The comment at
  usecases/endpoint_usecase.go:288 says "Re-enabling starts the failure window over."
  Constants: `Workers = {w1, w2}; Handlers = {h1}; DisableAfter = 2; MaxAge = 3;
  Quarantines = FALSE; Notifies = FALSE; MaxFaults = 0; MaxSwitches = 1`.
- `RecoveryWasAnnounced`, dispatch/engine.go:752. The mark on the lane is set before
  the failing event is ingested, so a concurrent success sends the recovery event
  first, or alone if the warning fails; the comment at dispatch/engine.go:751 says
  "Send recovery only if a failing notice was previously sent."
  Constants: `Workers = {w1}; Handlers = {h1, h2}; DisableAfter = 2; MaxAge = 3;
  Quarantines = FALSE; Notifies = TRUE; MaxFaults = 0; MaxSwitches = 0`.

### `Idempotency`

- `NoSecondMessage`, idempotency_repo.go:37. Begin takes over any expired in-progress
  row, so a request that is still running after LockTTL (30 s), or that died after its
  commit, does not keep a retry from creating another message;
  migrations/schema/00001_initial_schema.sql:283 says "a retried POST /msg must not
  create a second message".
  Constants: `Requests = {r1, r2}; MaxMessages = 2; MaxFaults = 1`.
- `LockIsExclusive`, idempotency_repo.go:88. Abort deletes the in-progress row of the
  key whoever holds it, so a slow request that fails after its lock was taken over
  frees the lock of the request that took it; domain/entities/idempotency.go:10-11
  says the row is "a short-lived lock that makes two concurrent duplicates safe: the
  second gets a 409 rather than a second message".
  Constants: `Requests = {r1, r2, r3}; MaxMessages = 2; MaxFaults = 1`.
- `LoserFindsRecord`, idempotency_repo.go:53. Begin claims and reads in two
  statements; a row that is aborted or purged in between makes get return ErrNotFound,
  which the middleware turns into a 500, although nothing failed and the key is free.
  The comment at idempotency_repo.go:51 says "A live record already exists", and
  replay (middleware/idempotency.go:96) is prepared for no record with a 409.
  Constants: `Requests = {r1, r2}; MaxMessages = 1; MaxFaults = 0`.

### `MessageIntake`

- `EventIdIsUnique`, usecases/ingest_usecase.go:130. The unique index on event ids
  includes created_at (migrations/schema/00001_initial_schema.sql:129), which Ingest
  sets to the second in the message id, so an event id is refused only within the same
  second; usecases/ingest_usecase.go:35 says "EventID is the tenant's optional
  deduplication key." and tests/integrations/api_ingest_test.go:244 says "duplicate
  eventId = %d %s, want 409".
  Constants: `Callers = {c1}; EventIDs = {u1}; Periods = {}; MaxPeriod = 3;
  DefaultPeriod = 1; DaySecs = 2; MaxTime = 1; MaxRequests = 2; MaxFaults = 0`.
- `PeriodIsHonoured`, usecases/ingest_usecase.go:146. expires_at is stored and never
  read: maintenance drops whole days by the configured retention, so a request's
  payloadRetentionPeriod changes nothing; usecases/ingest_usecase.go:39 says
  "RetentionDays overrides the configured default for this message."
  Constants: `Callers = {c1}; EventIDs = {u1}; Periods = {3}; MaxPeriod = 3;
  DefaultPeriod = 1; DaySecs = 1; MaxTime = 2; MaxRequests = 1; MaxFaults = 0`.

### `Lane`

- `OneProbeInFlight`, dispatch/breaker.go:130. OnSuccess and OnFailure of any delivery
  clear probeInFlight while the breaker is half-open, not only those of the probe. A
  delivery that started before the breaker opened and fails during the probe reopens
  the breaker, and after the next cooldown a second probe runs beside the first; the
  comment at dispatch/breaker.go:18 says "allows exactly one probe in flight".
  Constants: `Handlers = {h1, h2, h3}; LaneIds = {l1}; InitialConcurrency = 2;
  MaxConcurrency = 2; SuccessesPerIncrease = 1; MaxWaiters = 2; RateLimited = FALSE;
  FailureThreshold = 1; Cooldown = 1; MaxCooldown = 3`.
- `ProbeReportsBack`, dispatch/engine.go:571 (`FairSpec`). Allow marks the probe
  before handleDeliver has a lane slot and a payload. If the handler then defers for
  saturation, loses its slot at shutdown, or cannot load, decode or sign the message,
  nobody calls OnSuccess or OnFailure, so every later delivery is refused; EvictIdle
  keeps lanes whose breaker is not closed. The comment at dispatch/breaker.go:81-83
  expects the refusal to last only "until the probe reports back".
  Constants: `Handlers = {h1, h2}; LaneIds = {l1}; InitialConcurrency = 1;
  MaxConcurrency = 1; SuccessesPerIncrease = 1; MaxWaiters = 2; RateLimited = FALSE;
  FailureThreshold = 1; Cooldown = 1; MaxCooldown = 3`.
- `OneLanePerEndpoint`, dispatch/lanes.go:75. For returns the lane without touching
  it, so EvictIdle can remove it before the handler has taken a slot. The next
  delivery builds another lane with its own concurrency, limiter and breaker; the
  comment at dispatch/lanes.go:21-22 says "Concurrent deliveries to the same endpoint
  share one lane".
  Constants: `Handlers = {h1, h2}; LaneIds = {l1, l2}; InitialConcurrency = 1;
  MaxConcurrency = 1; SuccessesPerIncrease = 1; MaxWaiters = 2; RateLimited = FALSE;
  FailureThreshold = 1; Cooldown = 1; MaxCooldown = 3`.

### `PartitionLeases`

- `KnowsItsLeases`, lease_repo.go:98. ORDER BY (owner_id = $2) DESC sorts the NULL
  that a free row yields before true, so with LIMIT share the free rows come first and
  the worker's own leases may not be returned. rebalance stores the result as the
  whole owned set, so those partitions stay leased to the worker, unserved, until the
  TTL has passed. lease_manager.go:155-156 says "The claim query prefers partitions
  this worker already holds, so the result is the full owned set"
  (dispatch/lease_manager.go:155).
  Constants: `Workers = {w1, w2}; Partitions = {p1, p2, p3}; MaxFaults = 0`.
- `NeverShared`, dispatch/lease_manager.go:139. rebalance releases its excess in the
  table before it replaces its set in memory, so between the two a peer can lease a
  partition the engine still claims from; the comment at queue_repo.go:36 says "Two
  workers therefore never look at the same rows". The row locks of the claim keep
  tasks exclusive all the same.
  Constants: `Workers = {w1, w2}; Partitions = {p1, p2, p3}; MaxFaults = 0`.

### `AttemptLog`

- `TailIsComplete`, attemptstream/stream.go:73. Serve moves its position past the
  newest created_at it has seen, but created_at is set in recordAttempt and attempts
  become visible when their worker's batch is flushed, so an attempt of a slower batch
  falls behind the position and is skipped; handlers/stream_handler.go:22 says
  "StreamAttempts writes new delivery attempts as server-sent events until the client
  goes away".
  Constants: `Ids = {1, 2}; MaxTime = 1; DefaultPageSize = 2; MaxPageSize = 2; Limits
  = {}; StreamLimit = 2; MaxDrops = 0; MaxStreams = 1`.
- `TailIsComplete`, attemptstream/stream.go:56. Each poll lists newest first with a
  limit of 50 and no cursor, and then moves past the newest: the rest of a burst is
  skipped without a trace; handlers/stream_handler.go:22 says "StreamAttempts writes
  new delivery attempts as server-sent events until the client goes away".
  Constants: `Ids = {1, 2, 3}; MaxTime = 0; DefaultPageSize = 2; MaxPageSize = 2;
  Limits = {}; StreamLimit = 2; MaxDrops = 0; MaxStreams = 1`.

### `Replay`

- `DeliveredIsNotReplayed`, attempt_repo.go:213. The filters, the upper end of the
  window among them, are applied before DISTINCT ON picks the latest attempt, so a
  delivery that failed inside the window and succeeded after it counts as failed and
  is sent again; attempt_repo.go:195-197 says "a message that failed once and then
  succeeded on retry must not be replayed".
  Constants: `Msgs = {1}; Endpoints = {e1}; EventType = [m \in Msgs |-> IF m = 1 THEN
  "invoice" ELSE "user"]; TypeSets = {}; Windows = {[since |-> s, until |-> u] : s \in
  {0, 2}, u \in {-1, 2}}; MaxReplayBatch = 1; MaxTasks = 1; MaxBuffered = 1;
  MaxAttempts = 4; MaxFailures = 2; MaxFaults = 0; MaxResends = 1`.
- `OnlyNamedEventTypes`, usecases/attempt_usecase.go:244. Replay never reads
  in.EventTypes (the handler passes it at handlers/attempt_handler.go:197), so every
  failed delivery of the window is replayed; usecases/attempt_usecase.go:234 says
  "Replay replays by filter across endpoints and event types".
  Constants: `Msgs = {1, 2}; Endpoints = {e1}; EventType = [m \in Msgs |-> IF m = 1
  THEN "invoice" ELSE "user"]; TypeSets = {{"user"}}; Windows = {[since |-> 0, until
  |-> -1]}; MaxReplayBatch = 1; MaxTasks = 1; MaxBuffered = 1; MaxAttempts = 3;
  MaxFailures = 1; MaxFaults = 0; MaxResends = 0`.

### `Maintenance`

- `OneInstanceActive`, maintenance/loop.go:152. The lease is taken once per tick and
  neither renewed nor tested between the statements of a tick, and its TTL (15 s by
  default) is shorter than the rescue interval (30 s); a slow pass runs on beside the
  next leader's. maintenance/loop.go:5-6 says the loop is "guarded by a named lease so
  exactly one instance is active cluster-wide". Every statement of the pass tolerates
  it.
  Constants: `Processes = {p1, p2}; Ahead = 1; RetainMessages = 1; RetainAttempts = 2;
  MaxDay = 2; MaxFaults = 0`.

### `Operational`

- `EventsReachReserved`, usecases/operational_usecase.go:95. reservedApp caches the
  application id for the life of the process and nothing ever removes it, so after a
  delete every event of that process is refused, and after the uid has moved to
  another application events go to the old one; usecases/operational_usecase.go:17-19
  says "OperationalAppUID is the reserved application every tenant's operational
  webhooks are delivered through. A tenant subscribes by creating endpoints on it".
  Constants: `Nodes = {n1, n2}; Emitters = {e1, e3}; NodeOf = (e1 :> n1) @@ (e3 :>
  n2); Apps = {a1, a2}; MaxChanges = 2; MaxEvents = 3; MaxFaults = 0`.

### `Outbound`

- `RefusedIsNotSlow`, deliveryhttp/client.go:188. isRefused takes every net.DNSError,
  also one whose Timeout() is true, so a slow resolver marks the endpoint as refused
  and its lane drops to one in flight; deliveryhttp/client.go:180 says "isRefused
  reports the failures that mean "this endpoint is not there", as opposed to "this
  endpoint is slow"".
  Constants: `Calls = {c1}; Addrs = {a1}; Allowed = {a1}; TTL = 2; NegTTL = 1; MaxTime
  = 0; MaxChanges = 0; MaxCalls = 1`.
- `ExpiredIsPurged`, deliveryhttp/dnscache.go:122 (`FairSpec`). Nothing but a test
  calls Purge, so entries of hosts no longer used are never dropped;
  deliveryhttp/dnscache.go:120 says "Purge drops expired entries. The cache is small
  and bounded by the number of distinct endpoint hosts, so this runs on a timer rather
  than on every read."
  Constants: `Calls = {c1}; Addrs = {a1}; Allowed = {a1}; TTL = 2; NegTTL = 1; MaxTime
  = 3; MaxChanges = 0; MaxCalls = 1`.

### `Process`

- `FailedStartExits`, cmd/huxio/serve.go:275 (`FairSpec`). An error after the first
  group.Go returns without cancelling groupCtx or waiting for the group. The deferred
  pgxPool.Close runs before the deferred stop() and blocks on the connection
  listenOnce holds, so the process neither exits with the error nor runs its worker; a
  malformed HUXIO_ALLOW_SUBNETS is enough, which Validate does not look at although
  configs/config.go:309 says "Validate rejects configurations that would silently
  misbehave at runtime."
  Constants: `Nodes = {n1}; Misset = {n1}; Target = 0; MaxLaunches = 1; MaxReqs = 0;
  MaxWork = 0; MaxFaults = 0`.
- `NoRequestBounces`, cmd/huxio/serve.go:262. server.Shutdown is called directly after
  health.BeginShutdown; cmd/huxio/serve.go:254 says "Fail readiness first and only
  then stop accepting. The load balancer needs a health check cycle to notice; tearing
  the listener down before it does means requests it is still sending arrive at a
  closed socket."
  Constants: `Nodes = {n1}; Misset = {}; Target = 0; MaxLaunches = 1; MaxReqs = 1;
  MaxWork = 0; MaxFaults = 0`.

### `RetryPolicy`

- `FloorIsMinimum`, domain/retry/policy.go:110. Delay applies the floor first and then
  spreads by ten percent in both directions, so a retry after a timeout or a 429 may
  come after 27 s; domain/retry/policy.go:28 says "OverloadFloor is the minimum delay
  after a timeout or a 429".
  Constants: `Schedule = <<10, 20, 40>>; OverloadFloor = 15; Second = 5; HalfRange =
  128; Headers = {[kind |-> "none", value |-> 0]}`.
- `LongRetryAfterIsHonoured`, domain/retry/policy.go:125. time.Duration(seconds) *
  time.Second is not checked for overflow, so the largest values turn negative and are
  clamped up to d instead of down to 2d; domain/retry/policy.go:104 says "Honour
  Retry-After, but clamp it into [d, 2d]".
  Constants: `Schedule = <<10, 20, 40>>; OverloadFloor = 15; Second = 5; HalfRange =
  128; Headers = {[kind |-> "none", value |-> 0], [kind |-> "garbage", value |-> 0]}
  \cup {[kind |-> "seconds", value |-> v] : v \in {-1, 0, 3, 10, 30}} \cup {[kind |->
  "date", value |-> v] : v \in {-5, 25, 120}}`.

### `RateLimit`

- `ClusterKeepsLimit`, middleware/ratelimit.go:84. allow replaces a limiter whose
  share changed by a new, full one, and a starting node counts itself as the only one,
  so a key gets more than the limit around every start, stop or missed heartbeat of a
  node; middleware/ratelimit.go:22 says "RequestsPerSecond is the cluster-wide limit
  per key".
  Constants: `Nodes = {n1, n2}; Keys = {k1}; Limit = 2; PerSecond = 2; IdleEviction =
  4; TTL = 2; MaxTime = 2; MaxFaults = 1`.

### `ConfigSnapshot`

- `NoneLeftOut`, dispatch/engine.go:438. handleFanout compares the snapshot's age with
  the task only when nothing matches; with at least one match a stale snapshot expands
  without endpoints it has not seen, and the fan-out row is removed. The README says
  of acknowledged messages that the design "removes the "accepted but never
  delivered" class of bug entirely" (README.md:163).
  Constants: `Nodes = {n1}; Endpoints = {e1, e2}; Messages = {m1}; MaxClock = 5;
  MaxFaults = 0`.
- `DisabledIsFinal`, dispatch/engine.go:530. handleDeliver drops a task whose endpoint
  its snapshot shows as disabled without comparing the snapshot's age with the task,
  unlike the missing-endpoint case above it; the comment at dispatch/engine.go:531-532
  says "there is nothing to deliver to, and a retry would not change that".
  Constants: `Nodes = {n1, n2}; Endpoints = {e1}; Messages = {m1}; MaxClock = 6;
  MaxFaults = 0`.

### `TaskBudget`

- `LockOutlivesRequest`, configs/config.go:324. Validate only asks that TaskLockTTL
  exceeds WorkerRequestTimeout, although a claimed task may spend LaneWaitTimeout and
  its database calls before the request; configs/config.go:323 says "The claim lock
  must outlive the slowest possible delivery."
  Constants: `Tasks = {t1}; RequestTimeout = 3; TaskLockTTL = 4; LaneWaitTimeout = 2;
  Slack = 1; MaxInflight = 1; ClaimBatchSize = 1; MaxTime = 8`.
- `LockOutlivesRequest`, dispatch/engine.go:307. The lock runs from the claim, the
  task's context only from the slot, and the wait for a slot in claimAndDispatch has
  no deadline, so the default of request timeout plus 60 s does not keep the request
  inside the lock; configs/config.go:230 says "The lock TTL must outlast the request
  timeout plus a buffer. Set it shorter and a slow delivery's lock expires while the
  request is still on the wire".
  Constants: `Tasks = {t1, t2}; RequestTimeout = 3; TaskLockTTL = 0; LaneWaitTimeout =
  2; Slack = 1; MaxInflight = 1; ClaimBatchSize = 1; MaxTime = 14`.

## Not modelled

- HTTP routing, request decoding, the portal, OpenAPI, logging, telemetry and the
  parsing of settings hold no protocol state. Benchmarks and development commands
  are not part of the running system.
- Signing, sealing, the payload codec, ids and tokens are functions over bytes. The
  messages they reject are the constant `Unsendable` of `Delivery`, the lengths of
  keys appear in `EndpointAdmin`.
- The outbound client's connection pool is the standard library's, and which
  addresses its guard allows is a constant of `Outbound`.
- Clocks of different processes and of the database are one clock. Postgres is
  modelled by what the statements rely on: atomic commits, row locks, waiting for a
  conflicting key, one advisory lock.
- Components are checked next to each other, not composed: `Delivery` leaves open
  what lanes, snapshots and leases decide, so its results hold whatever they do, with
  the exception of the assumption on the first snapshot named above.
