-------------------------------- MODULE MCApi --------------------------------
(* What users of the API see: sending a message under the rate limit            *)
(* (RateLimit), an idempotency key (Idempotency) and an event id                 *)
(* (MessageIntake), when deliveries are retried (RetryPolicy), reading and       *)
(* replaying the delivery log (AttemptLog, Replay), editing endpoints            *)
(* (EndpointAdmin) and event types (EventTypes), and operational events          *)
(* (Operational).                                                                *)
(*                                                                               *)
(* The components share no variable here.  part says which one of them runs,     *)
(* so that a run explores the sum of their state spaces and not the product.     *)
EXTENDS RetryPolicy

CONSTANTS Parts

\* A schedule of three retries; headers absent, unparseable, negative, short, long,
\* wrapping and dates.
ScheduleDef == <<10, 20, 40>>
HeadersDef ==
  {[kind |-> "none", value |-> 0], [kind |-> "garbage", value |-> 0]}
  \cup {[kind |-> "seconds", value |-> v] : v \in {-1, 0, 3, 10, 30}}
  \cup {[kind |-> "date", value |-> v] : v \in {-5, 25, 120}}

VARIABLES
  part,
  row, req, created, excuse, overlap, failed,                              \* Idempotency
  now, call, stored, queued, dropped, requests, broken,                    \* MessageIntake
  tick, up, seen, count, limiter, sweep, admitted, fresh, total, changed, missed,  \* RateLimit
  clock, buffered, log, walk, stream, drops, streams, late, crowded,       \* AttemptLog
  time, history, unwritten, queue, replay, failures, faults, resends,      \* Replay
  date, endpoint, edit, keys, ops, acked, retired, intended, raced,        \* EndpointAdmin
  entry, update, tries, ups, downs, wanted, crossed,                       \* EventTypes
  app, snap, appIDs, em, changes, events, lapses, landed, stray            \* Operational

Off == "off"
keyVars == <<row, req, created, excuse, overlap, failed>>
intakeVars == <<now, call, stored, queued, dropped, requests, broken>>
rateVars == <<tick, up, seen, count, limiter, sweep, admitted, fresh, total, changed, missed>>
logVars == <<clock, buffered, log, walk, stream, drops, streams, late, crowded>>
replayVars == <<time, history, unwritten, queue, replay, failures, faults, resends>>
adminVars == <<date, endpoint, edit, keys, ops, acked, retired, intended, raced>>
typeVars == <<entry, update, tries, ups, downs, wanted, crossed>>
operVars == <<app, snap, appIDs, em, changes, events, lapses, landed, stray>>
sendVars == <<vars, keyVars, intakeVars, rateVars>>
readVars == <<logVars, replayVars>>
editVars == <<adminVars, typeVars, operVars>>

\* Three requests with one key.
I == INSTANCE Idempotency WITH
  Requests <- {"r1", "r2", "r3"}, MaxMessages <- 2, MaxFaults <- 1, faults <- failed

\* Two callers send and repeat one event id, over three days of one second.
G == INSTANCE MessageIntake WITH
  Callers <- {"c1", "c2"}, EventIDs <- {"u1"}, Periods <- {0}, MaxPeriod <- 3, DefaultPeriod <- 1,
  DaySecs <- 1, MaxTime <- 2, MaxRequests <- 3, MaxFaults <- 2, faults <- broken

\* One node and two keys, long enough for an idle limiter to be dropped and rebuilt.
Shares == INSTANCE RateLimit WITH
  Nodes <- {"n1"}, Keys <- {"k1", "k2"}, Limit <- 2, PerSecond <- 2, IdleEviction <- 3, TTL <- 2,
  MaxTime <- 7, MaxFaults <- 0, now <- tick, faults <- missed

\* Two nodes that know of each other.
Stable == INSTANCE RateLimit WITH
  Nodes <- {"n1", "n2"}, Keys <- {"k1"}, Limit <- 2, PerSecond <- 2, IdleEviction <- 4, TTL <- 2,
  MaxTime <- 4, MaxFaults <- 0, now <- tick, faults <- missed

\* Three attempts with equal times among them, page sizes 0, 1 and 3, a retention drop,
\* and a tail with a page size of two.
D == INSTANCE AttemptLog WITH
  Ids <- {1, 2, 3}, MaxTime <- 1, DefaultPageSize <- 2, MaxPageSize <- 2, Limits <- {0, 1, 3},
  StreamLimit <- 2, MaxDrops <- 1, MaxStreams <- 1

\* Two failed messages of different types, a batch of one, open and closed windows.
R == INSTANCE Replay WITH
  Msgs <- {1, 2}, Endpoints <- {"e1"}, EventType <- <<"invoice", "user">>,
  TypeSets <- {{"invoice", "user"}},
  Windows <- {[since |-> s, until |-> u] : s \in {0, 2}, u \in {-1, 2}},
  MaxReplayBatch <- 1, MaxTasks <- 1, MaxBuffered <- 2, MaxAttempts <- 3, MaxFailures <- 2,
  MaxFaults <- 1, MaxResends <- 1,
  clock <- time, log <- history, buffered <- unwritten, call <- replay

\* Two clients change the url, the flag or the headers in two spellings, or delete the endpoint.
A == INSTANCE EndpointAdmin WITH
  Clients <- {"c1", "c2"}, Secrets <- {1}, Generated <- {1}, SecretType <- "hmac-sha256",
  Urls <- {"u1", "u2"}, Flags <- BOOLEAN, Names <- {"h1"}, Spellings <- {"upper", "lower"},
  Overlap <- 1, MaxTime <- 0, MaxOps <- 3,
  now <- date, row <- endpoint, req <- edit, snap <- keys

\* Two clients rotate the secret, over two overlap windows.
Rollover == INSTANCE EndpointAdmin WITH
  Clients <- {"c1", "c2"}, Secrets <- {1, 2, 3, 4}, Generated <- {1, 2, 3}, SecretType <- "hmac-sha256",
  Urls <- {"u1"}, Flags <- {}, Names <- {}, Spellings <- {}, Overlap <- 1, MaxTime <- 3, MaxOps <- 3,
  now <- date, row <- endpoint, req <- edit, snap <- keys

\* Two clients and one event type.
T == INSTANCE EventTypes WITH
  Clients <- {"c1", "c2"}, Texts <- {"t1", "t2"}, MaxOps <- 6,
  row <- entry, req <- update, ops <- tries, intended <- wanted, raced <- crossed

\* Two goroutines of one process and one of another emit their first events.
Agree == INSTANCE Operational WITH
  Nodes <- {"n1", "n2"}, Emitters <- {"g1", "g2", "g3"},
  NodeOf <- [g \in {"g1", "g2", "g3"} |-> IF g = "g3" THEN "n2" ELSE "n1"],
  Apps <- {"a1", "a2"}, MaxChanges <- 0, MaxEvents <- 4, MaxFaults <- 1, faults <- lapses

\* The tenant creates, renames and deletes applications meanwhile.
Lookup == INSTANCE Operational WITH
  Nodes <- {"n1", "n2"}, Emitters <- {"g1", "g2"},
  NodeOf <- [g \in {"g1", "g2"} |-> IF g = "g2" THEN "n2" ELSE "n1"],
  Apps <- {"a1", "a2"}, MaxChanges <- 2, MaxEvents <- 2, MaxFaults <- 1, faults <- lapses

ASSUME PolicyAssumption
ASSUME ApiSizes ==
  /\ I!IdempotencyAssumption /\ G!IntakeAssumption /\ Shares!RateAssumption
  /\ Stable!RateAssumption /\ D!LogAssumption /\ R!ReplayAssumption
  /\ A!AdminAssumption /\ Rollover!AdminAssumption /\ T!EventTypesAssumption
  /\ Agree!OperationalAssumption /\ Lookup!OperationalAssumption

\* A component that does not take part has no state.
KeyOff ==
  /\ row = Off /\ req = Off /\ created = Off /\ excuse = Off /\ overlap = Off /\ failed = Off
IntakeOff ==
  /\ now = Off /\ call = Off /\ stored = Off /\ queued = Off /\ dropped = Off
  /\ requests = Off /\ broken = Off
RateOff ==
  /\ tick = Off /\ up = Off /\ seen = Off /\ count = Off /\ limiter = Off /\ sweep = Off
  /\ admitted = Off /\ fresh = Off /\ total = Off /\ changed = Off /\ missed = Off
LogOff ==
  /\ clock = Off /\ buffered = Off /\ log = Off /\ walk = Off /\ stream = Off
  /\ drops = Off /\ streams = Off /\ late = Off /\ crowded = Off
ReplayOff ==
  /\ time = Off /\ history = Off /\ unwritten = Off /\ queue = Off /\ replay = Off
  /\ failures = Off /\ faults = Off /\ resends = Off

AdminOff ==
  /\ date = Off /\ endpoint = Off /\ edit = Off /\ keys = Off /\ ops = Off
  /\ acked = Off /\ retired = Off /\ intended = Off /\ raced = Off
TypesOff ==
  /\ entry = Off /\ update = Off /\ tries = Off /\ ups = Off /\ downs = Off
  /\ wanted = Off /\ crossed = Off
OperOff ==
  /\ app = Off /\ snap = Off /\ appIDs = Off /\ em = Off /\ changes = Off
  /\ events = Off /\ lapses = Off /\ landed = Off /\ stray = Off

MCInit ==
  /\ part \in Parts /\ Init
  /\ IF part = "keys" THEN I!Init ELSE KeyOff
  /\ IF part = "intake" THEN G!Init ELSE IntakeOff
  /\ CASE part = "shares" -> Shares!Init [] part = "stable" -> Stable!Init [] OTHER -> RateOff
  /\ IF part = "log" THEN D!Init ELSE LogOff
  /\ IF part = "replay" THEN R!Init ELSE ReplayOff
  /\ CASE part = "admin" -> A!Init [] part = "rollover" -> Rollover!Init [] OTHER -> AdminOff
  /\ IF part = "types" THEN T!Init ELSE TypesOff
  /\ CASE part = "agree" -> Agree!Init [] part = "lookup" -> Lookup!Init [] OTHER -> OperOff
MCNext ==
  /\ UNCHANGED part
  /\ \/ part = "retry" /\ Next /\ UNCHANGED <<keyVars, intakeVars, rateVars, readVars, editVars>>
     \/ part = "keys" /\ I!Next /\ UNCHANGED <<vars, intakeVars, rateVars, readVars, editVars>>
     \/ part = "intake" /\ G!Next /\ UNCHANGED <<vars, keyVars, rateVars, readVars, editVars>>
     \/ part = "shares" /\ Shares!Next /\ UNCHANGED <<vars, keyVars, intakeVars, readVars, editVars>>
     \/ part = "stable" /\ Stable!Next /\ UNCHANGED <<vars, keyVars, intakeVars, readVars, editVars>>
     \/ part = "log" /\ D!Next /\ UNCHANGED <<sendVars, replayVars, editVars>>
     \/ part = "replay" /\ R!Next /\ UNCHANGED <<sendVars, logVars, editVars>>
     \/ part = "admin" /\ A!Next /\ UNCHANGED <<sendVars, readVars, typeVars, operVars>>
     \/ part = "rollover" /\ Rollover!Next /\ UNCHANGED <<sendVars, readVars, typeVars, operVars>>
     \/ part = "types" /\ T!Next /\ UNCHANGED <<sendVars, readVars, adminVars, operVars>>
     \/ part = "agree" /\ Agree!Next /\ UNCHANGED <<sendVars, readVars, adminVars, typeVars>>
     \/ part = "lookup" /\ Lookup!Next /\ UNCHANGED <<sendVars, readVars, adminVars, typeVars>>
MCVars == <<part, sendVars, readVars, editVars>>
MCSpec == MCInit /\ [][MCNext]_MCVars

------------------------------------------------------------------------------
(* However many duplicates of a request arrive, and however they           *)
(* interleave with the statements of the first, there is one message and   *)
(* every client that gets an answer gets the original one, except after a  *)
(* handler that outlived its lock, a crash, a response that was not stored *)
(* or is past its TTL, or a commit that was reported as an error. A row    *)
(* that replays a response was completed by the handler that created the   *)
(* message it names (the idempotency middleware, Begin, Complete, Abort).  *)
KeysAnswerOnce ==
  part = "keys" => I!KeysAnswerOnce

(* A message and its fan-out row are there together or not at all,         *)
(* whatever fails in between; of requests with one event id in the same    *)
(* second one is accepted, also when they run at once; and a stored        *)
(* message is found by its id although only one day is searched (Ingest,   *)
(* message_uid_idx, GetMessage).                                           *)
IntakeIsSound ==
  part = "intake" => G!IntakeIsSound

(* Between two changes of its share a node admits, for each key, no more   *)
(* than one burst and the share per second, although idle limiters are     *)
(* dropped and rebuilt full meanwhile. While the set of nodes never        *)
(* changes and has no more than Limit members, the whole cluster admits no *)
(* more than Limit per second and one second's burst (limiterSet.allow,    *)
(* share, sweepLocked).                                                    *)
LimitIsKept ==
  /\ (part = "shares" => Shares!TypeOK /\ Shares!ShareIsKept)
  /\ (part = "stable" => Stable!TypeOK /\ Stable!StableClusterKeepsLimit)

(* A client that follows the cursors to the end has seen every attempt     *)
(* that was committed when it began and was not dropped meanwhile, and     *)
(* none twice. A live tail sends attempts in strictly increasing order of  *)
(* the log, however long it takes to write them, and what it passed        *)
(* without sending became visible only after its query had read one not    *)
(* older, or did not fit in a page (ApplyKeysetCursor, BuildCursorResult,  *)
(* Serve).                                                                 *)
LogReadsAreExact ==
  part = "log" => D!TypeOK /\ D!WalkIsExact /\ D!TailIsOrdered /\ D!TailLosesOnlyLateOrCrowded

(* A replay answered without error and without "truncated" has queued      *)
(* every delivery whose last attempt, of all the log held when it was      *)
(* read, failed inside the window, and counts the tasks it queued. With an *)
(* open-ended window it queues nothing whose last attempt in the log       *)
(* succeeded or is to be retried (replay, enqueueReplays,                  *)
(* ListFailedDeliveries).                                                  *)
ReplayTakesTheFailed ==
  part = "replay" => R!TypeOK /\ R!AnswerIsComplete /\ R!OpenReplayTakesOnlyFailed

(* A secret that had been returned to a caller when a worker built its     *)
(* snapshot signs that worker's deliveries until the overlap has passed    *)
(* since the rotation that replaced it took its time, through any number   *)
(* of rotations, also ones whose caller never got the new secret, unless a *)
(* request wrote from a stale copy (RotateSecret, ActiveSecrets).          *)
RolloverHasNoGap ==
  part = "rollover" => Rollover!TypeOK /\ Rollover!RolloverHasNoGap

(* Each request changes its own columns and no others: the columns of      *)
(* endpoints and event types are what the statements that took effect were *)
(* to make of them, unless one wrote back what another request had changed *)
(* since it was read. Acknowledged requests are among them; a request that *)
(* reported an error may be, when its answer was lost or when an update's  *)
(* columns were written before setDisabled failed. And of the creates and  *)
(* unarchives of an event type that took effect, all but the last were     *)
(* undone by an archive (UpdateEndpoint, PatchHeaders, setDisabled,        *)
(* EventTypeUseCase).                                                      *)
EditsAreKept ==
  /\ (part = "admin" => A!TypeOK /\ A!EditsAreKept)
  /\ (part = "types" => T!TypeOK /\ T!LifecycleAddsUp /\ T!CatalogueIsKept)

(* No request that read the row before brings a deleted endpoint back or   *)
(* changes it, and while an event type is archived its columns do not      *)
(* change (the deleted_at guards of the updates).                          *)
RetiredStaysRetired == [][(part = "admin" => A!DeletedIsFinal)
                          /\ (part = "types" => T!FrozenWhileArchived)]_MCVars

(* While the tenant has changed nothing, every operational event of every  *)
(* process lands in one application and none is refused, whoever created   *)
(* it and however far each snapshot lags. And whatever the tenant does, an *)
(* event whose process had no cached id, begun after the tenant's last     *)
(* change, reaches the reserved application (reservedApp, appResolver).    *)
OperationalEventsArrive ==
  /\ (part = "agree" => Agree!TypeOK /\ Agree!EmittersAgree)
  /\ (part = "lookup" => Lookup!TypeOK /\ Lookup!LookedUpEventsArrive)
==============================================================================
