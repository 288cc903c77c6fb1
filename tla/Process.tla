-------------------------------- MODULE Process --------------------------------
(* The life of huxio processes: migrations at start, the errgroup of serve,      *)
(* readiness and the load balancer, the worker's shutdown order, the exit.       *)
(*                                                                               *)
(* Several nodes are deployed at once on one database.  proc[n].members are the  *)
(* goroutines of serve's errgroup; cancelled is its context.                     *)
EXTENDS Integers, FiniteSets, Sequences

CONSTANTS
  Nodes,
  Misset,      \* nodes whose worker cannot be built from their configuration
  Target,      \* migrations this release has
  MaxLaunches, MaxReqs, MaxWork, MaxFaults

ProcessAssumption ==
  /\ Misset \subseteq Nodes
  /\ {Target, MaxLaunches, MaxReqs, MaxWork, MaxFaults} \subseteq Nat

VARIABLES
  proc,
  schema,      \* migrations applied
  lock,        \* holders of the advisory lock
  registry,    \* worker_registry
  routed,      \* nodes the load balancer sends requests to
  launches, sent, work, faults,
  clashed, bounced, killed, lost, leftover, timedOut \* history

vars == <<proc, schema, lock, registry, routed, launches, sent, work, faults,
          clashed, bounced, killed, lost, leftover, timedOut>>
counts == <<launches, sent, work, faults>>
past == <<clashed, bounced, killed, lost, leftover, timedOut>>

\* The goroutines in the order serve starts them, and those of the worker's own group.
Order == <<"config", "http", "drain", "worker">>
Members == {Order[i] : i \in 1..Len(Order)}
Inner == {"heartbeat", "engine"}

Down == [at |-> "down", seen |-> 0, cancelled |-> FALSE, failed |-> FALSE, members |-> {}, next |-> 1,
         listening |-> FALSE, socket |-> "new", unready |-> FALSE, reqs |-> 0,
         worker |-> "off", inner |-> {}, inflight |-> 0, buffer |-> 0]

(* One type invariant. *)
TypeOK ==
  /\ proc \in [Nodes -> [at: {"down", "lock", "migrate", "load", "start", "wait", "close"}, seen: 0..Target,
                         cancelled: BOOLEAN, failed: BOOLEAN, members: SUBSET Members, next: 1..(Len(Order) + 1),
                         listening: BOOLEAN, socket: {"new", "open", "closed"}, unready: BOOLEAN,
                         reqs: 0..MaxReqs, worker: {"off", "register", "run", "flush", "deregister"},
                         inner: SUBSET Inner, inflight: 0..MaxWork, buffer: 0..MaxWork]]
  /\ schema \in 0..Target /\ lock \subseteq Nodes /\ registry \subseteq Nodes /\ routed \subseteq Nodes
  /\ launches \in 0..MaxLaunches /\ sent \in 0..MaxReqs /\ work \in 0..MaxWork /\ faults \in 0..MaxFaults
  /\ {clashed, bounced} \subseteq BOOLEAN
  /\ {killed, lost, leftover, timedOut} \subseteq SUBSET Nodes

Init ==
  /\ proc = [n \in Nodes |-> Down] /\ schema = 0 /\ lock = {} /\ registry = {} /\ routed = {}
  /\ launches = 0 /\ sent = 0 /\ work = 0 /\ faults = 0
  /\ clashed = FALSE /\ bounced = FALSE
  /\ killed = {} /\ lost = {} /\ leftover = {} /\ timedOut = {}

Set(n, p) == proc' = [proc EXCEPT ![n] = p]
Fault == faults < MaxFaults /\ faults' = faults + 1
\* The clauses every step inside a running process leaves alone.
Inside == UNCHANGED <<schema, lock, routed, launches, sent>>
\* A member of the errgroup returns; an error cancels the others.
Return(p, m) == [p EXCEPT !.members = @ \ {m}]
ReturnErr(p, m) == [p EXCEPT !.members = @ \ {m}, !.cancelled = TRUE, !.failed = TRUE]

-------------------------------------------------------------------------------
(* Start. *)

Launch(n) ==
  /\ proc[n].at = "down" /\ launches < MaxLaunches /\ launches' = launches + 1
  /\ Set(n, [Down EXCEPT !.at = "lock"])
  /\ UNCHANGED <<schema, lock, registry, routed, sent, work, faults, past>>

\* The session lock; what is pending is read under it.
LockIgnored == TRUE
LockFree == lock = {}
newProvider(n) ==
  /\ proc[n].at = "lock" /\ LockFree
  /\ lock' = lock \cup {n}
  /\ Set(n, [proc[n] EXCEPT !.at = "migrate", !.seen = schema])
  /\ UNCHANGED <<schema, registry, routed, counts, past>>
\* One migration in its transaction; one that is there already fails.
Up(n) ==
  /\ proc[n].at = "migrate" /\ proc[n].seen < Target
  /\ IF schema = proc[n].seen
     THEN schema' = schema + 1 /\ Set(n, [proc[n] EXCEPT !.seen = @ + 1]) /\ UNCHANGED <<lock, clashed>>
     ELSE clashed' = TRUE /\ lock' = lock \ {n} /\ Set(n, Down) /\ UNCHANGED schema
  /\ UNCHANGED <<registry, routed, counts, bounced, killed, lost, leftover, timedOut>>
Migrated(n) ==
  /\ proc[n].at = "migrate" /\ proc[n].seen = Target
  /\ lock' = lock \ {n} /\ Set(n, [proc[n] EXCEPT !.at = "load"])
  /\ UNCHANGED <<schema, registry, routed, counts, past>>
\* An error before the first goroutine: serve returns it.
StartFails(n) ==
  /\ proc[n].at \in {"lock", "migrate", "load"}
  /\ (proc[n].cancelled /\ UNCHANGED faults) \/ Fault
  /\ lock' = lock \ {n} /\ Set(n, Down)
  /\ UNCHANGED <<schema, registry, routed, launches, sent, work, past>>
Load(n) ==
  /\ proc[n].at = "load" /\ Set(n, [proc[n] EXCEPT !.at = "start"])
  /\ Inside /\ UNCHANGED <<registry, work, faults, past>>

\* The goroutines start one by one; the worker is built just before the last.
StartMember(n) ==
  LET p == proc[n] IN
  /\ p.at = "start" /\ p.next <= Len(Order) /\ Order[p.next] # "worker"
  /\ Set(n, [p EXCEPT !.members = @ \cup {Order[p.next]}, !.next = @ + 1])
  /\ Inside /\ UNCHANGED <<registry, work, faults, past>>
\* An error here returns from serve past the goroutines already started.
StartWorker(n) ==
  LET p == proc[n] IN
  /\ p.at = "start" /\ Order[p.next] = "worker"
  /\ Set(n, IF n \in Misset THEN [p EXCEPT !.at = "close", !.failed = TRUE]
            ELSE [p EXCEPT !.members = @ \cup {"worker"}, !.worker = "register", !.next = @ + 1, !.at = "wait"])
  /\ Inside /\ UNCHANGED <<registry, work, faults, past>>

-------------------------------------------------------------------------------
(* While it runs. *)

Signal(n) ==
  /\ proc[n].at # "down" /\ ~proc[n].cancelled
  /\ Set(n, [proc[n] EXCEPT !.cancelled = TRUE])
  /\ Inside /\ UNCHANGED <<registry, work, faults, past>>

\* The snapshot refresher holds one connection of the pool for its notifications.
listenOnce(n) ==
  LET p == proc[n] IN
  /\ "config" \in p.members /\ ~p.cancelled /\ ~p.listening /\ p.at # "close"
  /\ Set(n, [p EXCEPT !.listening = TRUE])
  /\ Inside /\ UNCHANGED <<registry, work, faults, past>>
ConfigStops(n) ==
  LET p == proc[n] IN
  /\ "config" \in p.members /\ p.cancelled
  /\ Set(n, Return(p, "config"))
  /\ Inside /\ UNCHANGED <<registry, work, faults, past>>
ListenStops(n) ==
  /\ proc[n].listening /\ proc[n].cancelled
  /\ Set(n, [proc[n] EXCEPT !.listening = FALSE])
  /\ Inside /\ UNCHANGED <<registry, work, faults, past>>

\* The listener; it may fail to bind, and returns once it is shut down.
ListenAndServe(n) ==
  LET p == proc[n] IN
  /\ "http" \in p.members
  /\ \/ p.socket = "new" /\ Set(n, [p EXCEPT !.socket = "open"]) /\ UNCHANGED faults
     \/ p.socket = "new" /\ Fault /\ Set(n, ReturnErr(p, "http"))
     \/ p.socket = "closed" /\ Set(n, Return(p, "http")) /\ UNCHANGED faults
  /\ Inside /\ UNCHANGED <<registry, work, past>>
BeginShutdown(n) ==
  LET p == proc[n] IN
  /\ "drain" \in p.members /\ p.cancelled /\ ~p.unready
  /\ Set(n, [p EXCEPT !.unready = TRUE])
  /\ Inside /\ UNCHANGED <<registry, work, faults, past>>
CloseSocket(n) ==
  LET p == proc[n] IN
  /\ "drain" \in p.members /\ p.unready /\ p.socket # "closed"
  /\ Set(n, [p EXCEPT !.socket = "closed"])
  /\ Inside /\ UNCHANGED <<registry, work, faults, past>>
\* Shutdown waits for the requests, for ten seconds at most.
DrainAtOnce(n) == timedOut' = timedOut
DrainForever(n) == proc[n].reqs = 0 /\ timedOut' = timedOut
Drain(n) == IF proc[n].reqs = 0 THEN timedOut' = timedOut ELSE timedOut' = timedOut \cup {n}
Drained(n) ==
  LET p == proc[n] IN
  /\ "drain" \in p.members /\ p.unready /\ p.socket = "closed" /\ Drain(n)
  /\ Set(n, Return(p, "drain"))
  /\ Inside /\ UNCHANGED <<registry, work, faults, clashed, bounced, killed, lost, leftover>>

\* The worker registers; an error ends it and the process with it.
register(n) ==
  LET p == proc[n] IN
  /\ "worker" \in p.members /\ p.worker = "register"
  /\ \/ /\ registry' = registry \cup {n} /\ UNCHANGED faults
        /\ Set(n, [p EXCEPT !.worker = "run", !.inner = Inner])
     \/ /\ (p.cancelled /\ UNCHANGED faults) \/ Fault
        /\ Set(n, ReturnErr([p EXCEPT !.worker = "off"], "worker")) /\ UNCHANGED registry
  /\ Inside /\ UNCHANGED <<work, past>>
\* The row is written again, also in the middle of a shutdown.
heartbeat(n) ==
  /\ "heartbeat" \in proc[n].inner /\ n \notin registry
  /\ registry' = registry \cup {n}
  /\ Inside /\ UNCHANGED <<proc, work, faults, past>>
\* Maintenance takes the row of a worker whose heartbeat is late for that of a dead one.
Reap(n) ==
  /\ n \in registry /\ Fault /\ registry' = registry \ {n}
  /\ Inside /\ UNCHANGED <<proc, work, past>>
\* A claimed task is sent, and its attempt handed to the writer.
Claim(n) ==
  LET p == proc[n] IN
  /\ "engine" \in p.inner /\ ~p.cancelled /\ work < MaxWork /\ work' = work + 1
  /\ Set(n, [p EXCEPT !.inflight = @ + 1])
  /\ Inside /\ UNCHANGED <<registry, faults, past>>
Attempted(n) ==
  LET p == proc[n] IN
  /\ p.inflight > 0 /\ Set(n, [p EXCEPT !.inflight = @ - 1, !.buffer = @ + 1])
  /\ Inside /\ UNCHANGED <<registry, work, faults, past>>
\* A batch leaves the buffer; the rows of one that failed are delivered again (see Delivery).
Flush(n) ==
  LET p == proc[n] IN
  /\ p.worker \in {"run", "flush"} /\ p.buffer > 0 /\ Set(n, [p EXCEPT !.buffer = 0])
  /\ Inside /\ UNCHANGED <<registry, work, faults, past>>
\* The goroutines of the worker's group stop, the engine when its deliveries are done.
InnerStops(n) ==
  LET p == proc[n] IN
  /\ p.cancelled
  /\ \E g \in p.inner : (g = "engine" => p.inflight = 0) /\ Set(n, [p EXCEPT !.inner = @ \ {g}])
  /\ Inside /\ UNCHANGED <<registry, work, faults, past>>
\* The writer is stopped after them, and makes a last flush.
MayStopAtOnce(p) == p.cancelled
MayStopEngines(p) == "engine" \notin p.inner
MayStop(p) == p.inner = {}
StopWriter(n) ==
  LET p == proc[n] IN
  /\ p.worker = "run" /\ p.cancelled /\ MayStop(p) /\ Set(n, [p EXCEPT !.worker = "flush"])
  /\ Inside /\ UNCHANGED <<registry, work, faults, past>>
deregister(n) ==
  LET p == proc[n] IN
  /\ p.worker = "flush" /\ p.buffer = 0
  /\ \/ registry' = registry \ {n} /\ UNCHANGED <<faults, leftover>>
     \/ Fault /\ leftover' = leftover \cup {n} /\ UNCHANGED registry
  /\ Set(n, Return([p EXCEPT !.worker = "deregister"], "worker"))
  /\ Inside /\ UNCHANGED <<work, clashed, bounced, killed, lost, timedOut>>

-------------------------------------------------------------------------------
(* The end. *)

Wait(n) ==
  /\ proc[n].at = "wait" /\ proc[n].members = {}
  /\ Set(n, [proc[n] EXCEPT !.at = "close"])
  /\ Inside /\ UNCHANGED <<registry, work, faults, past>>
\* Closing the pool waits for its connections; then the process is gone.
PoolIdle(p) == ~p.listening
Exit(n) ==
  LET p == proc[n] IN
  /\ p.at = "close" /\ PoolIdle(p)
  /\ killed' = IF p.reqs > 0 THEN killed \cup {n} ELSE killed
  /\ lost' = IF p.buffer + p.inflight > 0 THEN lost \cup {n} ELSE lost
  /\ Set(n, Down)
  /\ Inside /\ UNCHANGED <<registry, work, faults, clashed, bounced, leftover, timedOut>>
Crash(n) ==
  /\ proc[n].at # "down" /\ Fault
  /\ Set(n, Down) /\ lock' = lock \ {n} /\ leftover' = leftover \cup {n}
  /\ UNCHANGED <<schema, registry, routed, launches, sent, work, clashed, bounced, killed, lost, timedOut>>

-------------------------------------------------------------------------------
(* The load balancer. *)

Ready(p) == p.socket = "open" /\ ~p.unready /\ p.at # "close"
Probe(n) ==
  /\ (n \in routed) # Ready(proc[n])
  /\ routed' = IF Ready(proc[n]) THEN routed \cup {n} ELSE routed \ {n}
  /\ UNCHANGED <<proc, schema, lock, registry, counts, past>>
\* A request reaches a handler, or a socket that is closed.
Send(n) ==
  /\ n \in routed /\ sent < MaxReqs /\ sent' = sent + 1
  /\ IF proc[n].socket = "open" THEN Set(n, [proc[n] EXCEPT !.reqs = @ + 1]) /\ UNCHANGED bounced
                                ELSE bounced' = TRUE /\ UNCHANGED proc
  /\ UNCHANGED <<schema, lock, registry, routed, launches, work, faults, clashed, killed, lost, leftover, timedOut>>
Answer(n) ==
  /\ proc[n].reqs > 0 /\ Set(n, [proc[n] EXCEPT !.reqs = @ - 1])
  /\ Inside /\ UNCHANGED <<registry, work, faults, past>>

Starting(n) == newProvider(n) \/ Up(n) \/ Migrated(n) \/ Load(n) \/ StartMember(n) \/ StartWorker(n)
Stopping(n) ==
  \/ ConfigStops(n) \/ BeginShutdown(n) \/ CloseSocket(n) \/ Drained(n)
  \/ InnerStops(n) \/ StopWriter(n) \/ deregister(n)
Next ==
  \E n \in Nodes :
    \/ Launch(n) \/ Starting(n) \/ StartFails(n) \/ Signal(n)
    \/ listenOnce(n) \/ ListenStops(n) \/ ListenAndServe(n) \/ register(n) \/ heartbeat(n) \/ Reap(n)
    \/ Claim(n) \/ Attempted(n) \/ Flush(n) \/ Stopping(n) \/ Wait(n) \/ Exit(n) \/ Crash(n)
    \/ Probe(n) \/ Send(n) \/ Answer(n)

Spec == Init /\ [][Next]_vars
(* Every goroutine keeps running and the statements and deliveries it waits for  *)
(* come back.  Nobody has to finish a request: one may be a stream.              *)
FairSpec ==
  /\ Spec
  /\ \A n \in Nodes :
       /\ WF_vars(Starting(n)) /\ WF_vars(listenOnce(n)) /\ WF_vars(ListenStops(n))
       /\ WF_vars(ListenAndServe(n)) /\ WF_vars(register(n))
       /\ WF_vars(Attempted(n)) /\ WF_vars(Flush(n)) /\ WF_vars(Stopping(n)) /\ WF_vars(Wait(n)) /\ WF_vars(Exit(n))

-------------------------------------------------------------------------------
(* Properties. *)

(* Nodes that start together do not fail on each other's migrations: a pending   *)
(* migration is applied by one of them, also when the one applying it crashes    *)
(* (newProvider's session lock).                                                 *)
NoMigrationClash == ~clashed

(* A process that ends in order has sent what it claimed and has written every   *)
(* attempt it made (Runner.Run: the writer outlives the engines, and the pool    *)
(* outlives both).                                                               *)
AttemptsAreFlushed == lost = {}

(* A process that has ended in order is no longer counted as a live worker: its  *)
(* heartbeat cannot bring the row back (Runner.Run, deregister).                 *)
GoneIsDeregistered == \A n \in Nodes \ leftover : proc[n].at = "down" => n \notin registry

(* A request that was accepted is answered before its process exits, unless the  *)
(* ten seconds for it have passed (the shutdown goroutine of serve).             *)
AcceptedIsAnswered == killed \subseteq timedOut

(* A signalled process exits, whatever it was doing and whoever keeps a          *)
(* connection to it open (serve's shutdown as a whole).                          *)
SignalledExits == \A n \in Nodes : proc[n].cancelled ~> proc[n].at = "down"

(* A process that could not be started as configured ends with its error.        *)
FailedStartExits == \A n \in Nodes : (proc[n].at = "close" /\ proc[n].failed) ~> proc[n].at = "down"

(* Requests do not arrive at a closed socket: the listener is torn down only     *)
(* after the load balancer has had a health check cycle to notice.               *)
NoRequestBounces == ~bounced
===============================================================================
