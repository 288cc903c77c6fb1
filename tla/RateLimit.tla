------------------------------- MODULE RateLimit ------------------------------
(* API rate limiting: every API node enforces its slice of the cluster-wide    *)
(* limit in local memory (middleware/ratelimit.go) and learns the number of    *)
(* nodes from the registry it heartbeats (application/nodes).                  *)
(*                                                                             *)
(* A request takes no time.  A tick is 1/PerSecond of a second and tokens are  *)
(* counted in 1/Unit, so that a tick refills a whole number of units; Limit is *)
(* a multiple of every node count below it.                                    *)
EXTENDS Integers, FiniteSets, FiniteSetsExt

CONSTANTS
  Nodes, Keys,
  Limit,         \* RequestsPerSecond, the cluster-wide limit per key
  PerSecond,     \* ticks per second; a token is PerSecond units
  IdleEviction,  \* ticks without a request after which a limiter is dropped
  TTL,           \* ticks a registry row survives without a heartbeat
  MaxTime,       \* bound on the clock
  MaxFaults      \* bound on failing registry statements, crashes, starts and stops

RateAssumption ==
  /\ {Limit, PerSecond, IdleEviction, TTL} \subseteq Nat \ {0} /\ {MaxTime, MaxFaults} \subseteq Nat
  /\ \A n \in 1..Cardinality(Nodes) : n <= Limit => Limit % n = 0

VARIABLES
  now,
  up,        \* processes that serve requests
  seen,      \* worker_registry: tick of the last heartbeat, or -1 for no row
  count,     \* Registry.count
  limiter,   \* limiterSet.limiters, per node and key
  sweep,     \* limiterSet.lastSweep
  admitted,  \* history: requests admitted per node and key since fresh
  fresh,     \* history: when a node's share last changed, or it started
  total,     \* history: requests admitted per key in the cluster
  changed,   \* history: some share has changed since the beginning
  faults

vars == <<now, up, seen, count, limiter, sweep, admitted, fresh, total, changed, faults>>

NoLimiter == [share |-> 0, units |-> 0, at |-> 0, used |-> 0]

(* One type invariant; a bucket never holds less than nothing, so a refused    *)
(* request has given its token back (CancelAt).                                *)
TypeOK ==
  /\ now \in 0..MaxTime /\ up \subseteq Nodes /\ seen \in [Nodes -> -1..MaxTime]
  /\ count \in [Nodes -> 1..Cardinality(Nodes)]
  /\ limiter \in [Nodes -> [Keys -> [share: 0..Limit, units: 0..(Limit * PerSecond),
                                     at: 0..MaxTime, used: 0..MaxTime]]]
  /\ sweep \in [Nodes -> 0..MaxTime] /\ fresh \in [Nodes -> 0..MaxTime]
  /\ admitted \in [Nodes -> [Keys -> Nat]] /\ total \in [Keys -> Nat]
  /\ changed \in BOOLEAN /\ faults \in 0..MaxFaults

Init ==
  /\ now = 0
  /\ \E first \in SUBSET Nodes \ {{}} :
       /\ up = first
       /\ seen = [n \in Nodes |-> IF n \in first THEN 0 ELSE -1]
       /\ count = [n \in Nodes |-> IF n \in first THEN Cardinality(first) ELSE 1]
  /\ limiter = [n \in Nodes |-> [k \in Keys |-> NoLimiter]]
  /\ sweep = [n \in Nodes |-> 0] /\ fresh = [n \in Nodes |-> 0]
  /\ admitted = [n \in Nodes |-> [k \in Keys |-> 0]] /\ total = [k \in Keys |-> 0]
  /\ changed = FALSE /\ faults = 0

-------------------------------------------------------------------------------
(* The registry. *)

Live == {n \in Nodes : seen[n] # -1 /\ now - seen[n] < TTL}

\* max(count, 1); a count that cannot be read leaves the old one.
SetCount(n, c) ==
  /\ count' = [count EXCEPT ![n] = Max({c, 1})]
  /\ IF Max({c, 1}) = count[n] THEN UNCHANGED <<changed, fresh, admitted>>
     ELSE /\ changed' = TRUE
          /\ fresh' = [fresh EXCEPT ![n] = now]
          /\ admitted' = [admitted EXCEPT ![n] = [k \in Keys |-> 0]]

\* refresh without registering.
refreshCountOnly(n) ==
  /\ n \in up
  /\ SetCount(n, Cardinality(Live))
  /\ UNCHANGED <<now, up, seen, limiter, sweep, total, faults>>
\* refresh: register, then count the live rows; both statements may fail.
refresh(n) ==
  /\ n \in up
  /\ seen' = [seen EXCEPT ![n] = now]
  /\ SetCount(n, Cardinality(Live \cup {n}))
  /\ UNCHANGED <<now, up, limiter, sweep, total, faults>>
refreshFails(n) ==
  /\ n \in up /\ faults < MaxFaults
  /\ faults' = faults + 1
  /\ \/ UNCHANGED seen
     \/ seen' = [seen EXCEPT ![n] = now]
  /\ UNCHANGED <<now, up, count, limiter, sweep, admitted, fresh, total, changed>>

\* New and the first lines of Run: a process starts and counts itself.
Start(n) ==
  /\ n \notin up /\ faults < MaxFaults
  /\ faults' = faults + 1
  /\ up' = up \cup {n}
  /\ count' = [count EXCEPT ![n] = 1]
  /\ limiter' = [limiter EXCEPT ![n] = [k \in Keys |-> NoLimiter]]
  /\ sweep' = [sweep EXCEPT ![n] = now]
  /\ fresh' = [fresh EXCEPT ![n] = now]
  /\ admitted' = [admitted EXCEPT ![n] = [k \in Keys |-> 0]]
  /\ changed' = TRUE
  /\ UNCHANGED <<now, seen, total>>
\* The context ends: deregister, which may fail; a crash leaves the row too.
Stop(n) ==
  /\ n \in up /\ faults < MaxFaults
  /\ faults' = faults + 1
  /\ up' = up \ {n}
  /\ \/ seen' = [seen EXCEPT ![n] = -1]
     \/ UNCHANGED seen
  /\ UNCHANGED <<now, count, limiter, sweep, admitted, fresh, total, changed>>

-------------------------------------------------------------------------------
(* The limiter. *)

\* This node's slice of the limit, never below one request per second.
share(n) == IF count[n] > Limit THEN 1 ELSE Limit \div count[n]

\* rate.NewLimiter(share, burst = share), full.
NewLimiter(s) == [share |-> s, units |-> s * PerSecond, at |-> now, used |-> now]
entryAlways(n, k) == NewLimiter(share(n))
entry(n, k) ==
  LET e == limiter[n][k]
  IN IF e.share = 0 \/ e.share # share(n) THEN NewLimiter(share(n)) ELSE e

\* Units in a bucket at this tick: share units per tick, up to the burst.
TokensAt(e) == Min({e.share * PerSecond, e.units + e.share * (now - e.at)})

SweepAll(n, L) ==
  IF now - sweep[n] < IdleEviction THEN L ELSE [k \in Keys |-> NoLimiter]
\* sweepLocked for the limiters of a node, one of which was just used.
Sweep(n, L) ==
  IF now - sweep[n] < IdleEviction THEN L
  ELSE [k \in Keys |-> IF now - L[k].used >= IdleEviction THEN NoLimiter ELSE L[k]]

\* The bucket after the decision: a token is taken only if there is a whole one.
Reserve(e) == [e EXCEPT !.units = IF TokensAt(e) >= PerSecond THEN TokensAt(e) - PerSecond ELSE TokensAt(e),
                        !.at = now, !.used = now]

allow(n, k) ==
  LET e == entry(n, k)
      ok == TokensAt(e) >= PerSecond
  IN /\ n \in up
     /\ limiter' = [limiter EXCEPT ![n] = Sweep(n, [@ EXCEPT ![k] = Reserve(e)])]
     /\ sweep' = IF now - sweep[n] < IdleEviction THEN sweep ELSE [sweep EXCEPT ![n] = now]
     /\ admitted' = IF ok THEN [admitted EXCEPT ![n][k] = @ + 1] ELSE admitted
     /\ total' = IF ok THEN [total EXCEPT ![k] = @ + 1] ELSE total
     /\ UNCHANGED <<now, up, seen, count, fresh, changed, faults>>

Tick == now < MaxTime /\ now' = now + 1
        /\ UNCHANGED <<up, seen, count, limiter, sweep, admitted, fresh, total, changed, faults>>

Next ==
  \/ Tick
  \/ \E n \in Nodes : refresh(n) \/ refreshFails(n) \/ Start(n) \/ Stop(n)
  \/ \E n \in Nodes, k \in Keys : allow(n, k)

Spec == Init /\ [][Next]_vars
\* The clock and each node's heartbeat ticker go on.
FairSpec == Spec /\ WF_vars(Tick) /\ \A n \in Nodes : WF_vars(refresh(n))

-------------------------------------------------------------------------------
(* Properties. *)

(* Between two changes of its share a node admits, for each key, no more than  *)
(* one burst and the share per second, although idle limiters are dropped and  *)
(* rebuilt full meanwhile (allow, sweepLocked).                                *)
ShareIsKept ==
  \A n \in up, k \in Keys :
     LET s == share(n) IN admitted[n][k] * PerSecond <= s * PerSecond + s * (now - fresh[n])

(* While the set of nodes has never changed, and there are no more nodes than  *)
(* Limit, the whole cluster admits no more than Limit per second and one       *)
(* second's worth of burst.                                                    *)
StableClusterKeepsLimit ==
  ~changed => \A k \in Keys : total[k] * PerSecond <= Limit * (PerSecond + now)

(* When processes stop coming and going, with a TTL of time left in the run,   *)
(* every node ends up with the number of nodes that are there (refresh, the    *)
(* registry's TTL).                                                            *)
CountsConverge ==
  (faults = MaxFaults /\ now < MaxTime - TTL) ~> (\A n \in up : count[n] = Cardinality(up))

(* RequestsPerSecond is the cluster-wide limit per key, with a burst of one    *)
(* second's worth of requests.                                                 *)
ClusterKeepsLimit == \A k \in Keys : total[k] * PerSecond <= Limit * (PerSecond + now)
===============================================================================
