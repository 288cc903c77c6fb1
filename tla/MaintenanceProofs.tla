------------------------- MODULE MaintenanceProofs --------------------------
(* The maintenance loop, for any number of processes, days ahead, retentions and  *)
(* faults.                                                                         *)
EXTENDS Maintenance, TLAPS

(* A loop that makes partitions has made those up to next, and none of them that   *)
(* is not past goes away meanwhile; what it is to drop was past retention when it   *)
(* was listed, and stays so; and it works under the lease unless that ran out.      *)
LoopOK(p) ==
  /\ pr[p].pc = "ensure" =>
       /\ 1 <= pr[p].from /\ pr[p].from <= today
       /\ pr[p].from <= pr[p].next /\ pr[p].next <= pr[p].from + Ahead
       /\ today .. pr[p].next - 1 \subseteq parts[pr[p].t]
  /\ \A d \in pr[p].doomed : d < today - Retention(pr[p].t)
  /\ pr[p].pc \in Working /\ ~pr[p].lapsed => lease.owner = p /\ ~lease.expired

MaintenanceInv == TypeOK /\ WritesArePrepared /\ \A p \in Processes : LoopOK(p)

-----------------------------------------------------------------------------
(* What every step leaves to the other loops.                                  *)

(* Only p's loop moves.                                                         *)
Moved(p) ==
  /\ pr' \in [Processes -> Loop]
  /\ \A q \in Processes \ {p} : pr'[q] = pr[q]

(* Whoever else holds the lease still holds it.                                *)
LeaseSafe(p) ==
  /\ lease' \in [owner : Processes \cup {NoOne}, expired : BOOLEAN]
  /\ \A q \in Processes \ {p} :
       lease.owner = q /\ ~lease.expired => lease'.owner = q /\ ~lease'.expired

(* No partition of today or of a later day goes away.                          *)
DaysSafe ==
  /\ parts' \in [Tables -> SUBSET Day]
  /\ \A t \in Tables : \A d \in parts[t] : d >= today => d \in parts'[t]

(* One loop takes the value of a whole step.                                   *)
LEMMA OneLoop ==
  ASSUME TypeOK, NEW p \in Processes, NEW l \in Loop, Step(p, l)
  PROVE  Moved(p) /\ pr'[p] = l
<1>1. pr \in [Processes -> Loop] /\ pr' = [pr EXCEPT ![p] = l] BY DEF TypeOK, Step
<1> QED BY <1>1 DEF Moved

(* A day within the bounds (dayOf) is an integer.                              *)
LEMMA DayFacts ==
  ASSUME MaintenanceAssumption
  PROVE  /\ Day \subseteq Int /\ 0 \in Day /\ \A n \in 1 .. MaxDay : n \in Day
         /\ \A n \in 1 .. MaxDay : \A d \in n .. n + Ahead : d \in Day
         /\ \A t \in Tables : Retention(t) \in Nat \ {0}
BY DEF MaintenanceAssumption, Day, Retention

(* The resting loop is a loop.                                                 *)
LEMMA RestingFacts ==
  ASSUME MaintenanceAssumption, NEW pc \in Phase, NEW b \in BOOLEAN
  PROVE  /\ Resting(pc, b) \in Loop /\ Resting(pc, b).pc = pc /\ Resting(pc, b).doomed = {}
         /\ Resting(pc, b).t = "message" /\ Resting(pc, b).lapsed = FALSE
<1>1. 0 \in Day /\ {} \in SUBSET Day /\ "message" \in Tables /\ FALSE \in BOOLEAN
  BY DayFacts DEF Tables
<1> QED BY <1>1, Zenon DEF Resting, Loop

(* The others' loops stay as the invariant wants them.                         *)
LEMMA OthersKeep ==
  ASSUME MaintenanceAssumption, MaintenanceInv, NEW p \in Processes, Moved(p), LeaseSafe(p),
         DaysSafe, today' = today, NEW q \in Processes \ {p}
  PROVE  LoopOK(q)'
<1>1. LoopOK(q) /\ pr'[q] = pr[q] BY DEF MaintenanceInv, Moved
<1>2. pr[q] \in Loop BY DEF MaintenanceInv, TypeOK
<1>3. pr[q].t \in Tables /\ pr[q].from \in Int /\ pr[q].next \in Int
  BY <1>2, DayFacts DEF Loop
<1>4. today \in Int BY DEF MaintenanceInv, TypeOK
<1>5. pr[q].pc = "ensure" => today .. pr[q].next - 1 \subseteq parts'[pr[q].t]
  BY <1>1, <1>3, <1>4 DEF LoopOK, DaysSafe
<1>6. pr[q].pc \in Working /\ ~pr[q].lapsed => lease'.owner = q /\ ~lease'.expired
  BY <1>1 DEF LoopOK, LeaseSafe
<1> QED BY <1>1, <1>5, <1>6 DEF LoopOK, Retention

(* What was prepared stays prepared while no pass completes.                   *)
LEMMA PreparedKeeps ==
  ASSUME MaintenanceInv, DaysSafe, today' = today, covered' = covered, MaintenanceAssumption
  PROVE  WritesArePrepared'
<1>1. today \in Int /\ \A t \in Tables : covered[t] \in Int /\ Ahead \in Int
  BY DEF MaintenanceInv, TypeOK, MaintenanceAssumption
<1> QED BY <1>1 DEF MaintenanceInv, WritesArePrepared, DaysSafe

(* A step of one loop keeps the invariant if it keeps that loop's part.        *)
LEMMA OneLoopStep ==
  ASSUME MaintenanceAssumption, MaintenanceInv, NEW p \in Processes, Moved(p), LeaseSafe(p),
         DaysSafe, today' = today, covered' \in [Tables -> 1 .. MaxDay],
         faults' \in 0 .. MaxFaults, WritesArePrepared', LoopOK(p)'
  PROVE  MaintenanceInv'
<1>1. TypeOK' BY DEF MaintenanceInv, TypeOK, Moved, LeaseSafe, DaysSafe
<1>2. ASSUME NEW q \in Processes PROVE LoopOK(q)'
  BY <1>2, OthersKeep
<1> QED BY <1>1, <1>2 DEF MaintenanceInv

(* A fault stays within its bound.                                             *)
LEMMA FaultsTyped ==
  ASSUME MaintenanceAssumption, TypeOK, Fail \/ faults' = faults PROVE faults' \in 0 .. MaxFaults
BY DEF MaintenanceAssumption, TypeOK, Fail

(* A loop at rest has nothing to answer for.                                   *)
LEMMA RestIsFine ==
  ASSUME MaintenanceAssumption, NEW p \in Processes, NEW pc \in Phase \ Working, NEW b \in BOOLEAN,
         pr'[p] = Resting(pc, b)
  PROVE  LoopOK(p)'
<1>0. pc \in Phase OBVIOUS
<1>a. Resting(pc, b).pc = pc /\ Resting(pc, b).doomed = {} BY <1>0, RestingFacts, Zenon
<1>1. pr'[p].pc = pc /\ pr'[p].doomed = {} BY <1>a
<1>2. pc # "ensure" /\ pc \notin Working BY DEF Working
<1> QED BY <1>1, <1>2 DEF LoopOK

-----------------------------------------------------------------------------
(* Leadership.                                                                 *)

(* managePartitions begins at today, under the lease just taken.               *)
LEMMA ManageFacts ==
  ASSUME MaintenanceAssumption, TypeOK, NEW p \in Processes
  PROVE  /\ ManageFrom(p) \in Loop /\ ManageFrom(p).pc = "ensure" /\ ManageFrom(p).lapsed = FALSE
         /\ ManageFrom(p).from = today /\ ManageFrom(p).next = today
         /\ ManageFrom(p).doomed = {} /\ ManageFrom(p).t = "message"
<1>1. "ensure" \in Phase /\ TRUE \in BOOLEAN BY DEF Phase
<1>2. today \in Day BY DayFacts DEF TypeOK
<1> DEFINE r == Resting("ensure", TRUE)
<1>3. /\ r \in Loop /\ r.pc = "ensure" /\ r.doomed = {} /\ r.t = "message" /\ r.lapsed = FALSE
  BY <1>1, RestingFacts, Zenon
<1>4. ManageFrom(p) = [r EXCEPT !.from = today, !.next = today] BY DEF ManageFrom
<1> HIDE DEF r
<1> QED BY <1>2, <1>3, <1>4, Zenon DEF Loop

(* acquireLeadership: the lease goes to p only if nobody else holds it.        *)
LEMMA AcquireStep ==
  ASSUME MaintenanceAssumption, MaintenanceInv, NEW p \in Processes, NEW job \in Loop,
         Acquire(p, job)
  PROVE  /\ Moved(p) /\ LeaseSafe(p) /\ faults' \in 0 .. MaxFaults
         /\ \/ pr'[p] = job /\ lease'.owner = p /\ lease'.expired = FALSE
            \/ pr'[p] = Resting("idle", FALSE)
<1>1. TypeOK /\ lease \in [owner : Processes \cup {NoOne}, expired : BOOLEAN]
  BY DEF MaintenanceInv, TypeOK
<1>2. Resting("idle", FALSE) \in Loop BY RestingFacts, Zenon DEF Phase
<1>3. faults' \in 0 .. MaxFaults BY <1>1, FaultsTyped, Zenon DEF Acquire
<1>4. CASE Granted(p) /\ lease' = [owner |-> p, expired |-> FALSE] /\ Step(p, job)
  <2>1. Moved(p) /\ pr'[p] = job BY <1>1, <1>4, OneLoop
  <2>2. lease'.owner = p /\ lease'.expired = FALSE BY <1>4
  <2>3. lease' \in [owner : Processes \cup {NoOne}, expired : BOOLEAN] BY <1>4
  <2>4. ASSUME NEW q \in Processes \ {p}, lease.owner = q PROVE lease.expired
    BY <1>4, <2>4 DEF Granted, MaintenanceAssumption
  <2> QED BY <1>3, <2>1, <2>2, <2>3, <2>4, Zenon DEF LeaseSafe
<1>5. CASE lease' = lease /\ Step(p, Resting("idle", FALSE))
  <2>1. Moved(p) /\ pr'[p] = Resting("idle", FALSE) BY <1>1, <1>2, <1>5, OneLoop, Zenon
  <2> QED BY <1>1, <1>3, <1>5, <2>1 DEF LeaseSafe
<1> QED BY <1>4, <1>5, Zenon DEF Acquire

(* A leader that begins to manage partitions (Boot, PartitionTick).            *)
LEMMA ManageStep ==
  ASSUME MaintenanceAssumption, MaintenanceInv, NEW p \in Processes, Acquire(p, ManageFrom(p)),
         UNCHANGED <<today, parts, covered>>
  PROVE  MaintenanceInv'
<1>1. TypeOK /\ today \in 1 .. MaxDay /\ DaysSafe BY DEF MaintenanceInv, TypeOK, DaysSafe
<1>2. ManageFrom(p) \in Loop BY <1>1, ManageFacts, Zenon
<1>3. /\ Moved(p) /\ LeaseSafe(p) /\ faults' \in 0 .. MaxFaults
      /\ \/ pr'[p] = ManageFrom(p) /\ lease'.owner = p /\ lease'.expired = FALSE
         \/ pr'[p] = Resting("idle", FALSE)
  BY <1>2, AcquireStep, Zenon
<1>4. LoopOK(p)'
  <2>1. CASE pr'[p] = ManageFrom(p) /\ lease'.owner = p /\ lease'.expired = FALSE
    <3>1. pr'[p].from = today /\ pr'[p].next = today /\ pr'[p].doomed = {}
      BY <1>1, <2>1, ManageFacts, Zenon
    <3>2. today .. today - 1 = {} /\ today <= today + Ahead BY <1>1 DEF MaintenanceAssumption
    <3> QED BY <1>1, <2>1, <3>1, <3>2 DEF LoopOK
  <2>2. CASE pr'[p] = Resting("idle", FALSE)
    BY <2>2, RestIsFine, Zenon DEF Phase, Working
  <2> QED BY <1>3, <2>1, <2>2, Zenon
<1>5. WritesArePrepared' BY <1>1, PreparedKeeps
<1>6. covered' \in [Tables -> 1 .. MaxDay] BY <1>1 DEF TypeOK
<1> QED BY <1>1, <1>3, <1>4, <1>5, <1>6, OneLoopStep

(* A rescue tick.                                                              *)
LEMMA RescueStep ==
  ASSUME MaintenanceAssumption, MaintenanceInv, NEW p \in Processes, RescueTick(p)
  PROVE  MaintenanceInv'
<1> DEFINE job == Resting("rescue", TRUE)
<1>1. TypeOK /\ DaysSafe BY DEF MaintenanceInv, TypeOK, DaysSafe, RescueTick
<1>2. job \in Loop /\ job.pc = "rescue" /\ job.doomed = {} BY RestingFacts, Zenon DEF Phase
<1>3. Acquire(p, job) BY Zenon DEF RescueTick
<1> HIDE DEF job
<1>4. /\ Moved(p) /\ LeaseSafe(p) /\ faults' \in 0 .. MaxFaults
      /\ \/ pr'[p] = job /\ lease'.owner = p /\ lease'.expired = FALSE
         \/ pr'[p] = Resting("idle", FALSE)
  BY <1>2, <1>3, AcquireStep, Zenon
<1>5. LoopOK(p)'
  <2>1. CASE pr'[p] = job /\ lease'.owner = p /\ lease'.expired = FALSE
    BY <1>2, <2>1 DEF LoopOK
  <2>2. CASE pr'[p] = Resting("idle", FALSE)
    BY <2>2, RestIsFine, Zenon DEF Phase, Working
  <2> QED BY <1>4, <2>1, <2>2, Zenon
<1>6. WritesArePrepared' BY <1>1, PreparedKeeps DEF RescueTick
<1>7. covered' \in [Tables -> 1 .. MaxDay] /\ today' = today BY <1>1 DEF TypeOK, RescueTick
<1> QED BY <1>1, <1>4, <1>5, <1>6, <1>7, OneLoopStep

(* A loop that comes to rest: start, stop, crash, the end of the housekeeping. *)
LEMMA RestStep ==
  ASSUME MaintenanceAssumption, MaintenanceInv, NEW p \in Processes,
         NEW pc \in Phase \ Working, NEW b \in BOOLEAN, Step(p, Resting(pc, b)),
         UNCHANGED <<today, parts, covered>>, LeaseSafe(p), faults' \in 0 .. MaxFaults
  PROVE  MaintenanceInv'
<1>1. TypeOK /\ DaysSafe BY DEF MaintenanceInv, TypeOK, DaysSafe
<1>2. pc \in Phase OBVIOUS
<1>3. Resting(pc, b) \in Loop BY <1>2, RestingFacts, Zenon
<1>4. Moved(p) /\ pr'[p] = Resting(pc, b) BY <1>1, <1>3, OneLoop
<1>5. LoopOK(p)' BY <1>4, RestIsFine
<1>6. WritesArePrepared' BY <1>1, PreparedKeeps
<1>7. covered' \in [Tables -> 1 .. MaxDay] BY <1>1 DEF TypeOK
<1> QED BY <1>1, <1>4, <1>5, <1>6, <1>7, OneLoopStep

(* A lease that nobody touches stays with its owner.                           *)
LEMMA LeaseUntouched ==
  ASSUME TypeOK, lease' = lease, NEW p \in Processes PROVE LeaseSafe(p)
BY DEF TypeOK, LeaseSafe

(* The release at the end gives back only p's own lease.                       *)
LEMMA StopStep ==
  ASSUME MaintenanceAssumption, MaintenanceInv, NEW p \in Processes, Stop(p)
  PROVE  MaintenanceInv'
<1>1. TypeOK BY DEF MaintenanceInv
<1>2. lease' = lease \/ (lease.owner = p /\ lease' = NoLease)
  BY DEF Stop, Released
<1>3. LeaseSafe(p)
  <2>1. CASE lease' = lease BY <1>1, <2>1, LeaseUntouched
  <2>2. CASE lease.owner = p /\ lease' = NoLease
    BY <2>2 DEF NoLease, LeaseSafe
  <2> QED BY <1>2, <2>1, <2>2
<1>4. faults' \in 0 .. MaxFaults BY <1>1, FaultsTyped DEF Stop
<1>5. Step(p, Resting("down", FALSE)) BY Zenon DEF Stop
<1>6. "down" \in Phase \ Working /\ FALSE \in BOOLEAN BY DEF Phase, Working
<1>7. UNCHANGED <<today, parts, covered>> BY DEF Stop
<1> QED BY <1>3, <1>4, <1>5, <1>6, <1>7, RestStep, Zenon

(* A process that starts or crashes leaves the lease row as it is.             *)
LEMMA StartCrashStep ==
  ASSUME MaintenanceAssumption, MaintenanceInv, NEW p \in Processes, Start(p) \/ Crash(p)
  PROVE  MaintenanceInv'
<1>1. TypeOK /\ lease' = lease BY Zenon DEF MaintenanceInv, Start, Crash
<1>2. LeaseSafe(p) BY <1>1, LeaseUntouched
<1>3. faults' \in 0 .. MaxFaults BY <1>1, FaultsTyped, Zenon DEF Start, Crash
<1>4. {"down", "boot"} \subseteq Phase \ Working BY DEF Phase, Working
<1>5. UNCHANGED <<today, parts, covered>> BY Zenon DEF Start, Crash
<1>6. CASE Step(p, Resting("boot", FALSE)) BY <1>2, <1>3, <1>4, <1>5, <1>6, RestStep, Zenon
<1>7. CASE Step(p, Resting("down", FALSE)) BY <1>2, <1>3, <1>4, <1>5, <1>7, RestStep, Zenon
<1> QED BY <1>6, <1>7, Zenon DEF Start, Crash

-----------------------------------------------------------------------------
(* The leader's work.                                                          *)

(* A loop goes on to another phase of the same work.                           *)
LEMMA PhaseStep ==
  ASSUME MaintenanceAssumption, MaintenanceInv, NEW p \in Processes, pr[p].pc \in Working,
         NEW l \in Loop, Step(p, l), l.pc \in Working, l.lapsed = pr[p].lapsed,
         UNCHANGED <<today, lease>>, DaysSafe, faults' \in 0 .. MaxFaults,
         covered' \in [Tables -> 1 .. MaxDay], WritesArePrepared',
         l.pc = "ensure" => /\ 1 <= l.from /\ l.from <= today
                            /\ l.from <= l.next /\ l.next <= l.from + Ahead
                            /\ today .. l.next - 1 \subseteq parts'[l.t],
         \A d \in l.doomed : d < today - Retention(l.t)
  PROVE  MaintenanceInv'
<1>1. TypeOK /\ LoopOK(p) BY DEF MaintenanceInv
<1>2. Moved(p) /\ pr'[p] = l BY <1>1, OneLoop
<1>3. LeaseSafe(p) BY <1>1, LeaseUntouched
<1>4. ~l.lapsed => lease'.owner = p /\ ~lease'.expired BY <1>1 DEF LoopOK
<1>5. LoopOK(p)' BY <1>2, <1>4 DEF LoopOK, Retention
<1> QED BY <1>2, <1>3, <1>5, OneLoopStep

(* The message table's pass is over, or failed: the attempt table's begins.    *)
LEMMA NextTableStep ==
  ASSUME MaintenanceAssumption, MaintenanceInv, NEW p \in Processes, pr[p].pc \in Working,
         Step(p, NextTable(p)), UNCHANGED <<today, lease, parts, covered>>,
         faults' \in 0 .. MaxFaults
  PROVE  MaintenanceInv'
<1>1. TypeOK /\ DaysSafe /\ today \in 1 .. MaxDay BY DEF MaintenanceInv, TypeOK, DaysSafe
<1>2. CASE pr[p].t # "message"
  <2>1. Step(p, Resting("idle", TRUE)) BY <1>2, Zenon DEF NextTable
  <2>2. LeaseSafe(p) BY <1>1, LeaseUntouched
  <2>3. "idle" \in Phase \ Working /\ TRUE \in BOOLEAN BY DEF Phase, Working
  <2> QED BY <2>1, <2>2, <2>3, RestStep, Zenon
<1>3. CASE pr[p].t = "message"
  <2> DEFINE r == pr[p]
             l == [r EXCEPT !.pc = "ensure", !.t = "attempt", !.from = today, !.next = today,
                            !.doomed = {}]
  <2>1. Step(p, l) BY <1>3 DEF NextTable
  <2>2. r \in Loop BY <1>1 DEF TypeOK
  <2>3. today \in Day BY <1>1, DayFacts
  <2> HIDE DEF r
  <2>4. /\ l \in Loop /\ l.pc = "ensure" /\ l.from = today /\ l.next = today /\ l.doomed = {}
        /\ l.lapsed = r.lapsed
    BY <2>2, <2>3, Zenon DEF Loop, Phase, Tables
  <2> HIDE DEF l
  <2>5. l.lapsed = pr[p].lapsed BY <2>4 DEF r
  <2>6. today .. l.next - 1 = {} /\ l.next <= l.from + Ahead
    BY <1>1, <2>4 DEF MaintenanceAssumption
  <2>7. WritesArePrepared' BY <1>1, PreparedKeeps
  <2>8. covered' \in [Tables -> 1 .. MaxDay] BY <1>1 DEF TypeOK
  <2>9. l.pc \in Working BY <2>4 DEF Working
  <2> QED BY <1>1, <2>1, <2>4, <2>5, <2>6, <2>7, <2>8, <2>9, PhaseStep
<1> QED BY <1>2, <1>3

(* One statement of the rescue tick.                                           *)
LEMMA HousekeepStep ==
  ASSUME MaintenanceAssumption, MaintenanceInv, NEW p \in Processes, Housekeep(p)
  PROVE  MaintenanceInv'
<1>1. TypeOK /\ DaysSafe BY DEF MaintenanceInv, TypeOK, DaysSafe, Housekeep
<1>2. pr[p].pc \in {"rescue", "reap", "purge"} /\ pr[p] \in Loop BY <1>1 DEF Housekeep, TypeOK
<1>3. UNCHANGED <<today, parts, lease, covered>> /\ faults' \in 0 .. MaxFaults
  BY <1>1, FaultsTyped DEF Housekeep
<1>4. CASE pr[p].pc = "purge"
  <2>1. Step(p, Resting("idle", TRUE)) BY <1>4, Zenon DEF Housekeep
  <2>2. LeaseSafe(p) BY <1>1, <1>3, LeaseUntouched
  <2>3. "idle" \in Phase \ Working /\ TRUE \in BOOLEAN BY DEF Phase, Working
  <2> QED BY <1>3, <2>1, <2>2, <2>3, RestStep, Zenon
<1>5. ASSUME NEW pc \in {"reap", "purge"}, Step(p, [pr[p] EXCEPT !.pc = pc])
      PROVE  MaintenanceInv'
  <2> DEFINE r == pr[p]
             l == [r EXCEPT !.pc = pc]
  <2>1. Step(p, l) /\ r \in Loop BY <1>2, <1>5
  <2>2. LoopOK(p) BY DEF MaintenanceInv
  <2>3. \A d \in r.doomed : d < today - Retention(r.t) BY <2>2 DEF LoopOK
  <2> HIDE DEF r
  <2>4. /\ l \in Loop /\ l.pc = pc /\ l.doomed = r.doomed /\ l.t = r.t /\ l.lapsed = r.lapsed
    BY <2>1 DEF Loop, Phase
  <2> HIDE DEF l
  <2>5. l.lapsed = pr[p].lapsed BY <2>4 DEF r
  <2>6. WritesArePrepared' BY <1>1, <1>3, PreparedKeeps
  <2>7. covered' \in [Tables -> 1 .. MaxDay] BY <1>1, <1>3 DEF TypeOK
  <2>8. l.pc \in Working /\ l.pc # "ensure" /\ pr[p].pc \in Working BY <1>2, <2>4 DEF Working
  <2>9. \A d \in l.doomed : d < today - Retention(l.t) BY <2>3, <2>4
  <2> QED BY <1>1, <1>3, <2>1, <2>4, <2>5, <2>6, <2>7, <2>8, <2>9, PhaseStep
<1>6. CASE pr[p].pc = "rescue"
  <2>1. Step(p, [pr[p] EXCEPT !.pc = "reap"]) BY <1>6 DEF Housekeep
  <2> QED BY <1>5, <2>1
<1>7. CASE pr[p].pc = "reap"
  <2>1. Step(p, [pr[p] EXCEPT !.pc = "purge"]) BY <1>7 DEF Housekeep
  <2> QED BY <1>5, <2>1
<1> QED BY <1>2, <1>4, <1>6, <1>7

(* EnsurePartitions: one more day, the last of which completes the pass.       *)
LEMMA EnsureStep ==
  ASSUME MaintenanceAssumption, MaintenanceInv, NEW p \in Processes, EnsureDay(p)
  PROVE  MaintenanceInv'
<1> DEFINE r == pr[p]
<1>1. TypeOK /\ LoopOK(p) /\ WritesArePrepared BY DEF MaintenanceInv
<1>2. r \in Loop /\ r.pc = "ensure" /\ today \in 1 .. MaxDay BY <1>1 DEF TypeOK, EnsureDay
<1>3. UNCHANGED <<today, lease>> BY DEF EnsureDay
<1>4. faults' \in 0 .. MaxFaults BY <1>1, FaultsTyped DEF EnsureDay
<1>5. pr[p].pc \in Working BY <1>2 DEF Working
<1>6. /\ 1 <= r.from /\ r.from <= today /\ r.from <= r.next /\ r.next <= r.from + Ahead
      /\ today .. r.next - 1 \subseteq parts[r.t]
      /\ \A d \in r.doomed : d < today - Retention(r.t)
  BY <1>1, <1>2 DEF LoopOK
<1>7. r.from \in Int /\ r.next \in Int /\ r.t \in Tables /\ r.next \in Day
  BY <1>2, DayFacts DEF Loop
<1>8. CASE Step(p, NextTable(p)) /\ UNCHANGED <<parts, covered>>
  BY <1>3, <1>4, <1>5, <1>8, NextTableStep
<1>9. ASSUME parts' = [parts EXCEPT ![r.t] = @ \cup {r.next}],
             IF r.next < LastDay(r.from)
             THEN Step(p, [r EXCEPT !.next = r.next + 1]) /\ UNCHANGED covered
             ELSE /\ Step(p, [r EXCEPT !.pc = "list"])
                  /\ covered' = [covered EXCEPT ![r.t] = IF @ < r.from THEN r.from ELSE @]
      PROVE  MaintenanceInv'
  <2>1. parts \in [Tables -> SUBSET Day] BY <1>1 DEF TypeOK
  <2>2. DaysSafe /\ parts'[r.t] = parts[r.t] \cup {r.next}
    BY <1>7, <1>9, <2>1 DEF DaysSafe
  <2>3. today .. r.next \subseteq parts'[r.t] BY <1>2, <1>6, <1>7, <2>2
  <2>4. Ahead \in Nat BY DEF MaintenanceAssumption
  <2>5. CASE r.next < LastDay(r.from)
    <3> DEFINE l == [r EXCEPT !.next = r.next + 1]
    <3>1. Step(p, l) /\ covered' = covered BY <1>9, <2>5
    <3>2. r.next + 1 <= r.from + Ahead BY <1>7, <2>4, <2>5 DEF LastDay
    <3>3. r.next + 1 \in Day
      BY <1>2, <1>6, <1>7, <2>4, <3>2 DEF Day, MaintenanceAssumption
    <3> HIDE DEF r
    <3>4. /\ l \in Loop /\ l.pc = r.pc /\ l.doomed = r.doomed /\ l.t = r.t /\ l.lapsed = r.lapsed
          /\ l.from = r.from /\ l.next = r.next + 1
      BY <1>2, <3>3 DEF Loop
    <3> HIDE DEF l
    <3>5. l.lapsed = pr[p].lapsed /\ l.pc = pr[p].pc BY <3>4 DEF r
    <3>6. WritesArePrepared' BY <1>3, <2>2, <3>1, PreparedKeeps
    <3>7. covered' \in [Tables -> 1 .. MaxDay] BY <1>1, <3>1 DEF TypeOK
    <3>8. l.next - 1 = r.next /\ l.from <= l.next BY <1>6, <1>7, <3>4
    <3>9. today .. l.next - 1 \subseteq parts'[l.t] BY <2>3, <3>4, <3>8
    <3>10. \A d \in l.doomed : d < today - Retention(l.t) BY <1>6, <3>4
    <3>11. l.next <= l.from + Ahead /\ 1 <= l.from /\ l.from <= today BY <1>6, <3>2, <3>4
    <3> QED BY <1>3, <1>4, <1>5, <2>2, <3>1, <3>4, <3>5, <3>6, <3>7, <3>8, <3>9, <3>10, <3>11,
               PhaseStep
  <2>6. CASE ~(r.next < LastDay(r.from))
    <3> DEFINE l == [r EXCEPT !.pc = "list"]
               c == IF covered[r.t] < r.from THEN r.from ELSE covered[r.t]
    <3>1. Step(p, l) /\ covered' = [covered EXCEPT ![r.t] = c] BY <1>9, <2>6
    <3>2. r.next = r.from + Ahead BY <1>6, <1>7, <2>4, <2>6 DEF LastDay
    <3>3. covered \in [Tables -> 1 .. MaxDay] /\ covered[r.t] \in 1 .. MaxDay
      BY <1>1, <1>7 DEF TypeOK
    <3>4. c \in 1 .. MaxDay
      <4>1. r.from \in 1 .. MaxDay BY <1>2, <1>6, <1>7 DEF MaintenanceAssumption
      <4> QED BY <3>3, <4>1
    <3>5. covered' \in [Tables -> 1 .. MaxDay] BY <3>1, <3>3, <3>4, Zenon
    <3>6. WritesArePrepared'
      <4>1. ASSUME NEW t \in Tables PROVE today .. covered'[t] + Ahead \subseteq parts'[t]
        <5>1. CASE covered'[t] = covered[t]
          <6>1. today .. covered[t] + Ahead \subseteq parts[t] BY <1>1 DEF WritesArePrepared
          <6>2. covered[t] \in Int BY <3>3
          <6> QED BY <1>2, <2>2, <2>4, <5>1, <6>1, <6>2 DEF DaysSafe
        <5>2. CASE t = r.t /\ covered'[t] = r.from
          BY <2>3, <3>2, <5>2
        <5> QED BY <1>7, <3>1, <3>3, <5>1, <5>2
      <4> QED BY <1>3, <4>1 DEF WritesArePrepared
    <3> HIDE DEF r, c
    <3>7. /\ l \in Loop /\ l.pc = "list" /\ l.doomed = r.doomed /\ l.t = r.t
          /\ l.lapsed = r.lapsed
      BY <1>2 DEF Loop, Phase
    <3> HIDE DEF l
    <3>8. l.lapsed = pr[p].lapsed BY <3>7 DEF r
    <3>9. \A d \in l.doomed : d < today - Retention(l.t) BY <1>6, <3>7
    <3>10. l.pc \in Working /\ l.pc # "ensure" BY <3>7 DEF Working
    <3> QED BY <1>3, <1>4, <1>5, <2>2, <3>1, <3>5, <3>6, <3>7, <3>8, <3>9, <3>10, PhaseStep
  <2> QED BY <2>5, <2>6
<1> QED BY <1>8, <1>9 DEF EnsureDay

(* ListPartitions: what is past retention now.                                 *)
LEMMA ListStep ==
  ASSUME MaintenanceAssumption, MaintenanceInv, NEW p \in Processes, ListPartitions(p)
  PROVE  MaintenanceInv'
<1> DEFINE r == pr[p]
<1>1. TypeOK /\ DaysSafe BY DEF MaintenanceInv, TypeOK, DaysSafe, ListPartitions
<1>2. r \in Loop /\ r.pc = "list" /\ pr[p].pc \in Working
  BY <1>1 DEF TypeOK, ListPartitions, Working
<1>3. UNCHANGED <<today, parts, lease, covered>> BY DEF ListPartitions
<1>4. faults' \in 0 .. MaxFaults BY <1>1, FaultsTyped DEF ListPartitions
<1>5. CASE Step(p, NextTable(p)) BY <1>2, <1>3, <1>4, <1>5, NextTableStep
<1>6. ASSUME Step(p, [r EXCEPT !.pc = "drop", !.doomed = {d \in parts[r.t] : d < Cutoff(r.t)}])
      PROVE  MaintenanceInv'
  <2> DEFINE old == {d \in parts[r.t] : d < Cutoff(r.t)}
             l == [r EXCEPT !.pc = "drop", !.doomed = old]
  <2>1. r.t \in Tables BY <1>2 DEF Loop
  <2>2. old \in SUBSET Day /\ \A d \in old : d < today - Retention(r.t)
    BY <1>1, <2>1 DEF TypeOK, Cutoff
  <2>3. Step(p, l) BY <1>6
  <2> HIDE DEF old, r
  <2>4. /\ l \in Loop /\ l.pc = "drop" /\ l.doomed = old /\ l.t = r.t /\ l.lapsed = r.lapsed
    BY <1>2, <2>2, Zenon DEF Loop, Phase
  <2> HIDE DEF l
  <2>5. l.lapsed = pr[p].lapsed BY <2>4 DEF r
  <2>6. WritesArePrepared' BY <1>1, <1>3, PreparedKeeps
  <2>7. covered' \in [Tables -> 1 .. MaxDay] BY <1>1, <1>3 DEF TypeOK
  <2>8. l.pc \in Working /\ l.pc # "ensure" BY <2>4 DEF Working
  <2>9. \A d \in l.doomed : d < today - Retention(l.t) BY <2>2, <2>4
  <2> QED BY <1>1, <1>2, <1>3, <1>4, <2>3, <2>4, <2>5, <2>6, <2>7, <2>8, <2>9, PhaseStep
<1> QED BY <1>5, <1>6 DEF ListPartitions

(* DropPartition: one listed day, which is past by now whoever leads.          *)
LEMMA DropStep ==
  ASSUME MaintenanceAssumption, MaintenanceInv, NEW p \in Processes, DropPartition(p)
  PROVE  MaintenanceInv'
<1> DEFINE r == pr[p]
<1>1. TypeOK /\ LoopOK(p) BY DEF MaintenanceInv
<1>2. /\ r \in Loop /\ r.pc = "drop" /\ pr[p].pc \in Working /\ r.t \in Tables
      /\ r.doomed \subseteq Day
  BY <1>1 DEF TypeOK, DropPartition, Working, Loop
<1>3. UNCHANGED <<today, lease, covered>> BY DEF DropPartition
<1>4. faults' \in 0 .. MaxFaults BY <1>1, FaultsTyped, Zenon DEF DropPartition
<1>5. CASE Step(p, NextTable(p)) /\ parts' = parts BY <1>2, <1>3, <1>4, <1>5, NextTableStep
<1>6. ASSUME NEW d \in r.doomed, parts' = [parts EXCEPT ![r.t] = @ \ {d}],
             Step(p, [r EXCEPT !.doomed = @ \ {d}])
      PROVE  MaintenanceInv'
  <2> DEFINE l == [r EXCEPT !.doomed = r.doomed \ {d}]
  <2>1. \A e \in r.doomed : e < today - Retention(r.t) BY <1>1 DEF LoopOK
  <2>2. d < today
    <3>1. d \in Int /\ today \in Int /\ Retention(r.t) \in Nat \ {0}
      BY <1>1, <1>2, DayFacts DEF TypeOK
    <3> QED BY <2>1, <3>1
  <2>3. DaysSafe
    <3>1. parts \in [Tables -> SUBSET Day] /\ d \in Int /\ today \in Int
      BY <1>1, <1>2, DayFacts DEF TypeOK
    <3> QED BY <1>2, <1>6, <2>2, <3>1 DEF DaysSafe
  <2>4. Step(p, l) BY <1>6
  <2>5. WritesArePrepared' BY <1>3, <2>3, PreparedKeeps
  <2>6. covered' \in [Tables -> 1 .. MaxDay] BY <1>1, <1>3 DEF TypeOK
  <2> HIDE DEF r
  <2>7. /\ l \in Loop /\ l.pc = "drop" /\ l.doomed = r.doomed \ {d} /\ l.t = r.t
        /\ l.lapsed = r.lapsed
    BY <1>2 DEF Loop
  <2> HIDE DEF l
  <2>8. l.lapsed = pr[p].lapsed BY <2>7 DEF r
  <2>9. l.pc \in Working /\ l.pc # "ensure" BY <2>7 DEF Working
  <2>10. \A e \in l.doomed : e < today - Retention(l.t) BY <2>1, <2>7
  <2> QED BY <1>2, <1>3, <1>4, <2>3, <2>4, <2>5, <2>6, <2>7, <2>8, <2>9, <2>10, PhaseStep
<1> QED BY <1>5, <1>6, Zenon DEF DropPartition

-----------------------------------------------------------------------------
(* Time.                                                                       *)

(* LeaseTTL passes: the loop it happens to is marked, the others had no lease. *)
LEMMA ExpiryStep ==
  ASSUME MaintenanceAssumption, MaintenanceInv, LeaseExpires PROVE MaintenanceInv'
<1>1. TypeOK /\ WritesArePrepared BY DEF MaintenanceInv
<1>2. UNCHANGED <<today, parts, covered, faults>> BY DEF LeaseExpires
<1>3. lease' \in [owner : Processes \cup {NoOne}, expired : BOOLEAN]
  BY <1>1, Zenon DEF TypeOK, LeaseExpires
<1>4. ASSUME NEW p \in Processes
      PROVE  /\ pr'[p] \in Loop /\ pr'[p].pc = pr[p].pc /\ pr'[p].t = pr[p].t
             /\ pr'[p].from = pr[p].from /\ pr'[p].next = pr[p].next
             /\ pr'[p].doomed = pr[p].doomed
             /\ ~pr'[p].lapsed => ~pr[p].lapsed /\ ~(p = lease.owner /\ pr[p].pc \in Working)
  <2> DEFINE r == pr[p]
             b == r.lapsed \/ (p = lease.owner /\ r.pc \in Working)
             l == [r EXCEPT !.lapsed = b]
  <2>1. pr'[p] = l BY <1>4 DEF LeaseExpires
  <2>2. r \in Loop BY <1>1 DEF TypeOK
  <2>3. b \in BOOLEAN BY <2>2 DEF Loop
  <2> HIDE DEF r, b
  <2>4. /\ l \in Loop /\ l.pc = r.pc /\ l.t = r.t /\ l.from = r.from /\ l.next = r.next
        /\ l.doomed = r.doomed /\ l.lapsed = b
    BY <2>2, <2>3 DEF Loop
  <2> HIDE DEF l
  <2>5. ~b => ~pr[p].lapsed /\ ~(p = lease.owner /\ pr[p].pc \in Working) BY DEF b, r
  <2> QED BY <2>1, <2>4, <2>5 DEF r
<1>5. pr' \in [Processes -> Loop] BY <1>4 DEF LeaseExpires
<1>6. TypeOK' BY <1>1, <1>2, <1>3, <1>5 DEF TypeOK
<1>7. WritesArePrepared' BY <1>1, <1>2 DEF WritesArePrepared
<1>8. ASSUME NEW p \in Processes PROVE LoopOK(p)'
  <2>1. LoopOK(p) BY DEF MaintenanceInv
  <2>2. pr[p].pc \in Working => pr'[p].lapsed
    BY <1>4, <2>1 DEF LoopOK
  <2> QED BY <1>2, <1>4, <2>1, <2>2 DEF LoopOK, Retention
<1> QED BY <1>6, <1>7, <1>8 DEF MaintenanceInv

(* Midnight: what was to drop is older still, what was prepared reaches as far. *)
LEMMA MidnightStep ==
  ASSUME MaintenanceAssumption, MaintenanceInv, NewDay PROVE MaintenanceInv'
<1>1. TypeOK /\ WritesArePrepared BY DEF MaintenanceInv
<1>2. today \in 1 .. MaxDay /\ today' = today + 1 /\ today' \in 1 .. MaxDay
  BY <1>1 DEF TypeOK, NewDay, MaintenanceAssumption
<1>3. UNCHANGED <<parts, lease, pr, covered, faults>> BY DEF NewDay
<1>4. TypeOK' BY <1>1, <1>2, <1>3 DEF TypeOK
<1>5. WritesArePrepared'
  <2>1. \A t \in Tables : covered[t] \in Int /\ Ahead \in Int
    BY <1>1 DEF TypeOK, MaintenanceAssumption
  <2> QED BY <1>1, <1>2, <1>3, <2>1 DEF WritesArePrepared
<1>6. ASSUME NEW p \in Processes PROVE LoopOK(p)'
  <2>1. LoopOK(p) BY DEF MaintenanceInv
  <2>2. pr[p] \in Loop BY <1>1 DEF TypeOK
  <2>3. /\ pr[p].from \in Int /\ pr[p].next \in Int /\ pr[p].doomed \subseteq Int
        /\ Retention(pr[p].t) \in Nat
    BY <2>2, DayFacts DEF Loop
  <2> QED BY <1>2, <1>3, <2>1, <2>3 DEF LoopOK, Retention
<1> QED BY <1>4, <1>5, <1>6 DEF MaintenanceInv

-----------------------------------------------------------------------------
(* The theorems.                                                               *)

(* The migration's partitions and the absent loops satisfy the invariant.      *)
LEMMA MaintenanceBegins ==
  ASSUME MaintenanceAssumption, Init PROVE MaintenanceInv
<1>1. Ahead \in Nat /\ MaxDay \in Nat \ {0} /\ MaxFaults \in Nat BY DEF MaintenanceAssumption
<1>2. "down" \in Phase /\ FALSE \in BOOLEAN /\ "down" \notin Working BY DEF Phase, Working
<1>3. \A p \in Processes : pr[p] = Resting("down", FALSE) BY Zenon DEF Init
<1>4. pr \in [Processes -> Loop] BY <1>2, RestingFacts, Zenon DEF Init
<1>5. parts \in [Tables -> SUBSET Day]
  <2>1. 0 .. 1 + Ahead \subseteq Day BY <1>1 DEF Day, MaintenanceAssumption
  <2> QED BY <2>1 DEF Init
<1>6. lease \in [owner : Processes \cup {NoOne}, expired : BOOLEAN] BY DEF Init, NoLease
<1>7. TypeOK
  <2>1. covered \in [Tables -> 1 .. MaxDay] BY <1>1 DEF Init
  <2>2. today \in 1 .. MaxDay /\ faults \in 0 .. MaxFaults BY <1>1 DEF Init
  <2> QED BY <1>4, <1>5, <1>6, <2>1, <2>2 DEF TypeOK
<1>8. WritesArePrepared BY <1>1 DEF WritesArePrepared, Init
<1>9. ASSUME NEW p \in Processes PROVE LoopOK(p)
  <2>1. pr[p].pc = "down" /\ pr[p].doomed = {} BY <1>2, <1>3, RestingFacts, Zenon
  <2> QED BY <1>2, <2>1 DEF LoopOK
<1> QED BY <1>7, <1>8, <1>9 DEF MaintenanceInv

(* Every step keeps it.                                                        *)
LEMMA MaintenanceGoesOn ==
  ASSUME MaintenanceAssumption, MaintenanceInv, [Next]_vars PROVE MaintenanceInv'
<1>1. CASE UNCHANGED vars
  BY <1>1 DEF vars, MaintenanceInv, TypeOK, WritesArePrepared, LoopOK, Retention
<1>2. CASE Next
  <2>1. CASE LeaseExpires BY <2>1, ExpiryStep
  <2>2. CASE NewDay BY <2>2, MidnightStep
  <2>3. ASSUME NEW p \in Processes, Start(p) \/ Crash(p) PROVE MaintenanceInv'
    BY <2>3, StartCrashStep
  <2>4. ASSUME NEW p \in Processes, Stop(p) PROVE MaintenanceInv' BY <2>4, StopStep
  <2>5. ASSUME NEW p \in Processes, Boot(p) \/ PartitionTick(p) PROVE MaintenanceInv'
    <3>1. Acquire(p, ManageFrom(p)) /\ UNCHANGED <<today, parts, covered>>
      BY <2>5 DEF Boot, PartitionTick
    <3> QED BY <3>1, ManageStep
  <2>6. ASSUME NEW p \in Processes, RescueTick(p) PROVE MaintenanceInv' BY <2>6, RescueStep
  <2>7. ASSUME NEW p \in Processes, Housekeep(p) PROVE MaintenanceInv' BY <2>7, HousekeepStep
  <2>8. ASSUME NEW p \in Processes, EnsureDay(p) PROVE MaintenanceInv' BY <2>8, EnsureStep
  <2>9. ASSUME NEW p \in Processes, ListPartitions(p) PROVE MaintenanceInv' BY <2>9, ListStep
  <2>10. ASSUME NEW p \in Processes, DropPartition(p) PROVE MaintenanceInv' BY <2>10, DropStep
  <2> QED BY <1>2, <2>1, <2>2, <2>3, <2>4, <2>5, <2>6, <2>7, <2>8, <2>9, <2>10 DEF Next, Work
<1> QED BY <1>1, <1>2

(* Two loops cannot both be working under the one lease.                       *)
LEMMA MaintenanceShows ==
  ASSUME MaintenanceInv PROVE MaintenanceKeepsUp
<1>1. ASSUME NEW p \in Processes, NEW q \in Processes, p # q, pr[p].pc \in Working,
             pr[q].pc \in Working, ~pr[p].lapsed, ~pr[q].lapsed
      PROVE  FALSE
  <2>1. LoopOK(p) /\ LoopOK(q) BY DEF MaintenanceInv
  <2> QED BY <1>1, <2>1 DEF LoopOK
<1>2. OneLeaderUnlessLapsed BY <1>1 DEF OneLeaderUnlessLapsed
<1> QED BY <1>2 DEF MaintenanceInv, MaintenanceKeepsUp

(* A partition that goes away was past its own table's retention.              *)
LEMMA DropsAreOld ==
  ASSUME MaintenanceAssumption, MaintenanceInv, Next PROVE DropsOnlyOld
<1>1. TypeOK /\ parts \in [Tables -> SUBSET Day] BY DEF MaintenanceInv, TypeOK
<1>2. CASE parts' = parts BY <1>2 DEF DropsOnlyOld
<1>3. ASSUME NEW p \in Processes, EnsureDay(p) PROVE DropsOnlyOld
  <2>1. pr[p].t \in Tables BY <1>1 DEF TypeOK, Loop
  <2> QED BY <1>1, <1>2, <1>3, <2>1 DEF EnsureDay, DropsOnlyOld
<1>4. ASSUME NEW p \in Processes, DropPartition(p) PROVE DropsOnlyOld
  <2>1. pr[p].t \in Tables BY <1>1 DEF TypeOK, Loop
  <2>2. LoopOK(p) BY DEF MaintenanceInv
  <2>3. ASSUME NEW d \in pr[p].doomed, parts' = [parts EXCEPT ![pr[p].t] = @ \ {d}]
        PROVE  DropsOnlyOld
    <3>1. d < today - Retention(pr[p].t) BY <2>2, <2>3 DEF LoopOK
    <3>2. ASSUME NEW t \in Tables, NEW e \in parts[t] \ parts'[t] PROVE t = pr[p].t /\ e = d
      BY <1>1, <2>1, <2>3, <3>2
    <3> QED BY <3>1, <3>2 DEF DropsOnlyOld
  <2> QED BY <1>2, <1>4, <2>3, Zenon DEF DropPartition
<1> QED BY <1>2, <1>3, <1>4, Zenon DEF Next, Work, Start, Stop, Crash, Boot, RescueTick,
             PartitionTick, Housekeep, ListPartitions, LeaseExpires, NewDay

(* The loop (loop.go), for any number of processes, days ahead, retentions and      *)
(* faults: the days a complete pass prepared keep their partitions whatever other    *)
(* leaders drop, and two loops work at once only if a lease ran out under one.       *)
THEOREM MaintenanceKeepsUpAlways ==
  ASSUME MaintenanceAssumption PROVE Spec => []MaintenanceKeepsUp
<1>1. Init => MaintenanceInv BY MaintenanceBegins
<1>2. MaintenanceInv /\ [Next]_vars => MaintenanceInv' BY MaintenanceGoesOn
<1>3. MaintenanceInv => MaintenanceKeepsUp BY MaintenanceShows
<1> QED BY <1>1, <1>2, <1>3, PTL DEF Spec

(* DropPartition (maintenance_repo.go) removes only what is past its own table's     *)
(* retention, also in the hands of a loop that lost the lease since it listed.       *)
THEOREM RetentionIsAlwaysKept ==
  ASSUME MaintenanceAssumption PROVE Spec => RetentionIsKept
<1>1. Init => MaintenanceInv BY MaintenanceBegins
<1>2. MaintenanceInv /\ [Next]_vars => MaintenanceInv' BY MaintenanceGoesOn
<1>3. MaintenanceInv /\ [Next]_vars => [DropsOnlyOld]_vars BY DropsAreOld
<1> QED BY <1>1, <1>2, <1>3, PTL DEF Spec, RetentionIsKept
=============================================================================
