--------------------------- MODULE DeliveryProofs ---------------------------
(***************************************************************************)
(* The safety properties of Delivery, for every value of the constants, and *)
(* that Delivery implements DeliveryContract.                               *)
(***************************************************************************)
EXTENDS DeliverySteps

-----------------------------------------------------------------------------
(* Exclusive claims *)

NoNewClaims ==
  \A h \in Handlers : hs'[h].pc # "idle" => hs[h].pc # "idle" /\ SameClaim(hs[h], hs'[h])

LEMMA OnlyClaimClaims ==
  ASSUME TypeOK, [Next]_vars, \A w \in Workers : ~Claim(w)
  PROVE  NoNewClaims
<1>a. hs \in [Handlers -> Handler \cup {NoClaim}]
  BY Zenon DEF TypeOK
<1>b. \A h \in Handlers : hs'[h] = hs[h] \/ hs'[h] = NoClaim =>
        (hs'[h].pc # "idle" => hs[h].pc # "idle" /\ SameClaim(hs[h], hs'[h]))
  BY Zenon, NoClaimFacts DEF SameClaim
<1>1. CASE \A h \in Handlers : hs'[h] = hs[h] \/ hs'[h] = NoClaim
  BY Zenon, <1>1, <1>b DEF NoNewClaims
<1>2. ASSUME NEW h \in Handlers,
             \/ Start(h) \/ WaitForLane(h) \/ LaneAcquired(h)
             \/ Send(h) \/ EnqueueRecord(h) \/ Collect(h)
      PROVE  NoNewClaims
  <2>1. hs[h].pc # "idle" /\ \E ph \in Phase : Goto(h, ph)
    BY Zenon, <1>2 DEF Start, WaitForLane, LaneAcquired, Send, EnqueueRecord, Collect,
                Delivering, PastLane, Phase
  <2>2. PICK ph \in Phase : Moves(h, ph)
    BY Zenon, <1>a, <2>1, GotoEffect
  <2>. QED
    BY Zenon, <1>b, <2>1, <2>2 DEF Moves, NoNewClaims
<1>3. ASSUME NEW h \in Handlers, NEW ok \in BOOLEAN, Respond(h, ok) PROVE NoNewClaims
  <2>1. hs[h].pc = "sent" /\ hs[h] \in Handler
    BY Zenon, <1>3, <1>a, ClaimFields DEF Respond
  <2>2. /\ SameClaim(hs[h], hs'[h])
        /\ \A g \in Handlers : g # h => hs'[g] = hs[g]
    BY Zenon, <1>3, <1>a, <2>1 DEF Respond, SameClaim, Handler
  <2>. QED
    BY Zenon, <1>b, <2>1, <2>2 DEF NoNewClaims
<1>4. ASSUME NEW w \in Workers, Flush(w) PROVE NoNewClaims
  <2>. DEFINE B == InPhase(w, "batched")
  <2>1. CASE Forget(B)
    BY Zenon, <2>1, <1>b DEF Forget, NoNewClaims
  <2>2. CASE hs' = [h \in Handlers |->
                      IF h \in B THEN [hs[h] EXCEPT !.pc = "copied"] ELSE hs[h]]
    <3>1. ASSUME NEW g \in Handlers, g \in B
          PROVE  hs[g].pc # "idle" /\ SameClaim(hs[g], hs'[g])
      <4>1. hs[g].pc = "batched" /\ hs[g] \in Handler
        BY Zenon, <3>1, <1>a, ClaimFields DEF InPhase
      <4>. QED
        BY Zenon, <2>2, <3>1, <4>1 DEF SameClaim, Handler
    <3>. QED
      BY Zenon, <2>2, <1>b, <3>1 DEF NoNewClaims
  <2>. QED
    BY Zenon, <1>4, <2>1, <2>2 DEF Flush
<1>. QED
  BY Zenon, <1>1, <1>2, <1>3, <1>4, HandlerCases

\* A row whose lock is as it was, and that no new claim names.
LEMMA ExclusiveKept ==
  ASSUME NEW i \in TaskIds, Exclusive(i),
         row'[i].st = row[i].st, row'[i].lockedBy = row[i].lockedBy,
         row'[i].expired = row[i].expired, row'[i].attempt = row[i].attempt,
         \A h \in Handlers : hs'[h].pc # "idle" /\ hs'[h].task = i =>
                               hs[h].pc # "idle" /\ SameClaim(hs[h], hs'[h])
  PROVE  Exclusive(i)'
BY DEF Exclusive, Holders, SameClaim, Live

LEMMA ExclusiveFree ==
  ASSUME NEW i \in TaskIds, \A h \in Handlers : hs'[h].pc = "idle" \/ hs'[h].task # i
  PROVE  Exclusive(i)'
BY Zenon DEF Exclusive, Holders

\* A row that somebody with a right to it writes is left without claims.
LEMMA ExclusiveEnded ==
  ASSUME NEW i \in TaskIds, Exclusive(i), NoNewClaims,
         NEW h \in Handlers, hs[h].pc # "idle", hs[h].task = i, hs'[h].pc = "idle"
  PROVE  Exclusive(i)'
<1>1. \A g \in Handlers : hs'[g].pc # "idle" /\ hs'[g].task = i => g = h
  BY DEF Exclusive, Holders, NoNewClaims, SameClaim
<1>. QED
  BY Zenon, <1>1, ExclusiveFree

LEMMA ExclusiveStep ==
  ASSUME TypeOK, TypeOK', Advances, [Next]_vars, ClaimsConsistent, ExclusiveClaim
  PROVE  ExclusiveClaim'
<1>a. /\ row \in [TaskIds -> Row] /\ hs \in [Handlers -> Handler \cup {NoClaim}]
      /\ NoClaim.pc = "idle"
  BY Zenon, NoClaimFacts DEF TypeOK
<1>. SUFFICES ASSUME NEW i \in TaskIds, lapse'[i] = "none" PROVE Exclusive(i)'
  BY Zenon DEF ExclusiveClaim
<1>b. Exclusive(i)
  BY Zenon DEF Advances, ExclusiveClaim
<1>c. row[i].st = "unborn" => \A h \in Handlers : hs[h].pc = "idle" \/ hs[h].task # i
  BY Zenon DEF ClaimsConsistent, ClaimOK
<1>d. row[i].lockedBy = None => ~row[i].expired
  BY Zenon DEF ClaimsConsistent, RowOK
<1>e. \A h \in Handlers : hs[h].pc # "idle" => hs[h].worker \in Workers
  BY Zenon, <1>a, ClaimFields
<1>1. ASSUME NEW w \in Workers, NEW S, NEW H, Takes(w, S, H) PROVE Exclusive(i)'
  <2>1. CASE i \in S
    <3>1. row[i].lockedBy = None /\ Live(i) /\ ~row[i].expired
      BY Zenon, <1>1, <1>d, <2>1 DEF Takes
    <3>2. \A h \in Handlers : hs[h].pc = "idle" \/ hs[h].task # i
      BY Zenon, <1>b, <1>e, <3>1, DeliveryAssumption DEF Exclusive, Holders
    <3>3. \A h \in Handlers : hs'[h].pc # "idle" /\ hs'[h].task = i => h \in H
      BY <1>1, <3>2 DEF Takes
    <3>4. /\ row'[i].st = "live" /\ row'[i].lockedBy = w /\ ~row'[i].expired
          /\ row'[i].attempt = row[i].attempt
      BY Zenon, <1>1, <2>1, <3>1 DEF Takes, Live
    <3>5. \A h \in H : /\ hs'[h].worker = w /\ hs'[h].attempt = row[hs'[h].task].attempt
                       /\ \A g \in H : hs'[g].task = hs'[h].task => g = h
      BY Zenon, <1>1 DEF Takes
    <3>. QED
      BY <3>3, <3>4, <3>5 DEF Exclusive, Holders, Live
  <2>2. CASE i \notin S
    <3>1. row'[i] = row[i]
      BY Zenon, <1>1, <2>2 DEF Takes
    <3>2. \A h \in Handlers : hs'[h].pc # "idle" /\ hs'[h].task = i =>
                                hs[h].pc # "idle" /\ SameClaim(hs[h], hs'[h])
      BY Zenon, <1>1, <2>2 DEF Takes, SameClaim
    <3>. QED
      BY Zenon, <1>b, <3>1, <3>2, ExclusiveKept
  <2>. QED
    BY Zenon, <2>1, <2>2
<1>2. ASSUME \A w \in Workers : ~Claim(w) /\ ~ClaimLost(w) PROVE Exclusive(i)'
  <2>0. NoNewClaims
    BY Zenon, <1>2, OnlyClaimClaims
  <2>a. \A h \in Handlers : hs'[h].pc # "idle" /\ hs'[h].task = i =>
                              hs[h].pc # "idle" /\ SameClaim(hs[h], hs'[h])
    BY Zenon, <2>0 DEF NoNewClaims
  <2>b. row'[i] = row[i] => Exclusive(i)'
    BY Zenon, <1>b, <2>a, ExclusiveKept
  <2>c. (\A h \in Handlers : hs[h].pc = "idle" \/ hs[h].task # i) => Exclusive(i)'
    <3>. SUFFICES ASSUME \A h \in Handlers : hs[h].pc = "idle" \/ hs[h].task # i
                  PROVE  Exclusive(i)'
      OBVIOUS
    <3>1. \A h \in Handlers : hs'[h].pc = "idle" \/ hs'[h].task # i
      BY Zenon, <2>a DEF SameClaim
    <3>. QED
      BY Zenon, <3>1, ExclusiveFree
  <2>1. CASE UNCHANGED row
    BY Zenon, <2>1, <2>b
  <2>2. ASSUME NEW h \in Handlers, Settles(h) PROVE Exclusive(i)'
    <3>1. CASE i = hs[h].task
      <4>1. hs[h].pc # "idle" /\ hs'[h].pc = "idle"
        BY Zenon, <1>a, <2>2 DEF Settles, Frees
      <4>. QED
        BY Zenon, <1>b, <2>0, <3>1, <4>1, ExclusiveEnded
    <3>2. CASE i # hs[h].task
      BY Zenon, <2>2, <2>b, <3>2 DEF Settles, Defers, Retries, Completes
    <3>. QED
      BY Zenon, <3>1, <3>2
  <2>3. ASSUME NEW h \in Handlers, NEW F, NEW g, Expands(h, F, g) PROVE Exclusive(i)'
    <3>1. CASE i \in F
      BY Zenon, <1>c, <2>3, <2>c, <3>1 DEF Expands
    <3>2. CASE i = hs[h].task
      <4>1. hs[h].pc # "idle" /\ hs'[h].pc = "idle"
        BY Zenon, <1>a, <2>3 DEF Expands, Frees
      <4>. QED
        BY Zenon, <1>b, <2>0, <3>2, <4>1, ExclusiveEnded
    <3>3. CASE i \notin F /\ i # hs[h].task
      BY Zenon, <2>3, <2>b, <3>3 DEF Expands
    <3>. QED
      BY Zenon, <3>1, <3>2, <3>3
  <2>4. ASSUME NEW w \in Workers, ReleaseBatch(w) PROVE Exclusive(i)'
    <3>1. CASE UNCHANGED row
      BY Zenon, <3>1, <2>b
    <3>2. CASE row' # row
      <4>1. /\ Release(batch[w]) /\ Frees(InPhase(w, "claimed"))
            /\ i \in batch[w] => Holders(i) \ InPhase(w, "claimed") = {}
        <5>1. /\ Release(batch[w])
              /\ lapse' = [j \in TaskIds |->
                       IF /\ j \in batch[w] /\ lapse[j] = "none"
                          /\ Holders(j) \ InPhase(w, "claimed") # {}
                       THEN "release" ELSE lapse[j]]
          BY Zenon, <2>4, <3>2 DEF ReleaseBatch
        <5>2. i \in batch[w] => Holders(i) \ InPhase(w, "claimed") = {}
          BY Zenon, <5>1
        <5>. QED
          BY Zenon, <2>4, <5>1, <5>2, BatchEffect
      <4>2. CASE i \in batch[w]
        <5>1. \A h \in Handlers : hs'[h].pc = "idle" \/ hs'[h].task # i
          BY Zenon, <1>a, <4>1, <4>2 DEF Frees, Holders
        <5>. QED
          BY Zenon, <5>1, ExclusiveFree
      <4>3. CASE i \notin batch[w]
        BY Zenon, <4>1, <4>3, <2>b DEF Release
      <4>. QED
        BY Zenon, <4>2, <4>3
    <3>. QED
      BY Zenon, <3>1, <3>2
  <2>5. ASSUME NEW w \in Workers, FinalizeComplete(w) PROVE Exclusive(i)'
    <3>1. /\ Frees(InPhase(w, "copied"))
          /\ UNCHANGED row \/ Completes({hs[h].task : h \in InPhase(w, "copied")})
      BY Zenon, <2>5, BatchEffect
    <3>2. ASSUME NEW h \in InPhase(w, "copied"), hs[h].task = i PROVE Exclusive(i)'
      <4>1. h \in Handlers /\ hs[h].pc # "idle" /\ hs'[h].pc = "idle"
        BY Zenon, <1>a, <3>1 DEF InPhase, Frees
      <4>. QED
        BY Zenon, <1>b, <2>0, <3>2, <4>1, ExclusiveEnded
    <3>3. CASE i \notin {hs[h].task : h \in InPhase(w, "copied")}
      BY Zenon, <3>1, <3>3, <2>b DEF Completes
    <3>. QED
      BY Zenon, <3>2, <3>3
  <2>6. ASSUME NEW j \in TaskIds, BecomeVisible(j) \/ Expire(j) PROVE Exclusive(i)'
    <3>1. CASE j # i
      BY Zenon, <1>a, <2>6, <2>b, <3>1 DEF BecomeVisible, Expire
    <3>2. CASE BecomeVisible(i)
      <4>1. /\ row'[i].st = row[i].st /\ row'[i].lockedBy = row[i].lockedBy
            /\ row'[i].expired = row[i].expired /\ row'[i].attempt = row[i].attempt
        BY Zenon, <1>a, <3>2 DEF BecomeVisible, Row
      <4>. QED
        BY Zenon, <1>b, <2>a, <4>1, ExclusiveKept
    <3>3. CASE Expire(i)
      BY <2>c, <3>3 DEF Expire, Holders, TypeOK
    <3>. QED
      BY Zenon, <2>6, <3>1, <3>2, <3>3
  <2>7. CASE RescueStuck
    <3>1. CASE row[i].expired
      BY Zenon, <1>b, <2>c, <3>1 DEF Exclusive, Holders
    <3>2. CASE ~row[i].expired
      BY Zenon, <2>7, <2>b, <3>2 DEF RescueStuck
    <3>. QED
      BY Zenon, <3>1, <3>2
  <2>8. ASSUME NEW j, NEW r, Adds(j, r) PROVE Exclusive(i)'
    BY Zenon, <2>8, <1>c, <2>b, <2>c DEF Adds
  <2>. QED
    BY Zenon, <1>2, <2>1, <2>2, <2>3, <2>4, <2>5, <2>6, <2>7, <2>8,
       RowCases, SettlingSteps, ExpandEffect, BirthEffect
<1>. QED
  BY Zenon, <1>1, <1>2, ClaimEffect

-----------------------------------------------------------------------------
(* Fan-out *)

\* Only ingest, a resend and the fan-out transaction create rows.
LEMMA Births ==
  ASSUME TypeOK, [Next]_vars
  PROVE  \/ \A i \in TaskIds : row'[i].st # "unborn" => row[i].st # "unborn"
         \/ \E m \in Msgs, i \in TaskIds :
              Ingest(m) /\ Adds(i, NewRow("fanout", "scheduled", m, None))
         \/ \E m \in Msgs, e \in Endpoints, i \in TaskIds :
              Resend(m, e) /\ Adds(i, NewRow("deliver", "manual", m, e))
         \/ \E h \in Handlers : \E F, g : Expands(h, F, g)
<1>. DEFINE Barren == \A i \in TaskIds : row'[i].st # "unborn" => row[i].st # "unborn"
<1>a. row \in [TaskIds -> Row]
  BY Zenon DEF TypeOK
<1>1. UNCHANGED row => Barren
  OBVIOUS
<1>2. ASSUME NEW h \in Handlers, Settles(h) PROVE Barren
  BY Zenon, <1>2 DEF Settles, Defers, Retries, Completes, Live
<1>3. ASSUME NEW w \in Workers, NEW S, NEW H, Takes(w, S, H) PROVE Barren
  BY Zenon, <1>3 DEF Takes
<1>4. ASSUME NEW w \in Workers, ReleaseBatch(w) PROVE Barren
  <2>1. UNCHANGED row \/ Releases(batch[w])
    BY Zenon, <1>4, BatchEffect
  <2>. QED
    BY Zenon, <2>1 DEF Releases
<1>5. ASSUME NEW w \in Workers, FinalizeComplete(w) PROVE Barren
  <2>1. UNCHANGED row \/ \E T : Completes(T)
    BY Zenon, <1>5, BatchEffect
  <2>. QED
    BY Zenon, <2>1 DEF Completes, Live
<1>6. ASSUME NEW j \in TaskIds, BecomeVisible(j) \/ Expire(j) PROVE Barren
  BY Zenon, <1>6, <1>a DEF BecomeVisible, Expire, Live
<1>7. ASSUME RescueStuck PROVE Barren
  BY Zenon, <1>7 DEF RescueStuck, Live
<1>8. ASSUME NEW m \in Msgs, Ingest(m)
      PROVE  \E i \in TaskIds : Adds(i, NewRow("fanout", "scheduled", m, None))
  BY Zenon, <1>8, BirthEffect DEF Adds
<1>9. ASSUME NEW m \in Msgs, NEW e \in Endpoints, Resend(m, e)
      PROVE  \E i \in TaskIds : Adds(i, NewRow("deliver", "manual", m, e))
  BY Zenon, <1>9, BirthEffect DEF Adds
<1>. HIDE DEF Barren
<1>10. \/ Barren
       \/ \E m \in Msgs, i \in TaskIds :
            Ingest(m) /\ Adds(i, NewRow("fanout", "scheduled", m, None))
       \/ \E m \in Msgs, e \in Endpoints, i \in TaskIds :
            Resend(m, e) /\ Adds(i, NewRow("deliver", "manual", m, e))
       \/ \E h \in Handlers : \E F, g : Expands(h, F, g)
  BY Zenon, <1>1, <1>2, <1>3, <1>4, <1>5, <1>6, <1>7, <1>8, <1>9,
     RowCases, SettlingSteps, ExpandEffect, ClaimEffect
<1>. QED
  BY Zenon, <1>10 DEF Barren

LEMMA OneFanoutStep ==
  ASSUME TypeOK, Advances, [Next]_vars, ClaimsConsistent
  PROVE  OneFanout'
<1>a. /\ OneFanout
      /\ \A i \in TaskIds : row[i].st # "unborn" =>
           SameTask(row[i], row'[i]) /\ row[i].msg \in accepted
  BY Zenon DEF ClaimsConsistent, RowOK, Advances
<1>1. CASE \A i \in TaskIds : row'[i].st # "unborn" /\ row'[i].kind = "fanout" => row[i].st # "unborn"
  BY <1>1, <1>a DEF OneFanout, SameTask
<1>2. ASSUME NEW m \in Msgs, NEW i \in TaskIds, Ingest(m),
             Adds(i, NewRow("fanout", "scheduled", m, None))
      PROVE  OneFanout'
  <2>1. m \notin accepted
    BY Zenon, <1>2 DEF Ingest
  <2>2. row'[i].msg = m /\ \A j \in TaskIds : j # i => row'[j] = row[j]
    BY <1>2 DEF Adds, NewRow
  <2>. QED
    BY <1>a, <2>1, <2>2 DEF OneFanout
<1>3. ASSUME NEW m \in Msgs, NEW e \in Endpoints, NEW i \in TaskIds,
             Adds(i, NewRow("deliver", "manual", m, e))
      PROVE  OneFanout'
  <2>1. row'[i].kind = "deliver" /\ \A j \in TaskIds : j # i => row'[j] = row[j]
    BY <1>3 DEF Adds, NewRow
  <2>. QED
    BY Zenon, <1>1, <2>1
<1>4. ASSUME NEW h \in Handlers, NEW F, NEW g, Expands(h, F, g) PROVE OneFanout'
  <2>0. \A i \in F : row'[i] = NewRow("deliver", row[hs[h].task].trig, row[hs[h].task].msg, g[i])
    BY Zenon, <1>4 DEF Expands
  <2>1. ASSUME NEW i \in F PROVE row'[i].kind = "deliver"
    <3>1. row'[i] = NewRow("deliver", row[hs[h].task].trig, row[hs[h].task].msg, g[i])
      BY Zenon, <2>0
    <3>. QED
      BY <3>1 DEF NewRow
  <2>2. \A i \in TaskIds \ F : row'[i] = row[i] \/ Live(i)
    BY Zenon, <1>4 DEF Expands
  <2>. QED
    BY Zenon, <1>1, <2>1, <2>2 DEF Live
<1>. QED
  BY Zenon, <1>1, <1>2, <1>3, <1>4, Births

LEMMA FanoutStep ==
  ASSUME TypeOK, Advances, [Next]_vars, ClaimsConsistent, ClaimsConsistent',
         ExclusiveClaim, FanoutOnce
  PROVE  FanoutOnce'
<1>. DEFINE Target(i, f) == /\ row[i].kind = "deliver" /\ row[i].trig = "scheduled"
                            /\ row[i].msg = row[f].msg
<1>a. \A i \in TaskIds : /\ row[i].st # "unborn" => SameTask(row[i], row'[i])
                         /\ row[i].st = "unborn" => row[i].kind = "fanout"
                         /\ row[i].st # "unborn" => row[i].msg \in accepted
                         /\ row[i].kind = "fanout" => row[i].trig = "scheduled"
                         /\ row[i].st = "gone" => row'[i] = row[i]
                         /\ lapse[i] # "none" => lapse'[i] = lapse[i]
  BY Zenon DEF ClaimsConsistent, RowOK, Advances
<1>b. \A f \in TaskIds : row[f].kind = "fanout" /\ row[f].st # "unborn" /\ lapse[f] = "none" =>
        \A i, j \in TaskIds : Target(i, f) /\ Target(j, f) /\ row[i].ep = row[j].ep
                                => i = j /\ row[f].st = "gone"
  BY DEF FanoutOnce
<1>. SUFFICES ASSUME NEW f \in TaskIds, row'[f].kind = "fanout", row'[f].st # "unborn",
                     lapse'[f] = "none", NEW i \in TaskIds, NEW j \in TaskIds,
                     Target(i, f)', Target(j, f)', row'[i].ep = row'[j].ep
              PROVE  i = j /\ row'[f].st = "gone"
  BY DEF FanoutOnce
<1>1. CASE row[f].st # "unborn" /\ row[i].st # "unborn" /\ row[j].st # "unborn"
  BY <1>1, <1>a, <1>b DEF SameTask
<1>2. ASSUME NEW m \in Msgs, NEW k \in TaskIds, Ingest(m),
             Adds(k, NewRow("fanout", "scheduled", m, None))
      PROVE  i = j /\ row'[f].st = "gone"
  <2>1. m \notin accepted
    BY Zenon, <1>2 DEF Ingest
  <2>2. row'[k].msg = m /\ row'[k].kind = "fanout" /\ \A l \in TaskIds : l # k => row'[l] = row[l]
    BY <1>2 DEF Adds, NewRow
  <2>3. i # k /\ j # k /\ row[i].st # "unborn" /\ row[j].st # "unborn"
    BY Zenon, <1>a, <2>2
  <2>. QED
    BY Zenon, <1>1, <1>a, <2>1, <2>2, <2>3
<1>3. ASSUME NEW m \in Msgs, NEW e \in Endpoints, NEW k \in TaskIds,
             Adds(k, NewRow("deliver", "manual", m, e))
      PROVE  i = j /\ row'[f].st = "gone"
  <2>1. row'[k].trig = "manual" /\ row'[k].kind = "deliver" /\ \A l \in TaskIds : l # k => row'[l] = row[l]
    BY <1>3 DEF Adds, NewRow
  <2>. QED
    BY Zenon, <1>1, <1>a, <2>1
<1>4. ASSUME NEW h \in Handlers, NEW F, NEW g, Expands(h, F, g)
      PROVE  i = j /\ row'[f].st = "gone"
  <2>. DEFINE t == hs[h].task
  <2>0. \A k \in F : row'[k] = NewRow("deliver", row[t].trig, row[t].msg, g[k])
    BY Zenon, <1>4 DEF Expands
  <2>1. ASSUME NEW k \in F
        PROVE  row'[k].kind = "deliver" /\ row'[k].msg = row[t].msg /\ row'[k].ep = g[k]
    <3>1. row'[k] = NewRow("deliver", row[t].trig, row[t].msg, g[k])
      BY Zenon, <2>0
    <3>. QED
      BY <3>1 DEF NewRow
  <2>2. \A k \in TaskIds \ F : row'[k] = row[k] \/ Live(k)
    BY Zenon, <1>4 DEF Expands
  <2>3. /\ t \in TaskIds /\ row[t].kind = "fanout" /\ row[t].st # "unborn" /\ h \in Holders(t)
        /\ lapse' = lapse /\ \A a, b \in F : g[a] = g[b] => a = b
    BY Zenon, <1>4 DEF Expands, ClaimsConsistent, ClaimOK, Holders
  <2>4. f \notin F /\ row[f].st # "unborn" /\ SameTask(row[f], row'[f])
    BY Zenon, <1>a, <2>1, <2>2 DEF Live
  <2>5. \A k \in {i, j} : k \in F \/ (row[k].st # "unborn" /\ Target(k, f))
    BY <1>a, <2>2, <2>4 DEF Live, SameTask
  <2>6. CASE i \in F \/ j \in F
    <3>1. row[f].msg = row[t].msg
      BY Zenon, <2>1, <2>4, <2>6 DEF SameTask
    <3>2. f = t
      BY Zenon, <2>3, <2>4, <3>1 DEF ClaimsConsistent, OneFanout, SameTask
    <3>3. Live(t) /\ lapse[t] = "none"
      BY Zenon, <2>3, <3>2 DEF ExclusiveClaim, Exclusive
    <3>4. \A k \in TaskIds : ~Target(k, f)
      BY Zenon, <1>b, <2>3, <3>2, <3>3 DEF Live
    <3>5. i \in F /\ j \in F
      BY Zenon, <2>5, <3>4
    <3>6. row'[t].st = "gone"
      <4>1. row'[t] = Deleted(row[t]) /\ row[t] \in Row
        BY Zenon, <1>4, <2>3, <2>4, <3>2, <3>3 DEF Expands, TypeOK
      <4>2. Deleted(row[t]).st = "gone"
        BY Zenon, <4>1, DeletedRow
      <4>. QED
        BY Zenon, <4>1, <4>2
    <3>. QED
      BY ZenonT(30), <2>1, <2>3, <3>2, <3>5, <3>6
  <2>7. CASE i \notin F /\ j \notin F
    BY Zenon, <1>1, <2>4, <2>5, <2>7
  <2>. QED
    BY Zenon, <2>6, <2>7
<1>5. CASE \A k \in TaskIds : row'[k].st # "unborn" => row[k].st # "unborn"
  <2>1. row'[i].st # "unborn" /\ row'[j].st # "unborn"
    BY Zenon DEF ClaimsConsistent, RowOK
  <2>. QED
    BY Zenon, <1>1, <1>5, <2>1
<1>. QED
  BY Zenon, <1>2, <1>3, <1>4, <1>5, Births

-----------------------------------------------------------------------------
(* Nothing is lost *)

\* The steps that remove a row.
LEMMA Removals ==
  ASSUME TypeOK, [Next]_vars, NEW i \in TaskIds, row[i].st # "gone", row'[i].st = "gone"
  PROVE  \/ \E h \in Handlers : /\ FanoutDrop(h) \/ DeliverDrop(h) \/ RequeueForBreaker(h)
                                /\ hs[h].pc # "idle" /\ hs[h].task = i /\ Live(i)
                                /\ Completes({i})
         \/ \E h \in Handlers : \E F, g : Expands(h, F, g) /\ hs[h].task = i /\ Live(i)
         \/ \E w \in Workers : FinalizeComplete(w) /\ \E h \in InPhase(w, "copied") : hs[h].task = i
<1>a. row \in [TaskIds -> Row] /\ hs \in [Handlers -> Handler \cup {NoClaim}]
  BY Zenon DEF TypeOK
<1>1. ~UNCHANGED row
  OBVIOUS
<1>2. \A t \in TaskIds : ~Defers(t) /\ ~Retries(t)
  BY Zenon DEF Defers, Retries, Live
<1>3. ASSUME NEW h \in Handlers, DeferTask(h) \/ DeferForSaturation(h) \/ FinalizeRetry(h)
      PROVE  FALSE
  <2>1. hs[h].task \in TaskIds
    BY Zenon, <1>a, <1>3, ClaimFields DEF DeferTask, DeferForSaturation, FinalizeRetry
  <2>2. UNCHANGED row \/ Defer(hs[h].task) \/ Retry(hs[h].task)
    BY Zenon, <1>3 DEF DeferTask, DeferForSaturation, FinalizeRetry
  <2>3. UNCHANGED row \/ Defers(hs[h].task) \/ Retries(hs[h].task)
    BY Zenon, <1>a, <2>1, <2>2, DeferEffect, RetryEffect
  <2>. QED
    BY Zenon, <1>1, <1>2, <2>1, <2>3
<1>4. ASSUME NEW h \in Handlers, FanoutDrop(h) \/ DeliverDrop(h) \/ RequeueForBreaker(h)
      PROVE  hs[h].pc # "idle" /\ hs[h].task = i /\ Live(i) /\ Completes({i})
  <2>1. Settles(h)
    BY Zenon, <1>4, SettlingSteps
  <2>2. hs[h].pc # "idle" /\ hs[h].task \in TaskIds /\ Completes({hs[h].task})
    BY Zenon, <1>1, <1>2, <2>1 DEF Settles
  <2>3. hs[h].task = i /\ Live(i)
    BY Zenon, <2>2 DEF Completes
  <2>. QED
    BY Zenon, <2>2, <2>3
<1>5. ASSUME NEW h \in Handlers, NEW F, NEW g, Expands(h, F, g) PROVE hs[h].task = i /\ Live(i)
  <2>1. i \notin F
    <3>1. SUFFICES ASSUME i \in F PROVE FALSE
      OBVIOUS
    <3>2. row'[i] = NewRow("deliver", row[hs[h].task].trig, row[hs[h].task].msg, g[i])
      BY Zenon, <1>5, <3>1 DEF Expands
    <3>3. row'[i].st = "live"
      BY <3>2 DEF NewRow
    <3>. QED
      BY Zenon, <3>3
  <2>. QED
    BY Zenon, <1>5, <2>1 DEF Expands
<1>6. \A w \in Workers : \A S, H : ~Takes(w, S, H)
  BY Zenon DEF Takes
<1>7. ASSUME NEW w \in Workers, ReleaseBatch(w) PROVE FALSE
  <2>1. UNCHANGED row \/ Releases(batch[w])
    BY Zenon, <1>7, BatchEffect
  <2>. QED
    BY Zenon, <2>1 DEF Releases
<1>8. ASSUME NEW w \in Workers, FinalizeComplete(w)
      PROVE  \E h \in InPhase(w, "copied") : hs[h].task = i
  <2>1. UNCHANGED row \/ Completes({hs[h].task : h \in InPhase(w, "copied")})
    BY Zenon, <1>8, BatchEffect
  <2>. QED
    BY Zenon, <2>1 DEF Completes
<1>9. \A j \in TaskIds : ~BecomeVisible(j) /\ ~Expire(j)
  BY <1>a DEF BecomeVisible, Expire, Row
<1>10. ~RescueStuck
  <2>1. SUFFICES ASSUME RescueStuck PROVE FALSE
    OBVIOUS
  <2>2. row'[i] = Unlocked(row[i]) /\ row[i] \in Row
    BY Zenon, <1>a, <2>1 DEF RescueStuck
  <2>3. Unlocked(row[i]).st = row[i].st
    BY Zenon, <2>2, UnlockedRow
  <2>. QED
    BY Zenon, <2>2, <2>3
<1>11. ASSUME NEW j, NEW r, Adds(j, r), r.st = "live" PROVE FALSE
  BY Zenon, <1>11 DEF Adds
<1>12. \A k, t, m, e : NewRow(k, t, m, e).st = "live"
  BY Zenon DEF NewRow
<1>13. \A m \in Msgs : ~Ingest(m) /\ \A e \in Endpoints : ~Resend(m, e)
  BY <1>11, <1>12, BirthEffect
<1>. QED
  BY Zenon, <1>1, <1>3, <1>4, <1>5, <1>6, <1>7, <1>8, <1>9, <1>10, <1>13,
     RowCases, ExpandEffect, ClaimEffect

\* Once a removal is accounted for, it stays so.
LEMMA ExcuseStands ==
  ASSUME Advances, ClaimsConsistent, NEW i \in TaskIds, row[i].st = "gone", Excused(i)
  PROVE  Excused(i)'
<1>1. /\ row'[i] = row[i] /\ dropped'[i] = dropped[i] /\ row[i].msg \in accepted
      /\ deactivated \subseteq deactivated' /\ stored' \cap accepted \subseteq stored
  BY Zenon DEF Advances, ClaimsConsistent, RowOK
<1>2. \A j \in TaskIds : row[j].st # "unborn" => row'[j].st # "unborn" /\ SameTask(row[j], row'[j])
  BY Zenon DEF Advances
<1>3. \A e \in Subscribed[row[i].msg] \ deactivated' : e \in Subscribed[row[i].msg] \ deactivated
  BY Zenon, <1>1
<1>4. CASE dropped[i] = "fanned_out"
  <2>1. /\ row[i].kind = "fanout"
        /\ \A e \in Subscribed[row[i].msg] \ deactivated : \E j \in TaskIds :
          /\ row[j].st # "unborn" /\ row[j].kind = "deliver"
          /\ row[j].trig = "scheduled" /\ row[j].msg = row[i].msg /\ row[j].ep = e
    BY Zenon, <1>4 DEF Excused
  <2>2. \A e \in Subscribed[row[i].msg] \ deactivated' : \E j \in TaskIds :
          /\ row'[j].st # "unborn" /\ row'[j].kind = "deliver"
          /\ row'[j].trig = "scheduled" /\ row'[j].msg = row[i].msg /\ row'[j].ep = e
    BY <1>2, <1>3, <2>1 DEF SameTask
  <2>. QED
    BY <1>1, <1>4, <2>1, <2>2 DEF Excused
<1>5. CASE dropped[i] # "fanned_out"
  BY Zenon, <1>1, <1>5 DEF Excused, Exhausted
<1>. QED
  BY Zenon, <1>4, <1>5

LEMMA LossStep ==
  ASSUME TypeOK, Advances, [Next]_vars, ClaimsConsistent, NoSilentLoss
  PROVE  NoSilentLoss'
<1>. SUFFICES ASSUME NEW i \in TaskIds, row'[i].st = "gone"
              PROVE  (\E a \in attempts' : a.task = i /\ a.status \in Terminal) \/ Excused(i)'
  BY Zenon DEF NoSilentLoss
<1>a. /\ row \in [TaskIds -> Row] /\ hs \in [Handlers -> Handler \cup {NoClaim}]
      /\ dropped \in [TaskIds -> DropReason \cup {"none"}]
  BY Zenon DEF TypeOK
<1>1. CASE row[i].st = "gone"
  <2>1. (\E a \in attempts : a.task = i /\ a.status \in Terminal) \/ Excused(i)
    BY Zenon, <1>1 DEF NoSilentLoss
  <2>2. attempts \subseteq attempts'
    BY Zenon DEF Advances
  <2>3. Excused(i) => Excused(i)'
    BY Zenon, <1>1, ExcuseStands
  <2>. QED
    BY Zenon, <2>1, <2>2, <2>3
<1>2. ASSUME NEW h \in Handlers, FanoutDrop(h) \/ DeliverDrop(h) \/ RequeueForBreaker(h),
             hs[h].pc # "idle", hs[h].task = i, Live(i), Completes({i})
      PROVE  Excused(i)'
  <2>1. SameTask(row[i], row'[i]) /\ row'[i].attempt = row[i].attempt /\ row[i].attempt \in Nat
    BY Zenon, <1>a, <1>2, Attempts DEF Completes
  <2>2. \A reason : Drop(h, reason) => dropped'[i] = reason
    BY Zenon, <1>a, <1>2 DEF Drop
  <2>3. ClaimOK(h) /\ hs[h].attempt \in Nat
    BY Zenon, <1>a, <1>2, ClaimFields DEF ClaimsConsistent
  <2>4. CASE FanoutDrop(h)
    BY Zenon, <1>2, <2>1, <2>2, <2>4 DEF FanoutDrop, Matches, Excused, SameTask
  <2>5. CASE DeliverDrop(h)
    BY Zenon, <1>2, <2>1, <2>2, <2>3, <2>5
       DEF DeliverDrop, Delivering, PastLane, ClaimOK, DeliverPhase, Excused, SameTask
  <2>6. CASE RequeueForBreaker(h)
    <3>1. row[i].kind = "deliver" /\ hs[h].attempt <= row[i].attempt
      BY Zenon, <1>2, <2>3, <2>6 DEF RequeueForBreaker, Delivering, ClaimOK
    <3>2. Exhausted(hs[h].attempt) /\ Drop(h, "breaker_exhausted")
      <4>1. CASE Retry(i)
        <5>1. Retries(i)
          BY Zenon, <1>a, <4>1, RetryEffect
        <5>. QED
          BY Zenon, <1>2, <5>1 DEF Retries
      <4>. QED
        BY Zenon, <1>2, <2>6, <4>1 DEF RequeueForBreaker
    <3>3. row[i].attempt >= ScheduleLen
      BY <2>1, <2>3, <3>1, <3>2, DeliveryAssumption DEF Exhausted
    <3>4. dropped'[i] = "breaker_exhausted" /\ row'[i].kind = "deliver" /\ row'[i].attempt = row[i].attempt
      BY Zenon, <2>1, <2>2, <3>1, <3>2 DEF SameTask
    <3>. QED
      BY Zenon, <3>3, <3>4 DEF Excused, Exhausted
  <2>. QED
    BY Zenon, <1>2, <2>4, <2>5, <2>6
<1>3. ASSUME NEW h \in Handlers, NEW F, NEW g, Expands(h, F, g), hs[h].task = i, Live(i)
      PROVE  Excused(i)'
  <2>1. /\ dropped'[i] = "fanned_out" /\ row[i].kind = "fanout" /\ row[i].trig = "scheduled"
        /\ deactivated' = deactivated /\ F \subseteq TaskIds
    BY Zenon, <1>a, <1>3 DEF Expands, ClaimsConsistent, RowOK
  <2>2. SameTask(row[i], row'[i])
    BY Zenon, <1>3 DEF Advances, Live
  <2>3. ASSUME NEW e \in Subscribed[row[i].msg] \ deactivated
        PROVE  \E j \in TaskIds : /\ row'[j].st # "unborn" /\ row'[j].kind = "deliver"
                                  /\ row'[j].trig = "scheduled" /\ row'[j].msg = row[i].msg
                                  /\ row'[j].ep = e
    <3>1. PICK j \in F : g[j] = e
      BY Zenon, <1>3 DEF Expands
    <3>2. row'[j] = NewRow("deliver", row[i].trig, row[i].msg, e)
      BY Zenon, <1>3, <3>1 DEF Expands
    <3>3. /\ row'[j].st = "live" /\ row'[j].kind = "deliver" /\ row'[j].trig = row[i].trig
          /\ row'[j].msg = row[i].msg /\ row'[j].ep = e
      BY <3>2 DEF NewRow
    <3>. QED
      BY Zenon, <2>1, <3>3
  <2>. QED
    BY <2>1, <2>2, <2>3 DEF Excused, SameTask
<1>4. ASSUME NEW w \in Workers, FinalizeComplete(w), NEW h \in InPhase(w, "copied"), hs[h].task = i
      PROVE  \E a \in attempts' : a.task = i /\ a.status \in Terminal
  <2>1. h \in Handlers /\ hs[h].pc = "copied" /\ hs[h].status # "pending_retry" /\ attempts' = attempts
    BY Zenon, <1>4 DEF FinalizeComplete, InPhase
  <2>2. hs[h].status \in Terminal
    BY Zenon, <1>a, <2>1, ClaimFields DEF AttemptStatus, Terminal
  <2>3. AttemptOf(h) \in attempts
    BY Zenon, <2>1 DEF ClaimsConsistent, ClaimOK
  <2>4. AttemptOf(h).task = i /\ AttemptOf(h).status = hs[h].status
    BY Zenon, <1>4 DEF AttemptOf
  <2>. QED
    BY Zenon, <2>1, <2>2, <2>3, <2>4
<1>. QED
  BY Zenon, <1>1, <1>2, <1>3, <1>4, Removals

-----------------------------------------------------------------------------
(* The attempt log and the retry schedule *)

\* Only a flush adds to the log, and it adds what claims in the batch know.
LEMMA LogCases ==
  ASSUME [Next]_vars
  PROVE  \/ attempts' = attempts
         \/ \E w \in Workers : /\ UNCHANGED <<row, lapse, acked>>
                               /\ attempts' = attempts \cup {AttemptOf(h) : h \in InPhase(w, "batched")}
<1>1. \A h \in Handlers : HandlerStep(h) => UNCHANGED attempts
  BY Zenon DEF HandlerStep, Start, KeepLock, DeferTask, FanoutDrop, FanoutExpand, WaitForLane,
         LaneAcquired, DeferForSaturation, DeliverDrop, RequeueForBreaker, Send, Respond,
         EnqueueRecord, EnqueueTimesOut, Collect, FinalizeRetry
<1>2. \A w \in Workers : WorkerStep(w) => UNCHANGED attempts \/ Flush(w)
  BY Zenon DEF WorkerStep, Claim, ClaimLost, ReleaseBatch, FinalizeComplete, Shutdown, Stopped,
         Crash, Restart
<1>3. \A w \in Workers : Flush(w) =>
        \/ UNCHANGED attempts
        \/ /\ UNCHANGED <<row, lapse, acked>>
           /\ attempts' = attempts \cup {AttemptOf(h) : h \in InPhase(w, "batched")}
  BY Zenon DEF Flush
<1>4. RescueStuck \/ Environment \/ UNCHANGED vars \/ (\E i \in TaskIds : QueueStep(i))
        => UNCHANGED attempts
  BY Zenon DEF RescueStuck, Environment, Ingest, AgeOut, Resend, Deactivate, QueueStep,
         BecomeVisible, Expire, vars
<1>. QED
  BY Zenon, <1>1, <1>2, <1>3, <1>4 DEF Next

Honest(a) ==
  /\ row[a.task].st # "unborn" /\ row[a.task].kind = "deliver"
  /\ a.status = "succeeded" => a.task \in acked
  /\ a.status = "failed" => row[a.task].trig = "manual" \/ a.number > ScheduleLen
  /\ a.status = "pending_retry" => row[a.task].trig = "scheduled" /\ a.number <= ScheduleLen

LEMMA LogStep ==
  ASSUME TypeOK, Advances, [Next]_vars, ClaimsConsistent, HonestLog
  PROVE  HonestLog'
<1>a. \A a \in attempts : a.task \in TaskIds /\ Honest(a)
  BY Zenon DEF HonestLog, Honest, TypeOK, Attempt
<1>. SUFFICES \A a \in attempts' : Honest(a)'
  BY Zenon DEF HonestLog, Honest
<1>1. ASSUME NEW a \in attempts PROVE Honest(a)'
  <2>1. a.task \in TaskIds /\ Honest(a)
    BY Zenon, <1>a
  <2>2. /\ row'[a.task].st # "unborn" /\ SameTask(row[a.task], row'[a.task])
        /\ acked \subseteq acked'
    BY Zenon, <2>1 DEF Honest, Advances
  <2>. QED
    BY Zenon, <2>1, <2>2 DEF Honest, SameTask
<1>2. ASSUME NEW w \in Workers, UNCHANGED <<row, lapse, acked>>,
             NEW h \in InPhase(w, "batched"), NEW a, a = AttemptOf(h)
      PROVE  Honest(a)'
  <2>1. h \in Handlers /\ hs[h].pc = "batched"
    BY Zenon DEF InPhase
  <2>2. hs[h].attempt \in Nat /\ ClaimOK(h)
    BY Zenon, <2>1, ClaimFields DEF TypeOK, ClaimsConsistent
  <2>3. a.task = hs[h].task /\ a.number = hs[h].attempt + 1 /\ a.status = hs[h].status
    BY Zenon, <1>2 DEF AttemptOf
  <2>4. LET i == hs[h].task IN
        /\ row[i].st # "unborn" /\ row[i].kind = "deliver"
        /\ hs[h].status = "succeeded" => i \in acked
        /\ hs[h].status = "failed" => row[i].trig = "manual" \/ Exhausted(hs[h].attempt)
        /\ hs[h].status = "pending_retry" => row[i].trig = "scheduled" /\ ~Exhausted(hs[h].attempt)
    BY Zenon, <2>1, <2>2 DEF ClaimOK, DeliverPhase, OutcomePhase
  <2>5. Honest(a)
    BY <2>2, <2>3, <2>4, DeliveryAssumption DEF Honest, Exhausted
  <2>. QED
    BY Zenon, <1>2, <2>5 DEF Honest
<1>. QED
  BY Zenon, <1>1, <1>2, LogCases

\* The steps that count an attempt: the breaker's and the writer's, each on
\* behalf of a claim that saw attempts left.
LEMMA CountCases ==
  ASSUME TypeOK, [Next]_vars, ClaimsConsistent, NEW i \in TaskIds
  PROVE  \/ row'[i].attempt = row[i].attempt \/ row'[i].attempt = 0
         \/ \E h \in Handlers : /\ hs[h].pc # "idle" /\ hs[h].task = i /\ UNCHANGED lapse
                                /\ ~Exhausted(hs[h].attempt)
                                /\ row'[i].attempt = row[i].attempt + 1
<1>a. row \in [TaskIds -> Row] /\ hs \in [Handlers -> Handler \cup {NoClaim}]
  BY Zenon DEF TypeOK
<1>1. CASE UNCHANGED row
  BY Zenon, <1>1
<1>2. ASSUME NEW h \in Handlers, DeferTask(h) \/ DeferForSaturation(h)
      PROVE  row'[i].attempt = row[i].attempt
  <2>1. hs[h].task \in TaskIds /\ Defer(hs[h].task)
    BY Zenon, <1>a, <1>2, ClaimFields DEF DeferTask, DeferForSaturation
  <2>2. Defers(hs[h].task)
    BY Zenon, <1>a, <2>1, DeferEffect
  <2>. QED
    BY Zenon, <2>2 DEF Defers
<1>3. ASSUME NEW h \in Handlers, FanoutDrop(h) \/ DeliverDrop(h)
      PROVE  row'[i].attempt = row[i].attempt
  <2>1. Complete({hs[h].task})
    BY Zenon, <1>3 DEF FanoutDrop, DeliverDrop, Drop
  <2>2. Completes({hs[h].task})
    BY Zenon, <1>a, <2>1, CompleteEffect
  <2>. QED
    BY Zenon, <2>2 DEF Completes
<1>4. ASSUME NEW h \in Handlers, RequeueForBreaker(h) \/ FinalizeRetry(h)
      PROVE  \/ row'[i].attempt = row[i].attempt
             \/ /\ hs[h].pc # "idle" /\ hs[h].task = i /\ UNCHANGED lapse
                /\ ~Exhausted(hs[h].attempt) /\ row'[i].attempt = row[i].attempt + 1
  <2>1. hs[h].pc # "idle" /\ UNCHANGED lapse
    BY Zenon, <1>4 DEF RequeueForBreaker, FinalizeRetry, Delivering
  <2>2. hs[h].task \in TaskIds /\ ClaimOK(h)
    BY Zenon, <1>a, <2>1, ClaimFields DEF ClaimsConsistent
  <2>3. \/ UNCHANGED row \/ Complete({hs[h].task})
        \/ Retry(hs[h].task) /\ ~Exhausted(hs[h].attempt)
    BY Zenon, <1>4, <2>2 DEF RequeueForBreaker, FinalizeRetry, Drop, ClaimOK, OutcomePhase
  <2>4. \/ UNCHANGED row \/ Completes({hs[h].task})
        \/ Retries(hs[h].task) /\ ~Exhausted(hs[h].attempt)
    BY Zenon, <1>a, <2>2, <2>3, CompleteEffect, RetryEffect
  <2>. QED
    BY Zenon, <2>1, <2>4 DEF Completes, Retries
<1>b. \A k, t, m, e : NewRow(k, t, m, e).attempt = 0
  BY Zenon DEF NewRow
<1>5. ASSUME NEW h \in Handlers, NEW F, NEW g, Expands(h, F, g)
      PROVE  row'[i].attempt = row[i].attempt \/ row'[i].attempt = 0
  <2>1. \/ row'[i] = row[i] \/ row'[i] = Deleted(row[i])
        \/ \E k, t, m, e : row'[i] = NewRow(k, t, m, e)
    BY <1>5 DEF Expands
  <2>2. row[i] \in Row
    BY Zenon, <1>a
  <2>3. Deleted(row[i]).attempt = row[i].attempt
    BY Zenon, <2>2, DeletedRow
  <2>. QED
    BY Zenon, <1>b, <2>1, <2>3
<1>6. ASSUME NEW w \in Workers, NEW S, NEW H, Takes(w, S, H)
      PROVE  row'[i].attempt = row[i].attempt
  BY Zenon, <1>6 DEF Takes
<1>7. ASSUME NEW w \in Workers, ReleaseBatch(w) \/ FinalizeComplete(w)
      PROVE  row'[i].attempt = row[i].attempt
  <2>1. UNCHANGED row \/ Releases(batch[w]) \/ \E T : Completes(T)
    BY Zenon, <1>7, BatchEffect
  <2>. QED
    BY Zenon, <2>1 DEF Releases, Completes
<1>8. ASSUME NEW j \in TaskIds, BecomeVisible(j) \/ Expire(j)
      PROVE  row'[i].attempt = row[i].attempt
  BY <1>8, <1>a DEF BecomeVisible, Expire, Row
<1>9. ASSUME RescueStuck PROVE row'[i].attempt = row[i].attempt
  <2>1. row'[i] = row[i] \/ row'[i] = Unlocked(row[i])
    BY Zenon, <1>9 DEF RescueStuck
  <2>2. row[i] \in Row
    BY Zenon, <1>a
  <2>3. Unlocked(row[i]).attempt = row[i].attempt
    BY Zenon, <2>2, UnlockedRow
  <2>. QED
    BY Zenon, <2>1, <2>3
<1>10. ASSUME NEW j, NEW r, Adds(j, r), r.attempt = 0
       PROVE  row'[i].attempt = row[i].attempt \/ row'[i].attempt = 0
  BY Zenon, <1>10 DEF Adds
<1>11. ASSUME NEW m \in Msgs, Ingest(m) \/ \E e \in Endpoints : Resend(m, e)
       PROVE  row'[i].attempt = row[i].attempt \/ row'[i].attempt = 0
  BY <1>b, <1>10, <1>11, BirthEffect
<1>. QED
  BY Zenon, <1>1, <1>2, <1>3, <1>4, <1>5, <1>6, <1>7, <1>8, <1>9, <1>11,
     RowCases, ExpandEffect, ClaimEffect

LEMMA ScheduleStep ==
  ASSUME TypeOK, TypeOK', Advances, [Next]_vars, ClaimsConsistent, ExclusiveClaim,
         HonestLog, AttemptsWithinSchedule
  PROVE  AttemptsWithinSchedule'
<1>. SUFFICES ASSUME NEW i \in TaskIds, lapse'[i] = "none"
              PROVE  /\ row'[i].attempt <= ScheduleLen
                     /\ \A a \in attempts' : a.task = i => a.number <= ScheduleLen + 1
  BY Zenon DEF AttemptsWithinSchedule
<1>a. row[i].attempt \in Nat /\ row'[i].attempt \in Nat /\ ScheduleLen \in Nat
  BY Zenon, Attempts, DeliveryAssumption DEF TypeOK
<1>b. lapse[i] = "none" /\ row[i].attempt <= ScheduleLen
  BY Zenon DEF Advances, AttemptsWithinSchedule
<1>1. row'[i].attempt <= ScheduleLen
  <2>1. CASE row'[i].attempt = row[i].attempt
    BY Zenon, <2>1, <1>a, <1>b
  <2>2. ASSUME NEW h \in Handlers, hs[h].pc # "idle", hs[h].task = i,
               ~Exhausted(hs[h].attempt), row'[i].attempt = row[i].attempt + 1
        PROVE  row'[i].attempt <= ScheduleLen
    <3>1. hs[h].attempt = row[i].attempt
      BY Zenon, <1>b, <2>2 DEF ExclusiveClaim, Exclusive, Holders
    <3>. QED
      BY <1>a, <2>2, <3>1 DEF Exhausted
  <2>3. CASE row'[i].attempt = 0
    BY <1>a, <2>3
  <2>. QED
    BY Zenon, <2>1, <2>2, <2>3, CountCases
<1>2. ASSUME NEW w \in Workers, UNCHANGED <<row, lapse, acked>>,
             NEW h \in InPhase(w, "batched"), NEW a, a = AttemptOf(h), a.task = i
      PROVE  a.number <= ScheduleLen + 1
  <2>1. h \in Handlers /\ hs[h].pc = "batched"
    BY Zenon DEF InPhase
  <2>2. hs[h].attempt \in Nat /\ ClaimOK(h)
    BY Zenon, <2>1, ClaimFields DEF TypeOK, ClaimsConsistent
  <2>3. a.task = hs[h].task /\ a.number = hs[h].attempt + 1
    BY Zenon, <1>2 DEF AttemptOf
  <2>4. hs[h].attempt <= row[i].attempt
    BY Zenon, <1>2, <2>1, <2>2, <2>3 DEF ClaimOK
  <2>. QED
    BY <1>a, <1>b, <2>2, <2>3, <2>4
<1>3. \A a \in attempts : a.task = i => a.number <= ScheduleLen + 1
  BY Zenon, <1>b DEF AttemptsWithinSchedule
<1>. QED
  BY Zenon, <1>1, <1>2, <1>3, LogCases

-----------------------------------------------------------------------------
(* The theorems *)

\* The inductive invariant.  ClaimsConsistent is what a stale claim may still
\* be trusted with; the others are the properties themselves.
Inv == /\ TypeOK /\ ClaimsConsistent /\ ExclusiveClaim /\ NoSilentLoss
       /\ HonestLog /\ FanoutOnce /\ AttemptsWithinSchedule

LEMMA InvInit == Init => Inv
<1>. SUFFICES ASSUME Init PROVE Inv
  OBVIOUS
<1>1. TypeOK
  BY Zenon, InitType
<1>2. /\ \A i \in TaskIds : /\ row[i].st = "unborn" /\ row[i].kind = "fanout"
                            /\ row[i].trig = "scheduled" /\ row[i].lockedBy = None
                            /\ row[i].expired = FALSE /\ row[i].attempt = 0
      /\ \A h \in Handlers : hs[h].pc = "idle"
      /\ attempts = {}
  BY Zenon DEF Init, NoRow, NoClaim
<1>3. ClaimsConsistent
  BY Zenon, <1>2 DEF ClaimsConsistent, RowOK, ClaimOK, OneFanout
<1>4. ExclusiveClaim
  BY Zenon, <1>2 DEF ExclusiveClaim, Exclusive, Holders
<1>5. NoSilentLoss /\ HonestLog /\ FanoutOnce
  BY Zenon, <1>2 DEF NoSilentLoss, HonestLog, FanoutOnce
<1>6. AttemptsWithinSchedule
  BY <1>2, DeliveryAssumption DEF AttemptsWithinSchedule
<1>. QED
  BY Zenon, <1>1, <1>3, <1>4, <1>5, <1>6 DEF Inv

LEMMA InvStep == Inv /\ [Next]_vars => Inv'
<1>. SUFFICES ASSUME Inv, [Next]_vars PROVE Inv'
  OBVIOUS
<1>1. /\ TypeOK /\ ClaimsConsistent /\ ExclusiveClaim /\ NoSilentLoss
      /\ HonestLog /\ FanoutOnce /\ AttemptsWithinSchedule
  BY Zenon DEF Inv
<1>2. TypeOK' /\ Advances
  BY Zenon, <1>1, StepFacts
<1>3. ClaimsConsistent'
  <2>1. \A i \in TaskIds : RowOK(i)'
    BY Zenon, <1>1, <1>2, RowsStep
  <2>2. \A h \in Handlers : ClaimOK(h)'
    BY Zenon, <1>1, <1>2, ClaimsStep
  <2>3. OneFanout'
    BY Zenon, <1>1, <1>2, OneFanoutStep
  <2>. QED
    BY Zenon, <2>1, <2>2, <2>3 DEF ClaimsConsistent
<1>4. ExclusiveClaim'
  BY Zenon, <1>1, <1>2, ExclusiveStep
<1>5. NoSilentLoss' /\ HonestLog'
  BY Zenon, <1>1, <1>2, LossStep, LogStep
<1>6. FanoutOnce'
  BY Zenon, <1>1, <1>2, <1>3, FanoutStep
<1>7. AttemptsWithinSchedule'
  BY Zenon, <1>1, <1>2, ScheduleStep
<1>. QED
  BY Zenon, <1>2, <1>3, <1>4, <1>5, <1>6, <1>7 DEF Inv

LEMMA Invariance == Spec => []Inv
BY InvInit, InvStep, PTL DEF Spec

\* What stale claims may still be trusted with, always (Engine.recordAttempt
\* and AttemptWriter.flush).
THEOREM ClaimsStayConsistent == Spec => []ClaimsConsistent
<1>1. Inv => ClaimsConsistent
  BY Zenon DEF Inv
<1>. QED
  BY <1>1, Invariance, PTL

\* Until a lock lapses under a handler, a row has one claimant in all workers
\* together, whatever the number of workers and tasks (QueueRepo.Claim).
THEOREM ClaimsAreExclusive == Spec => []ExclusiveClaim
<1>1. Inv => ExclusiveClaim
  BY Zenon DEF Inv
<1>. QED
  BY <1>1, Invariance, PTL

\* No queue row disappears before its outcome is durable, however many crashes,
\* expired locks, stale handlers and failed writes there are (AttemptWriter.flush,
\* Engine.handleFanout, Engine.handleDeliver).
THEOREM NothingIsLost == Spec => []NoSilentLoss
<1>1. Inv => NoSilentLoss
  BY Zenon DEF Inv
<1>. QED
  BY <1>1, Invariance, PTL

\* Every attempt in the log is true: see HonestLog (Engine.recordAttempt).
THEOREM TheLogIsHonest == Spec => []HonestLog
<1>1. Inv => HonestLog
  BY Zenon DEF Inv
<1>. QED
  BY <1>1, Invariance, PTL

\* A fan-out row whose lock never lapsed is expanded at most once (the
\* transaction of Engine.handleFanout).
THEOREM FanoutHappensOnce == Spec => []FanoutOnce
<1>1. Inv => FanoutOnce
  BY Zenon DEF Inv
<1>. QED
  BY <1>1, Invariance, PTL

\* A row whose lock never lapsed gets at most len(schedule) + 1 attempts, and no
\* retry is counted beyond the schedule (QueueRepo.Retry, retry.Policy.Exhausted).
THEOREM ScheduleIsKept == Spec => []AttemptsWithinSchedule
<1>1. Inv => AttemptsWithinSchedule
  BY Zenon DEF Inv
<1>. QED
  BY <1>1, Invariance, PTL

-----------------------------------------------------------------------------
(* Delivery implements DeliveryContract *)

\* Every accepted message has had a fan-out row, and only a row that is gone was
\* dropped.
Filed ==
  /\ \A m \in accepted : \E f \in TaskIds :
       row[f].st # "unborn" /\ row[f].kind = "fanout" /\ row[f].msg = m
  /\ \A i \in TaskIds : dropped[i] # "none" => row[i].st = "gone"

\* The step writes why it drops a row, or leaves the reasons alone.
LEMMA DropCases ==
  [Next]_vars =>
    \/ UNCHANGED dropped
    \/ \E h \in Handlers : FanoutDrop(h) \/ DeliverDrop(h) \/ RequeueForBreaker(h) \/ FanoutExpand(h)
<1>1. \A h \in Handlers :
        (\/ Start(h) \/ KeepLock(h) \/ DeferTask(h) \/ WaitForLane(h) \/ LaneAcquired(h)
         \/ DeferForSaturation(h) \/ Send(h) \/ (\E ok \in BOOLEAN : Respond(h, ok))
         \/ EnqueueRecord(h) \/ EnqueueTimesOut(h) \/ Collect(h) \/ FinalizeRetry(h)) => UNCHANGED dropped
  BY Zenon DEF Start, KeepLock, DeferTask, WaitForLane, LaneAcquired, DeferForSaturation, Send, Respond,
         EnqueueRecord, EnqueueTimesOut, Collect, FinalizeRetry
<1>2. \A w \in Workers :
        (\/ Claim(w) \/ ClaimLost(w) \/ ReleaseBatch(w) \/ Flush(w) \/ FinalizeComplete(w)
         \/ Shutdown(w) \/ Stopped(w) \/ Crash(w) \/ Restart(w)) => UNCHANGED dropped
  BY Zenon DEF Claim, ClaimLost, ReleaseBatch, Flush, FinalizeComplete, Shutdown, Stopped, Crash, Restart
<1>3. /\ \A m \in Msgs : Ingest(m) \/ AgeOut(m) => UNCHANGED dropped
      /\ \A m \in Msgs, e \in Endpoints : Resend(m, e) => UNCHANGED dropped
      /\ \A e \in Endpoints : Deactivate(e) => UNCHANGED dropped
      /\ \A i \in TaskIds : BecomeVisible(i) \/ Expire(i) => UNCHANGED dropped
      /\ RescueStuck \/ UNCHANGED vars => UNCHANGED dropped
  BY Zenon DEF Ingest, AgeOut, Resend, Deactivate, BecomeVisible, Expire, RescueStuck, vars
<1>. QED
  BY Zenon, <1>1, <1>2, <1>3 DEF Next, HandlerStep, WorkerStep, QueueStep, Environment

\* Only ingest accepts a message.
LEMMA AcceptCases ==
  [Next]_vars => UNCHANGED accepted \/ \E m \in Msgs : Ingest(m)
<1>1. \A h \in Handlers : HandlerStep(h) => UNCHANGED accepted
  BY Zenon DEF HandlerStep, Start, KeepLock, DeferTask, FanoutDrop, FanoutExpand, WaitForLane, LaneAcquired,
         DeferForSaturation, DeliverDrop, RequeueForBreaker, Send, Respond,
         EnqueueRecord, EnqueueTimesOut, Collect, FinalizeRetry
<1>2. \A w \in Workers : WorkerStep(w) => UNCHANGED accepted
  BY Zenon DEF WorkerStep, Claim, ClaimLost, ReleaseBatch, Flush, FinalizeComplete, Shutdown, Stopped, Crash, Restart
<1>3. /\ \A m \in Msgs : AgeOut(m) => UNCHANGED accepted
      /\ \A m \in Msgs, e \in Endpoints : Resend(m, e) => UNCHANGED accepted
      /\ \A e \in Endpoints : Deactivate(e) => UNCHANGED accepted
      /\ \A i \in TaskIds : QueueStep(i) => UNCHANGED accepted
      /\ RescueStuck \/ UNCHANGED vars => UNCHANGED accepted
  BY Zenon DEF AgeOut, Resend, Deactivate, QueueStep, BecomeVisible, Expire, RescueStuck, vars
<1>. QED
  BY Zenon, <1>1, <1>2, <1>3 DEF Next, Environment

LEMMA FiledStep ==
  ASSUME TypeOK, Advances, [Next]_vars, Filed
  PROVE  Filed'
<1>a. row \in [TaskIds -> Row] /\ dropped \in [TaskIds -> DropReason \cup {"none"}]
      /\ hs \in [Handlers -> Handler \cup {NoClaim}]
  BY Zenon DEF TypeOK
<1>b. \A i \in TaskIds : /\ row[i].st # "unborn" => row'[i].st # "unborn" /\ SameTask(row[i], row'[i])
                         /\ row[i].st = "gone" => row'[i] = row[i]
  BY Zenon DEF Advances
<1>1. ASSUME NEW m \in accepted'
      PROVE  \E f \in TaskIds : row'[f].st # "unborn" /\ row'[f].kind = "fanout" /\ row'[f].msg = m
  <2>1. CASE m \in accepted
    <3>1. PICK f \in TaskIds : row[f].st # "unborn" /\ row[f].kind = "fanout" /\ row[f].msg = m
      BY Zenon, <2>1 DEF Filed
    <3>. QED
      BY Zenon, <1>b, <3>1 DEF SameTask
  <2>2. CASE m \notin accepted
    <3>1. PICK k \in Msgs : Ingest(k)
      BY Zenon, <1>1, <2>2, AcceptCases
    <3>2. m = k
      BY Zenon, <1>1, <2>2, <3>1 DEF Ingest
    <3>3. PICK i : Adds(i, NewRow("fanout", "scheduled", k, None))
      BY Zenon, <3>1, BirthEffect
    <3>4. i \in TaskIds /\ row'[i] = NewRow("fanout", "scheduled", k, None)
      BY Zenon, <3>3 DEF Adds
    <3>5. row'[i].st = "live" /\ row'[i].kind = "fanout" /\ row'[i].msg = m
      BY <3>2, <3>4 DEF NewRow
    <3>. QED
      BY Zenon, <3>4, <3>5
  <2>. QED
    BY Zenon, <2>1, <2>2
<1>2. ASSUME NEW i \in TaskIds, dropped'[i] # "none" PROVE row'[i].st = "gone"
  <2>1. CASE dropped'[i] = dropped[i]
    BY Zenon, <1>b, <1>2, <2>1 DEF Filed
  <2>2. ASSUME NEW h \in Handlers, FanoutDrop(h) \/ DeliverDrop(h) \/ RequeueForBreaker(h),
               dropped'[i] # dropped[i]
        PROVE  row'[i].st = "gone"
    <3>1. PICK reason : Drop(h, reason)
      BY Zenon, <2>2 DEF FanoutDrop, DeliverDrop, RequeueForBreaker
    <3>2. Completes({hs[h].task})
      BY Zenon, <1>a, <3>1, CompleteEffect DEF Drop
    <3>3. i = hs[h].task /\ Live(i)
      BY Zenon, <1>a, <2>2, <3>1 DEF Drop
    <3>. QED
      BY Zenon, <3>2, <3>3 DEF Completes
  <2>3. ASSUME NEW h \in Handlers, FanoutExpand(h), dropped'[i] # dropped[i] PROVE row'[i].st = "gone"
    <3>1. PICK F, g : Expands(h, F, g)
      BY Zenon, <2>3, ExpandEffect
    <3>2. i = hs[h].task /\ Live(i)
      BY Zenon, <1>a, <2>3, <3>1 DEF Expands
    <3>3. row'[i] = Deleted(row[i])
      BY Zenon, <3>1, <3>2 DEF Expands, Live
    <3>. QED
      <4>1. row[i] \in Row
        BY <1>a
      <4>2. Deleted(row[i]).st = "gone"
        BY Zenon, <4>1, DeletedRow
      <4>. QED
        BY Zenon, <3>3, <4>2
  <2>. QED
    BY Zenon, <2>1, <2>2, <2>3, DropCases
<1>. QED
  BY Zenon, <1>1, <1>2 DEF Filed

\* The pairs, one by one.
SettledBy(m, e) ==
  \/ m \notin stored \/ m \in Unsendable \/ e \in deactivated
  \/ \E a \in attempts :
       /\ IsFor(a.task, <<m, e>>)
       /\ a.status = "succeeded" \/ (a.status = "failed" /\ row[a.task].trig = "scheduled")
  \/ \E i \in TaskIds : /\ IsFor(i, <<m, e>>) /\ row[i].trig = "scheduled"
                        /\ dropped[i] = "breaker_exhausted"
QueuedBy(m, e) == \E i \in TaskIds :
  Live(i) /\ row[i].msg = m /\ (row[i].kind = "fanout" \/ row[i].ep = e)

PairWise ==
  /\ Owed \subseteq Msgs \X Endpoints /\ SettledPairs \subseteq Owed /\ QueuedPairs \subseteq Owed
  /\ \A m \in Msgs, e \in Endpoints :
       /\ <<m, e>> \in Owed <=> m \in accepted /\ e \in Subscribed[m]
       /\ <<m, e>> \in SettledPairs <=> <<m, e>> \in Owed /\ SettledBy(m, e)
       /\ <<m, e>> \in QueuedPairs <=> <<m, e>> \in Owed /\ QueuedBy(m, e)

LEMMA PairFacts == PairWise
<1>1. Owed \subseteq Msgs \X Endpoints /\ SettledPairs \subseteq Owed /\ QueuedPairs \subseteq Owed
  BY DEF Owed, SettledPairs, QueuedPairs
<1>2. ASSUME NEW m \in Msgs, NEW e \in Endpoints
      PROVE  /\ <<m, e>> \in Owed <=> m \in accepted /\ e \in Subscribed[m]
             /\ <<m, e>> \in SettledPairs <=> <<m, e>> \in Owed /\ SettledBy(m, e)
             /\ <<m, e>> \in QueuedPairs <=> <<m, e>> \in Owed /\ QueuedBy(m, e)
  <2>1. <<m, e>> \in Owed <=> m \in accepted /\ e \in Subscribed[m]
    BY DEF Owed
  <2>2. <<m, e>> \in SettledPairs <=> <<m, e>> \in Owed /\ SettledBy(m, e)
    BY DEF SettledPairs, SettledBy
  <2>3. <<m, e>> \in QueuedPairs <=> <<m, e>> \in Owed /\ QueuedBy(m, e)
    BY DEF QueuedPairs, QueuedBy
  <2>. QED
    BY <2>1, <2>2, <2>3
<1>. QED
  BY <1>1, <1>2 DEF PairWise

LEMMA PairFactsNext == PairWise'
BY PairFacts, PTL

\* What was owed is settled or still queued.
Kept == Owed \subseteq SettledPairs \cup QueuedPairs

\* A scheduled deliver row stands for its pair until the pair is settled.
LEMMA RowStandsForPair ==
  ASSUME NoSilentLoss, TypeOK, NEW j \in TaskIds, row[j].st # "unborn", row[j].kind = "deliver",
         row[j].trig = "scheduled"
  PROVE  Live(j) \/ SettledBy(row[j].msg, row[j].ep)
<1>0. SUFFICES ASSUME row[j].st = "gone" PROVE SettledBy(row[j].msg, row[j].ep)
  BY DEF TypeOK, Row, RowState, Live
<1>1. IsFor(j, <<row[j].msg, row[j].ep>>)
  BY DEF IsFor
<1>2. CASE \E a \in attempts : a.task = j /\ a.status \in Terminal
  BY <1>1, <1>2 DEF SettledBy, Terminal
<1>3. CASE Excused(j)
  BY <1>1, <1>3 DEF Excused, SettledBy
<1>. QED
  BY <1>0, <1>2, <1>3 DEF NoSilentLoss

LEMMA NothingIsForgotten == Inv /\ Filed => Kept
<1>. SUFFICES ASSUME Inv, Filed, NEW m \in Msgs, NEW e \in Endpoints, <<m, e>> \in Owed
              PROVE  SettledBy(m, e) \/ QueuedBy(m, e)
  <2>1. \A p \in Owed : p = <<p[1], p[2]>> /\ p[1] \in Msgs /\ p[2] \in Endpoints
    BY PairFacts DEF PairWise
  <2>. QED
    BY <2>1, PairFacts DEF Kept, PairWise
<1>a. TypeOK /\ NoSilentLoss /\ HonestLog
  BY DEF Inv
<1>b. m \in accepted /\ e \in Subscribed[m]
  BY PairFacts DEF PairWise
<1>1. PICK f \in TaskIds : row[f].st # "unborn" /\ row[f].kind = "fanout" /\ row[f].msg = m
  BY <1>b DEF Filed
<1>2. CASE Live(f)
  BY <1>1, <1>2 DEF QueuedBy
<1>3. CASE row[f].st = "gone"
  <2>1. ~\E a \in attempts : a.task = f
    BY <1>a, <1>1 DEF HonestLog
  <2>2. Excused(f)
    BY <1>a, <1>3, <2>1 DEF NoSilentLoss
  <2>3. CASE m \notin stored \/ e \in deactivated
    BY <2>3 DEF SettledBy
  <2>4. CASE ~(m \notin stored \/ e \in deactivated)
    <3>1. PICK j \in TaskIds : /\ row[j].st # "unborn" /\ row[j].kind = "deliver"
                               /\ row[j].trig = "scheduled" /\ row[j].msg = m /\ row[j].ep = e
      BY <1>1, <1>b, <2>2, <2>4 DEF Excused
    <3>2. Live(j) \/ SettledBy(m, e)
      BY <1>a, <3>1, RowStandsForPair
    <3>. QED
      BY <3>1, <3>2 DEF QueuedBy
  <2>. QED
    BY <2>3, <2>4
<1>. QED
  BY <1>a, <1>1, <1>2, <1>3 DEF TypeOK, Row, RowState, Live

\* A settled pair stays settled.
LEMMA SettledStays ==
  ASSUME TypeOK, HonestLog, Filed, Advances, NEW m \in accepted, NEW e \in Endpoints, SettledBy(m, e)
  PROVE  SettledBy(m, e)'
<1>1. /\ stored' \cap accepted \subseteq stored /\ deactivated \subseteq deactivated'
      /\ attempts \subseteq attempts' /\ attempts \subseteq Attempt
  BY Zenon DEF Advances, TypeOK
<1>2. \A i \in TaskIds : row[i].st # "unborn" => SameTask(row[i], row'[i])
  BY Zenon DEF Advances
<1>3. CASE m \notin stored \/ m \in Unsendable \/ e \in deactivated
  BY <1>1, <1>3 DEF SettledBy
<1>4. ASSUME NEW a \in attempts, IsFor(a.task, <<m, e>>),
             a.status = "succeeded" \/ (a.status = "failed" /\ row[a.task].trig = "scheduled")
      PROVE  SettledBy(m, e)'
  <2>1. a.task \in TaskIds /\ row[a.task].st # "unborn" /\ a \in attempts'
    BY <1>1 DEF HonestLog, Attempt
  <2>2. SameTask(row[a.task], row'[a.task])
    BY <1>2, <2>1
  <2>. QED
    BY <1>4, <2>1, <2>2 DEF SettledBy, IsFor, SameTask
<1>5. ASSUME NEW i \in TaskIds, IsFor(i, <<m, e>>), row[i].trig = "scheduled",
             dropped[i] = "breaker_exhausted"
      PROVE  SettledBy(m, e)'
  <2>1. row'[i] = row[i] /\ dropped'[i] = dropped[i]
    BY <1>5 DEF Filed, Advances
  <2>. QED
    BY <1>5, <2>1 DEF SettledBy, IsFor
<1>. QED
  BY <1>3, <1>4, <1>5 DEF SettledBy

\* A step that only adds rows settles nothing.
LEMMA SettledNoMore ==
  ASSUME TypeOK, HonestLog, Filed, Advances, UNCHANGED <<attempts, deactivated, dropped>>,
         NEW m \in Msgs, NEW e \in Endpoints, m \in stored => m \in stored', SettledBy(m, e)'
  PROVE  SettledBy(m, e)
<1>1. attempts \subseteq Attempt /\ \A i \in TaskIds : row[i].st # "unborn" => SameTask(row[i], row'[i])
  BY Zenon DEF Advances, TypeOK
<1>3. CASE m \notin stored' \/ m \in Unsendable \/ e \in deactivated'
  BY <1>3 DEF SettledBy
<1>4. ASSUME NEW a \in attempts', IsFor(a.task, <<m, e>>)',
             a.status = "succeeded" \/ (a.status = "failed" /\ row'[a.task].trig = "scheduled")
      PROVE  SettledBy(m, e)
  <2>1. a \in attempts /\ a.task \in TaskIds /\ row[a.task].st # "unborn"
    BY <1>1 DEF HonestLog, Attempt
  <2>2. SameTask(row[a.task], row'[a.task])
    BY <1>1, <2>1
  <2>. QED
    BY <1>4, <2>1, <2>2 DEF SettledBy, IsFor, SameTask
<1>5. ASSUME NEW i \in TaskIds, IsFor(i, <<m, e>>)', row'[i].trig = "scheduled",
             dropped'[i] = "breaker_exhausted"
      PROVE  SettledBy(m, e)
  <2>1. dropped[i] = "breaker_exhausted" /\ row'[i] = row[i]
    BY <1>5 DEF Filed, Advances
  <2>. QED
    BY <1>5, <2>1 DEF SettledBy, IsFor
<1>. QED
  BY <1>3, <1>4, <1>5 DEF SettledBy

LEMMA OwedStays ==
  ASSUME UNCHANGED accepted PROVE Owed' = Owed
BY DEF Owed

\* A step after which no more is queued only settles.
LEMMA SettleStep ==
  ASSUME TypeOK, HonestLog, Filed, Advances, Kept', UNCHANGED accepted,
         \A m \in Msgs, e \in Endpoints : QueuedBy(m, e)' => QueuedBy(m, e)
  PROVE  Contract!Settle
<1>1. Owed' = Owed
  BY OwedStays
<1>p. \A p \in Owed : p = <<p[1], p[2]>> /\ p[1] \in Msgs /\ p[2] \in Endpoints /\ p[1] \in accepted
  BY PairFacts DEF PairWise
<1>2. SettledPairs \subseteq SettledPairs'
  BY <1>1, <1>p, SettledStays, PairFacts, PairFactsNext DEF PairWise
<1>3. SettledPairs' \subseteq Owed /\ QueuedPairs' \subseteq Owed
  BY <1>1, PairFactsNext DEF PairWise
<1>4. QueuedPairs' \subseteq QueuedPairs
  BY <1>1, <1>3, <1>p, PairFacts, PairFactsNext DEF PairWise
<1>5. QueuedPairs \ QueuedPairs' \subseteq SettledPairs'
  BY <1>1, PairFacts DEF PairWise, Kept
<1>. QED
  BY <1>1, <1>2, <1>3, <1>4, <1>5 DEF Contract!Settle

\* A step that only adds deliver rows puts pairs back.
LEMMA RequeueStep ==
  ASSUME TypeOK, HonestLog, Filed, Advances,
         UNCHANGED <<accepted, stored, attempts, deactivated, dropped>>,
         \A m \in Msgs, e \in Endpoints : QueuedBy(m, e) => QueuedBy(m, e)'
  PROVE  Contract!Requeue
<1>1. Owed' = Owed
  BY OwedStays
<1>p. \A p \in Owed : p = <<p[1], p[2]>> /\ p[1] \in Msgs /\ p[2] \in Endpoints /\ p[1] \in accepted
  BY PairFacts DEF PairWise
<1>2. SettledPairs \subseteq SettledPairs'
  BY <1>1, <1>p, SettledStays, PairFacts, PairFactsNext DEF PairWise
<1>3. SettledPairs' \subseteq SettledPairs
  BY <1>1, <1>p, SettledNoMore, PairFacts, PairFactsNext DEF PairWise
<1>4. QueuedPairs' \subseteq Owed
  BY <1>1, PairFactsNext DEF PairWise
<1>5. QueuedPairs \subseteq QueuedPairs'
  BY <1>1, <1>p, PairFacts, PairFactsNext DEF PairWise
<1>. QED
  BY <1>1, <1>2, <1>3, <1>4, <1>5 DEF Contract!Requeue

LEMMA AcceptStep ==
  ASSUME TypeOK, HonestLog, Filed, Advances, NEW k \in Msgs, Ingest(k),
         NEW i \in TaskIds, Adds(i, NewRow("fanout", "scheduled", k, None))
  PROVE  Contract!Accept(k, Subscribed[k])
<1>1. /\ k \notin accepted /\ accepted' = accepted \cup {k} /\ stored' = stored \cup {k}
      /\ UNCHANGED <<attempts, deactivated, dropped>>
  BY DEF Ingest
<1>2. /\ row[i].st = "unborn" /\ row'[i].st = "live" /\ row'[i].kind = "fanout" /\ row'[i].msg = k
      /\ \A j \in TaskIds : j # i => row'[j] = row[j]
  BY DEF Adds, NewRow
<1>s. Subscribed[k] \subseteq Endpoints
  BY DeliveryAssumption
<1>p. /\ \A p \in Owed : p = <<p[1], p[2]>> /\ p[1] \in Msgs /\ p[2] \in Endpoints
      /\ \A p \in Owed' : p = <<p[1], p[2]>> /\ p[1] \in Msgs /\ p[2] \in Endpoints
  BY PairFacts, PairFactsNext DEF PairWise
<1>3. \A m \in Msgs, e \in Endpoints :
        /\ <<m, e>> \in Owed' <=> <<m, e>> \in Owed \/ (m = k /\ e \in Subscribed[k])
        /\ <<m, e>> \in Owed => m # k
  BY <1>1, PairFacts, PairFactsNext, Zenon DEF PairWise
<1>4. (\A p \in Owed : p[1] # k) /\ Owed' = Owed \cup ({k} \X Subscribed[k])
  BY <1>3, <1>p, <1>s
<1>5. \A m \in Msgs, e \in Endpoints :
        <<m, e>> \in QueuedPairs' <=> <<m, e>> \in QueuedPairs \/ (m = k /\ e \in Subscribed[k])
  <2>1. \A e \in Endpoints : QueuedBy(k, e)'
    BY <1>2 DEF QueuedBy, Live
  <2>2. \A m \in Msgs \ {k}, e \in Endpoints : QueuedBy(m, e)' <=> QueuedBy(m, e)
    BY <1>2 DEF QueuedBy, Live
  <2>. QED
    BY <1>3, <2>1, <2>2, PairFacts, PairFactsNext, Zenon DEF PairWise
<1>6. QueuedPairs' = QueuedPairs \cup ({k} \X Subscribed[k])
  <2>1. QueuedPairs \subseteq Owed /\ QueuedPairs' \subseteq Owed'
    BY PairFacts, PairFactsNext DEF PairWise
  <2>. QED
    BY <1>5, <1>p, <1>s, <2>1
<1>7. SettledPairs \subseteq SettledPairs'
  <2>1. ASSUME NEW m \in Msgs, NEW e \in Endpoints, <<m, e>> \in SettledPairs
        PROVE  <<m, e>> \in SettledPairs'
    <3>1. m \in accepted /\ SettledBy(m, e) /\ <<m, e>> \in Owed
      BY <2>1, PairFacts DEF PairWise
    <3>2. SettledBy(m, e)'
      BY <3>1, SettledStays
    <3>. QED
      BY <1>3, <3>1, <3>2, PairFactsNext DEF PairWise
  <2>2. SettledPairs \subseteq Owed
    BY PairFacts DEF PairWise
  <2>. QED
    BY <1>p, <2>1, <2>2
<1>8. SettledPairs' \subseteq SettledPairs \cup ({k} \X Subscribed[k])
  <2>1. ASSUME NEW m \in Msgs, NEW e \in Endpoints, <<m, e>> \in SettledPairs', <<m, e>> \in Owed
        PROVE  <<m, e>> \in SettledPairs
    <3>1. SettledBy(m, e)'
      BY <2>1, PairFactsNext DEF PairWise
    <3>2. SettledBy(m, e)
      BY <1>1, <3>1, SettledNoMore
    <3>. QED
      BY <2>1, <3>2, PairFacts DEF PairWise
  <2>2. SettledPairs' \subseteq Owed'
    BY PairFactsNext DEF PairWise
  <2>. QED
    BY <1>p, <1>4, <2>1, <2>2
<1>. QED
  BY <1>4, <1>6, <1>7, <1>8 DEF Contract!Accept

\* Every step of Delivery is a step of the contract, or leaves the pairs alone.
LEMMA ContractStep ==
  ASSUME Inv, Filed, Kept', [Next]_vars
  PROVE  Contract!Next
<1>a. TypeOK /\ HonestLog /\ Advances
  BY StepFacts DEF Inv
<1>t. /\ \A i \in TaskIds : row[i].st \in RowState
      /\ \A i \in TaskIds : /\ row[i].st # "unborn" => SameTask(row[i], row'[i])
                            /\ row[i].st = "gone" => row'[i] = row[i]
  BY <1>a DEF TypeOK, Row, Advances
<1>1. CASE \A i \in TaskIds : row'[i].st # "unborn" => row[i].st # "unborn"
  <2>1. \A m \in Msgs, e \in Endpoints : QueuedBy(m, e)' => QueuedBy(m, e)
    BY <1>t, <1>1 DEF QueuedBy, Live, SameTask, RowState
  <2>2. UNCHANGED accepted
    <3>1. ASSUME NEW k \in Msgs, Ingest(k) PROVE FALSE
      <4>1. PICK i : Adds(i, NewRow("fanout", "scheduled", k, None))
        BY <1>a, <3>1, BirthEffect
      <4>. QED
        BY <1>1, <4>1 DEF Adds, NewRow
    <3>. QED
      BY <3>1, AcceptCases
  <2>3. Contract!Settle
    BY <1>a, <2>1, <2>2, SettleStep
  <2>. QED
    BY <2>3 DEF Contract!Next
<1>2. ASSUME NEW k \in Msgs, NEW i \in TaskIds, Ingest(k), Adds(i, NewRow("fanout", "scheduled", k, None))
      PROVE  Contract!Next
  <2>1. Contract!Accept(k, Subscribed[k])
    BY <1>a, <1>2, AcceptStep
  <2>2. Subscribed[k] \in SUBSET Endpoints
    BY DeliveryAssumption
  <2>. QED
    BY <2>1, <2>2 DEF Contract!Next
<1>3. ASSUME NEW m \in Msgs, NEW e \in Endpoints, NEW i \in TaskIds, Resend(m, e),
             Adds(i, NewRow("deliver", "manual", m, e))
      PROVE  Contract!Next
  <2>1. UNCHANGED <<accepted, stored, attempts, deactivated, dropped>>
    BY <1>3 DEF Resend
  <2>2. row[i].st = "unborn" /\ \A j \in TaskIds : j # i => row'[j] = row[j]
    BY <1>3 DEF Adds
  <2>3. \A k \in Msgs, x \in Endpoints : QueuedBy(k, x) => QueuedBy(k, x)'
    BY <2>2 DEF QueuedBy, Live
  <2>4. Contract!Requeue
    BY <1>a, <2>1, <2>3, RequeueStep
  <2>. QED
    BY <2>4 DEF Contract!Next
<1>4. ASSUME NEW h \in Handlers, NEW F, NEW g, Expands(h, F, g) PROVE Contract!Next
  <2>. DEFINE t == hs[h].task
  <2>1. /\ t \in TaskIds /\ row[t].kind = "fanout" /\ F \subseteq TaskIds
        /\ \A i \in F : row[i].st = "unborn"
        /\ UNCHANGED <<accepted, stored, attempts, deactivated>>
    BY Zenon, <1>4 DEF Expands
  <2>2. /\ \A i \in F : row'[i].msg = row[t].msg
        /\ \A i \in TaskIds \ F : IF i = t /\ Live(i) THEN row'[i].st = "gone" ELSE row'[i] = row[i]
    <3>1. \A i \in F : row'[i] = NewRow("deliver", row[t].trig, row[t].msg, g[i])
      BY Zenon, <1>4 DEF Expands
    <3>2. \A i \in TaskIds \ F : IF i = t /\ Live(i) THEN row'[i] = Deleted(row[i]) ELSE row'[i] = row[i]
      BY Zenon, <1>4 DEF Expands
    <3>3. \A i \in TaskIds : Deleted(row[i]).st = "gone"
      BY <1>a, DeletedRow, Zenon DEF TypeOK
    <3>4. ASSUME NEW i \in F PROVE row'[i].msg = row[t].msg
      <4>1. row'[i] = NewRow("deliver", row[t].trig, row[t].msg, g[i])
        BY Zenon, <3>1
      <4>. QED
        BY <4>1 DEF NewRow
    <3>. QED
      BY <3>2, <3>3, <3>4
  <2>3. CASE Live(t)
    <3>1. \A m \in Msgs, e \in Endpoints : QueuedBy(m, e)' => QueuedBy(m, e)
      BY <2>1, <2>2, <2>3 DEF QueuedBy, Live
    <3>2. Contract!Settle
      BY <1>a, <2>1, <3>1, SettleStep
    <3>. QED
      BY <3>2 DEF Contract!Next
  <2>4. CASE ~Live(t)
    <3>1. UNCHANGED dropped
      BY Zenon, <1>4, <2>4 DEF Expands
    <3>2. \A m \in Msgs, e \in Endpoints : QueuedBy(m, e) => QueuedBy(m, e)'
      BY <2>1, <2>2, <2>4 DEF QueuedBy, Live
    <3>3. Contract!Requeue
      BY <1>a, <2>1, <3>1, <3>2, RequeueStep
    <3>. QED
      BY <3>3 DEF Contract!Next
  <2>. QED
    BY <2>3, <2>4
<1>. QED
  BY Zenon, <1>a, <1>1, <1>2, <1>3, <1>4, Births

LEMMA ContractInvariance == Spec => [](Inv /\ Filed /\ Kept)
<1>1. Init => Filed
  BY DEF Init, Filed
<1>2. Inv /\ Filed /\ [Next]_vars => Filed'
  BY FiledStep, StepFacts DEF Inv
<1>. QED
  BY <1>1, <1>2, Invariance, NothingIsForgotten, PTL DEF Spec

\* At every moment, each pair of an accepted message and a subscribed endpoint is
\* settled or stands in the queue (IngestUseCase.Ingest, Engine.handleFanout).
THEOREM AcceptedIsKept == Spec => []Kept
BY ContractInvariance, PTL

\* Delivery implements its contract: what an ingest made owed leaves the queue only
\* settled, and nothing unsettles it, for any number of workers, rows, messages,
\* endpoints and faults (IngestUseCase.Ingest, Engine.handleFanout, handleDeliver,
\* AttemptWriter.flush).
THEOREM DeliveryKeepsContract == Spec => KeepsContract
<1>1. Init => Contract!Init
  BY DEF Init, Contract!Init, Owed, SettledPairs, QueuedPairs
<1>2. Inv /\ Filed /\ Kept' /\ [Next]_vars => [Contract!Next]_(Contract!vars)
  BY ContractStep
<1>. QED
  BY <1>1, <1>2, ContractInvariance, PTL DEF Spec, KeepsContract, Contract!Spec
=============================================================================
