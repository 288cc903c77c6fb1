----------------------------- MODULE IntakeProofs -----------------------------
(* A message is accepted with its fan-out row or not at all, once per event id    *)
(* and second, and is found by its id: for any number of callers, event ids,       *)
(* retention periods, requests and faults.                                         *)
EXTENDS MessageIntake, TLAPS

Busy(c) == call[c].step # "idle"
InTransaction(c) == call[c].step \in {"enqueue", "commit"}

(* A request at work has a message whose id is its own and has been handed out. *)
OwnId ==
  /\ \A c \in Callers : Busy(c) => call[c].msg \in Message /\ call[c].msg.id <= requests
  /\ \A c, d \in Callers : Busy(c) /\ Busy(d) /\ c # d => call[c].msg.id # call[d].msg.id
  /\ \A c \in Callers, m \in stored : Busy(c) => call[c].msg.id # m.id
  /\ \A m \in stored : m.id <= requests
  /\ \A m, n \in stored : m.id = n.id => m = n

(* The row's time is the one in the id. *)
CreatedIsAt ==
  /\ \A m \in stored : m.created = m.at
  /\ \A c \in Callers : Busy(c) => call[c].msg.created = call[c].msg.at

(* An open transaction has its key to itself, among rows and transactions. *)
KeyIsTaken ==
  \A c \in Callers : InTransaction(c) =>
    /\ \A m \in stored : ~SameKey(call[c].msg, m)
    /\ \A d \in Callers \ {c} : InTransaction(d) => ~SameKey(call[c].msg, call[d].msg)

IntakeInv == TypeOK /\ StoredIsQueued /\ OncePerSecond /\ OwnId /\ CreatedIsAt /\ KeyIsTaken

-------------------------------------------------------------------------------
(* Operators of the model. *)

LEMMA DayIsNat ==
  ASSUME IntakeAssumption, NEW t \in Nat
  PROVE  Day(t) \in Nat
BY DEF Day, IntakeAssumption

LEMMA SameKeySymmetric ==
  ASSUME NEW m, NEW n, SameKey(m, n)
  PROVE  SameKey(n, m)
BY DEF SameKey

LEMMA OneCall ==
  ASSUME TypeOK, NEW c \in Callers, NEW R \in Call, call' = [call EXCEPT ![c] = R]
  PROVE  /\ call' \in [Callers -> Call] /\ call'[c] = R
         /\ \A d \in Callers \ {c} : call'[d] = call[d]
BY DEF TypeOK

LEMMA ReplyReads ==
  ASSUME TypeOK, NEW c \in Callers, NEW code \in {"202", "400", "409", "500"}, Reply(c, code)
  PROVE  /\ call' \in [Callers -> Call] /\ call'[c].step = "idle"
         /\ \A d \in Callers \ {c} : call'[d] = call[d]
<1>. DEFINE R == [Idle EXCEPT !.reply = code]
<1>1. R \in Call /\ R.step = "idle"
  BY DEF Idle, Call
<1>2. call' = [call EXCEPT ![c] = R]
  BY DEF Reply
<1>. HIDE DEF R
<1>. QED
  BY <1>1, <1>2, OneCall, Zenon

(* The message of a new request. *)
LEMMA NewMessage ==
  ASSUME IntakeAssumption, TypeOK, requests < MaxRequests,
         NEW uid \in EventIDs \cup {NoUID}, NEW period \in Periods \cup {NoPeriod}
  PROVE  LET m == [id |-> requests + 1, at |-> now, uid |-> uid, created |-> now,
                   expires |-> ExpiresAt(now, period)]
         IN  m \in Message /\ m.id = requests + 1 /\ m.at = now /\ m.created = now
<1>1. requests \in 0 .. MaxRequests /\ now \in 0 .. MaxTime /\ MaxTime \in Nat /\ MaxRequests \in Nat
  BY DEF TypeOK, IntakeAssumption
<1>2. Day(now) \in Nat
  BY <1>1, DayIsNat
<1>3. ExpiresAt(now, period) \in Nat
  BY <1>2 DEF ExpiresAt, NoPeriod, IntakeAssumption
<1>. QED
  BY <1>1, <1>3 DEF Message

-------------------------------------------------------------------------------
(* One lemma per action: it keeps the invariant. *)

(* A request that ends, with whatever answer, and leaves no row behind. *)
LEMMA EndStep ==
  ASSUME IntakeAssumption, IntakeInv, NEW c \in Callers, NEW code \in {"202", "400", "409", "500"},
         Reply(c, code), UNCHANGED <<now, stored, queued, dropped>>,
         requests' \in requests .. MaxRequests, faults' \in 0 .. MaxFaults
  PROVE  IntakeInv'
<1>t. TypeOK /\ StoredIsQueued /\ OncePerSecond /\ OwnId /\ CreatedIsAt /\ KeyIsTaken
  BY DEF IntakeInv
<1>1. /\ call' \in [Callers -> Call] /\ call'[c].step = "idle"
      /\ \A d \in Callers \ {c} : call'[d] = call[d]
  BY <1>t, ReplyReads
<1>2. requests' \in 0 .. MaxRequests /\ requests \in Nat /\ requests' >= requests
  BY <1>t DEF TypeOK, IntakeAssumption
<1>3. TypeOK'
  BY <1>t, <1>1, <1>2 DEF TypeOK
<1>4. \A d \in Callers : Busy(d)' => d # c /\ Busy(d) /\ call'[d] = call[d]
  BY <1>1 DEF Busy
<1>5. OwnId'
  <2>1. \A m \in stored : m.id \in Nat
    BY <1>t DEF TypeOK, Message
  <2>2. \A d \in Callers : Busy(d) => call[d].msg.id \in Nat
    BY <1>t DEF OwnId, Message
  <2>. QED
    BY <1>t, <1>2, <1>4, <2>1, <2>2 DEF OwnId
<1>6. CreatedIsAt'
  BY <1>t, <1>4 DEF CreatedIsAt
<1>7. KeyIsTaken'
  BY <1>t, <1>1 DEF KeyIsTaken, InTransaction, SameKey
<1>8. StoredIsQueued' /\ OncePerSecond'
  BY <1>t DEF StoredIsQueued, OncePerSecond, SameKey
<1>. QED
  BY <1>3, <1>5, <1>6, <1>7, <1>8 DEF IntakeInv

LEMMA IngestStep ==
  ASSUME IntakeAssumption, IntakeInv, NEW c \in Callers, Ingest(c)
  PROVE  IntakeInv'
<1>t. TypeOK /\ StoredIsQueued /\ OncePerSecond /\ OwnId /\ CreatedIsAt /\ KeyIsTaken
  BY DEF IntakeInv
<1>1. PICK uid \in EventIDs \cup {NoUID}, period \in Periods \cup {NoPeriod} :
       IF validate(period)
       THEN LET m == [id |-> requests + 1, at |-> now, uid |-> uid, created |-> now,
                      expires |-> ExpiresAt(now, period)] IN
            call' = [call EXCEPT ![c] = [step |-> "insert", msg |-> m, reply |-> "none"]]
       ELSE Reply(c, "400")
  BY DEF Ingest
<1>2. /\ call[c].step = "idle" /\ requests < MaxRequests /\ requests' = requests + 1
      /\ UNCHANGED <<now, stored, queued, dropped, faults>>
  BY DEF Ingest
<1>3. requests \in Nat /\ requests' \in requests .. MaxRequests /\ faults' \in 0 .. MaxFaults
  BY <1>2, <1>t DEF TypeOK, IntakeAssumption
<1>4. CASE ~validate(period)
  BY <1>1, <1>2, <1>3, <1>4, EndStep
<1>5. CASE validate(period)
  <2>. DEFINE n == [id |-> requests + 1, at |-> now, uid |-> uid, created |-> now,
                    expires |-> ExpiresAt(now, period)]
              R == [step |-> "insert", msg |-> n, reply |-> "none"]
  <2>1. n \in Message /\ n.id = requests + 1 /\ n.at = now /\ n.created = now
    BY <1>t, <1>2, NewMessage
  <2>2. call' = [call EXCEPT ![c] = R]
    BY <1>1, <1>5
  <2>. HIDE DEF n
  <2>3. R \in Call /\ R.step = "insert" /\ R.msg = n
    BY <2>1 DEF Call
  <2>. HIDE DEF R
  <2>4. /\ call' \in [Callers -> Call] /\ call'[c] = R
        /\ \A d \in Callers \ {c} : call'[d] = call[d]
    BY <1>t, <2>2, <2>3, OneCall, Zenon
  <2>5. TypeOK'
    BY <1>t, <1>2, <1>3, <2>4 DEF TypeOK
  <2>6. /\ \A x \in stored : x.id \in Nat
        /\ \A d \in Callers : Busy(d) => call[d].msg.id \in Nat
    BY <1>t DEF TypeOK, OwnId, Message
  <2>7. \A d \in Callers \ {c} : Busy(d)' => Busy(d)
    BY <2>4 DEF Busy
  <2>8. OwnId'
    BY <1>t, <1>2, <1>3, <2>1, <2>3, <2>4, <2>6, <2>7 DEF OwnId
  <2>9. CreatedIsAt'
    BY <1>t, <1>2, <2>1, <2>3, <2>4, <2>7 DEF CreatedIsAt
  <2>10. KeyIsTaken'
    BY <1>t, <1>2, <2>3, <2>4 DEF KeyIsTaken, InTransaction, SameKey
  <2>11. StoredIsQueued' /\ OncePerSecond'
    BY <1>t, <1>2 DEF StoredIsQueued, OncePerSecond, SameKey
  <2>. QED
    BY <2>5, <2>8, <2>9, <2>10, <2>11 DEF IntakeInv
<1>. QED
  BY <1>4, <1>5

(* The insert takes a key that no row and no other open transaction has. *)
LEMMA CreateMessageStep ==
  ASSUME IntakeAssumption, IntakeInv, NEW c \in Callers, CreateMessage(c)
  PROVE  IntakeInv'
<1>t. TypeOK /\ StoredIsQueued /\ OncePerSecond /\ OwnId /\ CreatedIsAt /\ KeyIsTaken
  BY DEF IntakeInv
<1>. DEFINE m == [call[c].msg EXCEPT !.created = CreatedAt(call[c].msg)]
<1>1. /\ call[c].step = "insert" /\ ~Waits(c, m)
      /\ IF Conflicts(m) THEN Reply(c, "409")
         ELSE call' = [call EXCEPT ![c].step = "enqueue", ![c].msg = m]
      /\ UNCHANGED <<now, stored, queued, dropped, requests, faults>>
  BY DEF CreateMessage
<1>2. /\ m \in Message /\ m.id = call[c].msg.id /\ m.at = call[c].msg.at
      /\ m.uid = call[c].msg.uid /\ m.created = call[c].msg.at
  <2>1. call[c].msg \in Message
    BY <1>t, <1>1 DEF OwnId, Busy
  <2>. QED
    BY <2>1 DEF Message, CreatedAt
<1>. HIDE DEF m
<1>3. CASE Conflicts(m)
  <2>1. requests' \in requests .. MaxRequests /\ faults' \in 0 .. MaxFaults
    BY <1>1, <1>t DEF TypeOK, IntakeAssumption
  <2>. QED
    BY <1>1, <1>3, <2>1, EndStep
<1>4. CASE ~Conflicts(m)
  <2>. DEFINE R == [call[c] EXCEPT !.step = "enqueue", !.msg = m]
  <2>1. R \in Call /\ R.step = "enqueue" /\ R.msg = m
    BY <1>t, <1>2, Zenon DEF TypeOK, Call
  <2>2. call' = [call EXCEPT ![c] = R]
    BY <1>1, <1>4, <1>t, Zenon DEF TypeOK
  <2>. HIDE DEF R
  <2>3. /\ call' \in [Callers -> Call] /\ call'[c] = R
        /\ \A d \in Callers \ {c} : call'[d] = call[d]
    BY <1>t, <2>1, <2>2, OneCall, Zenon
  <2>4. TypeOK'
    BY <1>t, <1>1, <2>3 DEF TypeOK
  <2>5. Busy(c) /\ \A d \in Callers \ {c} : Busy(d)' => Busy(d)
    BY <1>1, <2>3 DEF Busy
  <2>6. OwnId'
    BY <1>t, <1>1, <1>2, <2>1, <2>3, <2>5 DEF OwnId
  <2>7. CreatedIsAt'
    BY <1>t, <1>1, <1>2, <2>1, <2>3, <2>5 DEF CreatedIsAt
  <2>8. KeyIsTaken'
    <3>1. \A n \in stored : ~SameKey(m, n)
      BY <1>4 DEF Conflicts
    <3>2. \A d \in Callers \ {c} : InTransaction(d) => ~SameKey(m, call[d].msg)
      BY <1>1 DEF Waits, Open, InTransaction
    <3>3. \A d \in Callers \ {c} : InTransaction(d) => ~SameKey(call[d].msg, m)
      BY <3>2, SameKeySymmetric
    <3>4. \A d \in Callers \ {c} : InTransaction(d)' <=> InTransaction(d)
      BY <2>3 DEF InTransaction
    <3>5. ASSUME NEW x, NEW y PROVE SameKey(x, y)' <=> SameKey(x, y)
      BY DEF SameKey
    <3>6. ASSUME NEW d \in Callers, InTransaction(d)' PROVE \A n \in stored' : ~SameKey(call'[d].msg, n)
      BY <1>t, <1>1, <2>1, <2>3, <3>1, <3>4, <3>6 DEF KeyIsTaken
    <3>7. ASSUME NEW d \in Callers, NEW e \in Callers \ {d}, InTransaction(d)', InTransaction(e)'
          PROVE  ~SameKey(call'[d].msg, call'[e].msg)
      BY <1>t, <2>1, <2>3, <3>2, <3>3, <3>4, <3>7 DEF KeyIsTaken
    <3>. QED
      BY <3>6, <3>7 DEF KeyIsTaken, SameKey
  <2>9. StoredIsQueued' /\ OncePerSecond'
    BY <1>t, <1>1 DEF StoredIsQueued, OncePerSecond, SameKey
  <2>. QED
    BY <2>4, <2>6, <2>7, <2>8, <2>9 DEF IntakeInv
<1>. QED
  BY <1>3, <1>4

LEMMA EnqueueStep ==
  ASSUME IntakeAssumption, IntakeInv, NEW c \in Callers, Enqueue(c)
  PROVE  IntakeInv'
<1>t. TypeOK /\ StoredIsQueued /\ OncePerSecond /\ OwnId /\ CreatedIsAt /\ KeyIsTaken
  BY DEF IntakeInv
<1>. DEFINE R == [call[c] EXCEPT !.step = "commit"]
<1>1. /\ call[c].step = "enqueue" /\ call' = [call EXCEPT ![c].step = "commit"]
      /\ UNCHANGED <<now, stored, queued, dropped, requests, faults>>
  BY DEF Enqueue, AtEnqueue
<1>2. R \in Call /\ R.step = "commit" /\ R.msg = call[c].msg
  BY <1>t DEF TypeOK, Call
<1>3. call' = [call EXCEPT ![c] = R]
  BY <1>1, <1>t DEF TypeOK
<1>. HIDE DEF R
<1>4. /\ call' \in [Callers -> Call] /\ call'[c] = R
      /\ \A d \in Callers \ {c} : call'[d] = call[d]
  BY <1>t, <1>2, <1>3, OneCall, Zenon
<1>5. TypeOK'
  BY <1>t, <1>1, <1>4 DEF TypeOK
<1>6. \A d \in Callers : /\ Busy(d)' <=> Busy(d)
                         /\ InTransaction(d)' <=> InTransaction(d)
                         /\ call'[d].msg = call[d].msg
  BY <1>1, <1>2, <1>4 DEF Busy, InTransaction
<1>7. OwnId' /\ CreatedIsAt'
  BY <1>t, <1>1, <1>6 DEF OwnId, CreatedIsAt
<1>8. KeyIsTaken'
  BY <1>t, <1>1, <1>6 DEF KeyIsTaken, SameKey
<1>9. StoredIsQueued' /\ OncePerSecond'
  BY <1>t, <1>1 DEF StoredIsQueued, OncePerSecond, SameKey
<1>. QED
  BY <1>5, <1>7, <1>8, <1>9 DEF IntakeInv

(* The rows of the message and of its fan-out appear together. *)
LEMMA CommitStep ==
  ASSUME IntakeAssumption, IntakeInv, NEW c \in Callers, Commit(c)
  PROVE  IntakeInv'
<1>t. TypeOK /\ StoredIsQueued /\ OncePerSecond /\ OwnId /\ CreatedIsAt /\ KeyIsTaken
  BY DEF IntakeInv
<1>1. /\ call[c].step = "commit" /\ UNCHANGED <<now, dropped, requests>>
      /\ stored' = stored \cup {call[c].msg} /\ queued' = queued \cup {call[c].msg}
  BY DEF Commit
<1>2. faults' \in 0 .. MaxFaults
  BY <1>t DEF Commit, Fault, TypeOK, IntakeAssumption
<1>3. /\ call' \in [Callers -> Call] /\ call'[c].step = "idle"
      /\ \A d \in Callers \ {c} : call'[d] = call[d]
  BY <1>t, ReplyReads DEF Commit
<1>4. Busy(c) /\ InTransaction(c) /\ call[c].msg \in Message
  BY <1>1, <1>t DEF Busy, InTransaction, OwnId
<1>5. \A d \in Callers : /\ Busy(d)' => d # c /\ Busy(d) /\ call'[d] = call[d]
                         /\ InTransaction(d)' => d # c /\ InTransaction(d) /\ call'[d] = call[d]
  BY <1>3 DEF Busy, InTransaction
<1>6. TypeOK'
  BY <1>t, <1>1, <1>2, <1>3, <1>4 DEF TypeOK
<1>7. OwnId'
  BY <1>t, <1>1, <1>4, <1>5 DEF OwnId
<1>8. CreatedIsAt'
  BY <1>t, <1>1, <1>4, <1>5 DEF CreatedIsAt
<1>9. \A n \in stored : ~SameKey(call[c].msg, n) /\ ~SameKey(n, call[c].msg)
  BY <1>t, <1>4, SameKeySymmetric DEF KeyIsTaken
<1>10. KeyIsTaken'
  <2>1. ASSUME NEW d \in Callers, InTransaction(d)' PROVE \A n \in stored' : ~SameKey(call'[d].msg, n)
    BY <1>t, <1>1, <1>4, <1>5, <2>1 DEF KeyIsTaken
  <2>2. ASSUME NEW d \in Callers, NEW e \in Callers \ {d}, InTransaction(d)', InTransaction(e)'
        PROVE  ~SameKey(call'[d].msg, call'[e].msg)
    BY <1>t, <1>5, <2>2 DEF KeyIsTaken
  <2>. QED
    BY <2>1, <2>2 DEF KeyIsTaken, SameKey
<1>11. StoredIsQueued'
  BY <1>t, <1>1 DEF StoredIsQueued
<1>12. OncePerSecond'
  <2>1. \A m, n \in stored' : SameKey(m, n) => m = n
    BY <1>t, <1>1, <1>9 DEF OncePerSecond
  <2>. QED
    BY <2>1 DEF OncePerSecond, SameKey
<1>. QED
  BY <1>6, <1>7, <1>8, <1>10, <1>11, <1>12 DEF IntakeInv

LEMMA RollbackStep ==
  ASSUME IntakeAssumption, IntakeInv, NEW c \in Callers, Rollback(c)
  PROVE  IntakeInv'
<1>1. requests' \in requests .. MaxRequests /\ faults' \in 0 .. MaxFaults
  BY DEF Rollback, Fault, IntakeInv, TypeOK, IntakeAssumption
<1>. QED
  BY <1>1, EndStep DEF Rollback

(* Rows go away with their day; nothing else depends on them. *)
LEMMA DropDayStep ==
  ASSUME IntakeAssumption, IntakeInv, DropDay
  PROVE  IntakeInv'
<1>t. TypeOK /\ StoredIsQueued /\ OncePerSecond /\ OwnId /\ CreatedIsAt /\ KeyIsTaken
  BY DEF IntakeInv
<1>. DEFINE old == {m \in stored : Day(m.created) < Day(now) - DefaultPeriod}
<1>1. /\ stored' = stored \ old /\ dropped' = dropped \cup {<<m, Day(now)>> : m \in old}
      /\ UNCHANGED <<now, call, queued, requests, faults>>
  BY DEF DropDay
<1>2. old \subseteq stored
  OBVIOUS
<1>. HIDE DEF old
<1>3. TypeOK'
  <2>1. Day(now) \in Nat
    BY <1>t, DayIsNat DEF TypeOK, IntakeAssumption
  <2>2. {<<m, Day(now)>> : m \in old} \subseteq Message \X Nat
    BY <1>t, <1>2, <2>1 DEF TypeOK
  <2>. QED
    BY <1>t, <1>1, <2>2 DEF TypeOK
<1>4. OwnId' /\ CreatedIsAt'
  BY <1>t, <1>1 DEF OwnId, CreatedIsAt, Busy
<1>5. KeyIsTaken'
  BY <1>t, <1>1 DEF KeyIsTaken, InTransaction, SameKey
<1>6. StoredIsQueued' /\ OncePerSecond'
  BY <1>t, <1>1 DEF StoredIsQueued, OncePerSecond, SameKey
<1>. QED
  BY <1>3, <1>4, <1>5, <1>6 DEF IntakeInv

LEMMA TickStep ==
  ASSUME IntakeAssumption, IntakeInv, Tick \/ UNCHANGED vars
  PROVE  IntakeInv'
<1>t. TypeOK /\ StoredIsQueued /\ OncePerSecond /\ OwnId /\ CreatedIsAt /\ KeyIsTaken
  BY DEF IntakeInv
<1>1. now' \in 0 .. MaxTime /\ UNCHANGED <<call, stored, queued, dropped, requests, faults>>
  BY <1>t DEF Tick, vars, TypeOK, IntakeAssumption
<1>2. TypeOK'
  BY <1>t, <1>1 DEF TypeOK
<1>3. OwnId' /\ CreatedIsAt'
  BY <1>t, <1>1 DEF OwnId, CreatedIsAt, Busy
<1>4. KeyIsTaken'
  BY <1>t, <1>1 DEF KeyIsTaken, InTransaction, SameKey
<1>5. StoredIsQueued' /\ OncePerSecond'
  BY <1>t, <1>1 DEF StoredIsQueued, OncePerSecond, SameKey
<1>. QED
  BY <1>2, <1>3, <1>4, <1>5 DEF IntakeInv

-------------------------------------------------------------------------------
(* IntakeIsSound, for any number of callers, event ids, periods, requests and      *)
(* faults: the message and its fan-out row commit together, one request per event   *)
(* id and second is accepted however they overlap, and the row is found in the day  *)
(* its id names (Ingest, message_uid_idx, MessageUseCase.GetMessage).               *)
THEOREM IntakeIsSoundAlways ==
  ASSUME IntakeAssumption
  PROVE  Spec => []IntakeIsSound
<1>1. Init => IntakeInv
  <2>. SUFFICES ASSUME Init PROVE IntakeInv
    OBVIOUS
  <2>1. Idle \in Call /\ Idle.step = "idle"
    BY DEF Idle, Call
  <2>2. TypeOK
    BY <2>1 DEF Init, TypeOK, IntakeAssumption
  <2>. QED
    BY <2>1, <2>2 DEF Init, IntakeInv, StoredIsQueued, OncePerSecond, OwnId, CreatedIsAt, KeyIsTaken,
                      Busy, InTransaction
<1>2. IntakeInv /\ [Next]_vars => IntakeInv'
  BY IngestStep, CreateMessageStep, EnqueueStep, CommitStep, RollbackStep, DropDayStep, TickStep
  DEF Next, Serve
<1>3. IntakeInv => IntakeIsSound
  <2>. SUFFICES ASSUME IntakeInv PROVE FoundById
    BY DEF IntakeInv, IntakeIsSound
  <2>. QED
    BY DEF IntakeInv, OwnId, CreatedIsAt, FoundById, GetMessage
<1>. QED
  BY <1>1, <1>2, <1>3, PTL DEF Spec
===============================================================================
