------------------------- MODULE IdempotencyProofs -------------------------
(* What a client that repeats a request under one Idempotency-Key may rely on:  *)
(* one message and one answer, for any number of requests, messages and faults. *)
EXTENDS Idempotency, TLAPS

(* The requests that are past their claim: they won the row and have not been   *)
(* answered by the writes after the handler.                                    *)
Working(r) == req[r].pc \in {"handling", "completing", "aborting"}

(* A lock is held for one request at most. *)
OneHolder == \A q, r \in row.by : q = r

(* A response about to be stored names a message that exists. *)
NamesCreated == \A r \in Requests : req[r].pc = "completing" => req[r].response \in 1 .. created

(* While nothing has gone wrong: whoever works holds the row, and it cannot     *)
(* expire under it; nothing has been created before a handler succeeds; and once *)
(* a message exists, the row is closed to every other claim, by the lock of the  *)
(* request that is about to store its response or by the response.               *)
HolderWorks ==
  \A r \in Requests : Working(r) =>
    row.status = "progress" /\ row.by = {r} /\ ~row.expired
NothingYet == \A r \in Requests : req[r].pc \in {"handling", "aborting"} => created = 0
FirstStored ==
  /\ row.status = "complete" => row.response = 1 /\ created = 1 /\ ~row.expired
  /\ created = 0 \/ row.status = "complete" \/ \E r \in Requests : req[r].pc = "completing"
Undisturbed ==
  /\ HolderWorks /\ NothingYet /\ FirstStored
  /\ created <= 1
  /\ \A r \in Requests : req[r].answer \in {"fresh", "replay"} => req[r].response = 1

KeyInv ==
  /\ TypeOK /\ RowIsAccountable /\ OneHolder /\ NamesCreated
  /\ excuse = {} => Undisturbed

-----------------------------------------------------------------------------
(* What the helpers of the actions write. *)

LEMMA NoRequestIsOne ==
  ASSUME IdempotencyAssumption PROVE NoRequest \in Request
BY DEF NoRequest, Request, Phase, Answer, Response, None, IdempotencyAssumption

LEMMA ReplyReads ==
  ASSUME IdempotencyAssumption, TypeOK, NEW r \in Requests, NEW a \in Answer, NEW m \in Response, Reply(r, a, m)
  PROVE  /\ req' \in [Requests -> Request]
         /\ req'[r].pc = "idle" /\ req'[r].answer = a /\ req'[r].response = m /\ ~req'[r].valid
         /\ \A q \in Requests \ {r} : req'[q] = req[q]
<1>. DEFINE R == [NoRequest EXCEPT !.answer = a, !.response = m]
<1>1. R \in Request
  BY NoRequestIsOne, Zenon DEF Request
<1>2. R.pc = "idle" /\ R.answer = a /\ R.response = m /\ ~R.valid
  BY DEF NoRequest
<1>. QED
  BY <1>1, <1>2 DEF Reply, TypeOK

LEMMA LookupReplies ==
  ASSUME IdempotencyAssumption, TypeOK, NEW r \in Requests, Lookup(r)
  PROVE  /\ req' \in [Requests -> Request]
         /\ req'[r].pc = "idle" /\ ~req'[r].valid /\ req'[r].answer # "fresh"
         /\ req'[r].answer = "replay" => row.status = "complete" /\ req'[r].response = row.response
         /\ \A q \in Requests \ {r} : req'[q] = req[q]
<1>1. None \in Response
  BY DEF None, Response, IdempotencyAssumption
<1>2. row.status \in {"none", "progress", "complete"} /\ row.response \in Response
  BY DEF TypeOK, Row
<1>3. {"error", "conflict", "replay"} \subseteq Answer
  BY DEF Answer
<1>. QED
  BY <1>1, <1>2, <1>3, ReplyReads, ZenonT(30) DEF Lookup

LEMMA LeftReads ==
  ASSUME TypeOK
  PROVE  /\ Left \in Row /\ Left.by = {}
         /\ Left.status = row.status /\ Left.response = row.response /\ Left.expired = row.expired
BY DEF Left, TypeOK, Row

(* Every statement keeps the row, the requests and the history well formed. *)
LEMMA KeyTypeStep ==
  ASSUME IdempotencyAssumption, TypeOK, [Next]_vars
  PROVE  TypeOK'
<1>. USE DEF IdempotencyAssumption
<1>0. None \in Response
  BY DEF None, Response
<1>r. req \in [Requests -> Request]
  BY DEF TypeOK
<1>h. excuse \subseteq {"slow", "crash", "unstored", "outdated", "unsure"} /\ faults \in 0 .. MaxFaults
  BY DEF TypeOK
<1>1. ASSUME NEW r \in Requests, Send(r) PROVE TypeOK'
  <2>2. [NoRequest EXCEPT !.pc = "claim"] \in Request
    BY NoRequestIsOne DEF Request, Phase
  <2>. QED
    BY <1>1, <2>2 DEF Send, TypeOK
<1>2. ASSUME NEW r \in Requests, BeginWins(r) PROVE TypeOK'
  <2>0. req' = [req EXCEPT ![r].pc = "handling", ![r].valid = TRUE]
    BY <1>2 DEF BeginWins
  <2>1. req' \in [Requests -> Request]
    <3>1. "handling" \in Phase
      BY DEF Phase
    <3>. QED
      BY <2>0, <1>r, <3>1, Zenon DEF Request
  <2>2. row' \in Row /\ (row'.status # "progress" => row'.by = {})
    BY <1>2, <1>0 DEF BeginWins, InProgress, Row
  <2>3. overlap' \in BOOLEAN
    BY <1>2 DEF BeginWins, TypeOK
  <2>. QED
    BY <1>2, <2>1, <2>2, <2>3 DEF BeginWins, TypeOK
<1>3. ASSUME NEW r \in Requests, BeginLoses(r) PROVE TypeOK'
  BY <1>3 DEF BeginLoses, To, TypeOK, Request, Phase
<1>4. ASSUME NEW r \in Requests, BeginFails(r) PROVE TypeOK'
  <2>1. req' \in [Requests -> Request]
    BY <1>4, <1>0, ReplyReads, "error" \in Answer DEF BeginFails, Answer
  <2>. QED
    BY <1>4, <2>1 DEF BeginFails, Fail, TypeOK
<1>5. ASSUME NEW r \in Requests, Lookup(r) PROVE TypeOK'
  <2>1. req' \in [Requests -> Request]
    BY <1>5, LookupReplies
  <2>. QED
    BY <1>5, <2>1 DEF Lookup, TypeOK
<1>6. ASSUME NEW r \in Requests, HandlerSucceeds(r) PROVE TypeOK'
  <2>1. created + 1 \in 1 .. MaxMessages
    BY <1>6 DEF HandlerSucceeds, TypeOK
  <2>2. req' = [req EXCEPT ![r].pc = "completing", ![r].answer = "fresh", ![r].response = created + 1]
    BY <1>6 DEF HandlerSucceeds
  <2>3. created + 1 \in Response
    BY <2>1 DEF Response
  <2>. DEFINE R == [req[r] EXCEPT !.pc = "completing", !.answer = "fresh", !.response = created + 1]
  <2>4. R \in Request
    <3>1. "completing" \in Phase /\ "fresh" \in Answer
      BY DEF Phase, Answer
    <3>. QED
      BY <2>3, <1>r, <3>1, Zenon DEF Request
  <2>5. req' = [req EXCEPT ![r] = R]
    BY <2>2, <1>r, Zenon
  <2>. HIDE DEF R
  <2>6. req' \in [Requests -> Request]
    BY <2>4, <2>5, <1>r
  <2>. QED
    BY <1>6, <2>1, <2>6 DEF HandlerSucceeds, TypeOK
<1>7. ASSUME NEW r \in Requests, HandlerFails(r) PROVE TypeOK'
  BY <1>7 DEF HandlerFails, Fail, To, TypeOK, Request, Phase
<1>8. ASSUME NEW r \in Requests, Complete(r) PROVE TypeOK'
  <2>1. req[r].response \in Response /\ "fresh" \in Answer
    BY DEF TypeOK, Request, Answer
  <2>2. req' \in [Requests -> Request]
    BY <1>8, <2>1, ReplyReads DEF Complete
  <2>3. row' \in Row /\ (row'.status # "progress" => row'.by = {})
    <3>1. CASE row' = Completed(req[r].response)
      BY <3>1, <2>1 DEF Completed, Row, TypeOK
    <3>2. CASE row' = IF row.by = {r} THEN Left ELSE row
      BY <3>2, LeftReads DEF TypeOK
    <3>. QED
      BY <1>8, <3>1, <3>2 DEF Complete
  <2>4. /\ excuse' \subseteq {"slow", "crash", "unstored", "outdated", "unsure"}
        /\ faults' \in 0 .. MaxFaults
    <3>1. CASE UNCHANGED <<excuse, faults>>
      BY <3>1, <1>h
    <3>2. CASE Fail /\ excuse' = excuse \cup {"unstored"}
      <4>1. faults' \in 0 .. MaxFaults
        BY <3>2, <1>h DEF Fail
      <4>. QED
        BY <3>2, <4>1, <1>h
    <3>. QED
      BY <1>8, <3>1, <3>2 DEF Complete
  <2>. QED
    BY <1>8, <2>2, <2>3, <2>4 DEF Complete, TypeOK
<1>9. ASSUME NEW r \in Requests, Abort(r) PROVE TypeOK'
  <2>1. req' \in [Requests -> Request]
    BY <1>9, <1>0, ReplyReads, "failed" \in Answer DEF Abort, Answer
  <2>2. row' \in Row /\ (row'.status # "progress" => row'.by = {})
    <3>1. CASE row' = Aborted
      BY <3>1, <1>0 DEF Aborted, NoRow, Row, TypeOK
    <3>2. CASE row' = IF row.by = {r} THEN Left ELSE row
      BY <3>2, LeftReads DEF TypeOK
    <3>. QED
      BY <1>9, <3>1, <3>2 DEF Abort
  <2>. QED
    BY <1>9, <2>1, <2>2 DEF Abort, Fail, TypeOK
<1>10. ASSUME NEW r \in Requests, Overrun(r) PROVE TypeOK'
  <2>1. req' \in [Requests -> Request]
    BY <1>10, Zenon DEF Overrun, TypeOK, Request
  <2>2. row' \in Row /\ (row'.status # "progress" => row'.by = {})
    BY <1>10, Zenon DEF Overrun, Row, TypeOK
  <2>. QED
    BY <1>10, <2>1, <2>2 DEF Overrun, Fail, TypeOK
<1>11. ASSUME NEW r \in Requests, Crash(r) PROVE TypeOK'
  <2>1. req[r].response \in Response /\ req[r].answer \in Answer
    BY DEF TypeOK, Request
  <2>2. req' \in [Requests -> Request]
    BY <1>11, <2>1, ReplyReads DEF Crash
  <2>3. row' \in Row /\ (row'.status # "progress" => row'.by = {})
    BY <1>11 DEF Crash, Left, Row, TypeOK
  <2>. QED
    BY <1>11, <2>2, <2>3 DEF Crash, Fail, TypeOK
<1>12. CASE Expire
  <2>1. row' \in Row /\ (row'.status # "progress" => row'.by = {})
    BY <1>12, Zenon DEF Expire, Row, TypeOK
  <2>. QED
    BY <1>12, <2>1 DEF Expire, TypeOK
<1>13. CASE PurgeExpired
  BY <1>13, <1>0 DEF PurgeExpired, NoRow, Row, TypeOK
<1>14. CASE UNCHANGED vars
  BY <1>14 DEF vars, TypeOK
<1>. QED
  BY <1>1, <1>2, <1>3, <1>4, <1>5, <1>6, <1>7, <1>8, <1>9, <1>10, <1>11, <1>12, <1>13, <1>14 DEF Next, Serve

(* The lock and the stored response are accounted for: each step of a request   *)
(* that ends its work also gives up the lock it holds.                           *)
LEMMA AccountStep ==
  ASSUME IdempotencyAssumption, TypeOK, TypeOK', RowIsAccountable, OneHolder, NamesCreated, [Next]_vars
  PROVE  RowIsAccountable' /\ OneHolder' /\ NamesCreated'
<1>. USE DEF RowIsAccountable, OneHolder, NamesCreated
<1>0. None \in Response
  BY DEF None, Response, IdempotencyAssumption
<1>r. /\ req \in [Requests -> Request] /\ created \in Nat
      /\ row.by \subseteq Requests /\ row.status \in {"none", "progress", "complete"}
      /\ row.status # "progress" => row.by = {}
  BY DEF TypeOK, Row
<1>1. ASSUME NEW r \in Requests, Send(r) PROVE RowIsAccountable' /\ OneHolder' /\ NamesCreated'
  <2>1. req'[r].pc = "claim" /\ \A q \in Requests \ {r} : req'[q] = req[q]
    BY <1>1, <1>r DEF Send, NoRequest
  <2>. QED
    BY <1>1, <1>r, <2>1 DEF Send
<1>2. ASSUME NEW r \in Requests, BeginWins(r) PROVE RowIsAccountable' /\ OneHolder' /\ NamesCreated'
  <2>1. req'[r].pc = "handling" /\ \A q \in Requests \ {r} : req'[q] = req[q]
    BY <1>2, <1>r DEF BeginWins, Request
  <2>2. row'.by = {r} /\ row'.status = "progress" /\ created' = created
    BY <1>2 DEF BeginWins, InProgress
  <2>. QED
    BY <1>r, <2>1, <2>2
<1>3. ASSUME NEW r \in Requests, BeginLoses(r) PROVE RowIsAccountable' /\ OneHolder' /\ NamesCreated'
  <2>1. req'[r].pc = "lookup" /\ \A q \in Requests \ {r} : req'[q] = req[q]
    BY <1>3, <1>r DEF BeginLoses, To, Request
  <2>. QED
    BY <1>3, <1>r, <2>1 DEF BeginLoses
<1>4. ASSUME NEW r \in Requests, BeginFails(r) PROVE RowIsAccountable' /\ OneHolder' /\ NamesCreated'
  <2>1. req'[r].pc = "idle" /\ \A q \in Requests \ {r} : req'[q] = req[q]
    BY <1>4, <1>0, ReplyReads, "error" \in Answer DEF BeginFails, Answer
  <2>. QED
    BY <1>4, <1>r, <2>1 DEF BeginFails
<1>5. ASSUME NEW r \in Requests, Lookup(r) PROVE RowIsAccountable' /\ OneHolder' /\ NamesCreated'
  <2>1. req'[r].pc = "idle" /\ \A q \in Requests \ {r} : req'[q] = req[q]
    BY <1>5, <1>r, LookupReplies
  <2>. QED
    BY <1>5, <1>r, <2>1 DEF Lookup
<1>6. ASSUME NEW r \in Requests, HandlerSucceeds(r) PROVE RowIsAccountable' /\ OneHolder' /\ NamesCreated'
  <2>1. /\ req'[r].pc = "completing" /\ req'[r].response = created + 1
        /\ \A q \in Requests \ {r} : req'[q] = req[q]
    BY <1>6, <1>r DEF HandlerSucceeds, Request
  <2>. QED
    BY <1>6, <1>r, <2>1 DEF HandlerSucceeds
<1>7. ASSUME NEW r \in Requests, HandlerFails(r) PROVE RowIsAccountable' /\ OneHolder' /\ NamesCreated'
  <2>1. req'[r].pc = "aborting" /\ \A q \in Requests \ {r} : req'[q] = req[q]
    BY <1>7, <1>r DEF HandlerFails, To, Request
  <2>2. row' = row /\ created' \in Nat /\ created <= created'
    BY <1>7, <1>r DEF HandlerFails
  <2>. QED
    BY <1>r, <2>1, <2>2
<1>8. ASSUME NEW r \in Requests, Complete(r) PROVE RowIsAccountable' /\ OneHolder' /\ NamesCreated'
  <2>1. req'[r].pc = "idle" /\ \A q \in Requests \ {r} : req'[q] = req[q]
    BY <1>8, <1>r, ReplyReads, "fresh" \in Answer DEF Complete, Answer, Request
  <2>2. created' = created /\ req[r].response \in 1 .. created
    BY <1>8 DEF Complete
  <2>3. CASE row' = Completed(req[r].response)
    BY <1>r, <2>1, <2>2, <2>3 DEF Completed
  <2>4. CASE row' = IF row.by = {r} THEN Left ELSE row
    BY <1>r, <2>1, <2>2, <2>4, LeftReads
  <2>. QED
    BY <1>8, <2>3, <2>4 DEF Complete
<1>9. ASSUME NEW r \in Requests, Abort(r) PROVE RowIsAccountable' /\ OneHolder' /\ NamesCreated'
  <2>1. req'[r].pc = "idle" /\ \A q \in Requests \ {r} : req'[q] = req[q]
    BY <1>9, <1>0, ReplyReads, "failed" \in Answer DEF Abort, Answer
  <2>2. created' = created
    BY <1>9 DEF Abort
  <2>3. CASE row' = Aborted
    BY <1>r, <2>1, <2>2, <2>3 DEF Aborted, NoRow
  <2>4. CASE row' = IF row.by = {r} THEN Left ELSE row
    BY <1>r, <2>1, <2>2, <2>4, LeftReads
  <2>. QED
    BY <1>9, <2>3, <2>4 DEF Abort
<1>10. ASSUME NEW r \in Requests, Overrun(r) PROVE RowIsAccountable' /\ OneHolder' /\ NamesCreated'
  <2>1. \A q \in Requests : req'[q].pc = req[q].pc /\ req'[q].response = req[q].response
    BY <1>10, <1>r DEF Overrun, Request
  <2>2. row'.by = row.by /\ row'.status = row.status /\ row'.response = row.response
    BY <1>10 DEF Overrun, TypeOK, Row
  <2>. QED
    BY <1>10, <1>r, <2>1, <2>2 DEF Overrun
<1>11. ASSUME NEW r \in Requests, Crash(r) PROVE RowIsAccountable' /\ OneHolder' /\ NamesCreated'
  <2>1. req'[r].pc = "idle" /\ \A q \in Requests \ {r} : req'[q] = req[q]
    BY <1>11, <1>r, ReplyReads DEF Crash, Request
  <2>2. created' = created /\ row' = IF row.by = {r} THEN Left ELSE row
    BY <1>11 DEF Crash
  <2>. QED
    BY <1>r, <2>1, <2>2, LeftReads
<1>12. CASE Expire
  <2>1. row'.by = row.by /\ row'.status = row.status /\ row'.response = row.response
    BY <1>12 DEF Expire, TypeOK, Row
  <2>. QED
    BY <1>12, <2>1 DEF Expire
<1>13. CASE PurgeExpired
  BY <1>13 DEF PurgeExpired, NoRow
<1>14. CASE UNCHANGED vars
  <2>1. row' = row /\ req' = req /\ created' = created /\ excuse' = excuse /\ overlap' = overlap
    BY <1>14 DEF vars
  <2>2. RowIsAccountable' BY <2>1
  <2>3. OneHolder' BY <2>1
  <2>4. NamesCreated' BY <2>1, ZenonT(30)
  <2>. QED
    BY <2>2, <2>3, <2>4
<1>. QED
  BY <1>1, <1>2, <1>3, <1>4, <1>5, <1>6, <1>7, <1>8, <1>9, <1>10, <1>11, <1>12, <1>13, <1>14 DEF Next, Serve

(* While no exception has been noted, every step keeps the one message and the    *)
(* one answer.  An exception once noted is never forgotten.                        *)
LEMMA UndisturbedStep ==
  ASSUME IdempotencyAssumption, KeyInv, TypeOK', [Next]_vars
  PROVE  (excuse = {} => Undisturbed)'
<1>. SUFFICES ASSUME excuse' = {}
              PROVE  Undisturbed'
  OBVIOUS
<1>e. excuse = {}
  BY Zenon DEF Next, Serve, Send, BeginWins, BeginLoses, BeginFails, Lookup, HandlerSucceeds,
         HandlerFails, Complete, Abort, Overrun, Crash, Expire, PurgeExpired, vars
<1>u. Undisturbed /\ OneHolder /\ NamesCreated
  BY <1>e DEF KeyInv
<1>. USE DEF Undisturbed, HolderWorks, NothingYet, FirstStored, Working
<1>0. None \in Response
  BY DEF None, Response, IdempotencyAssumption
<1>t. TypeOK
  BY DEF KeyInv
<1>r. /\ req \in [Requests -> Request] /\ created \in Nat
      /\ row.by \subseteq Requests /\ row.status \in {"none", "progress", "complete"}
      /\ row.status # "progress" => row.by = {}
  BY <1>t DEF TypeOK, Row
<1>1. ASSUME NEW r \in Requests, Send(r) PROVE Undisturbed'
  <2>1. /\ req'[r].pc = "claim" /\ req'[r].answer = "none"
        /\ \A q \in Requests \ {r} : req'[q] = req[q]
    BY <1>1, <1>r DEF Send, NoRequest
  <2>2. req[r].pc = "idle" /\ row' = row /\ created' = created
    BY <1>1 DEF Send
  <2>. QED
    BY <1>u, <1>r, <2>1, <2>2
<1>2. ASSUME NEW r \in Requests, BeginWins(r) PROVE Undisturbed'
  <2>1. /\ req'[r].pc = "handling" /\ req'[r].answer = req[r].answer /\ req'[r].response = req[r].response
        /\ \A q \in Requests \ {r} : req'[q] = req[q]
    BY <1>2, <1>r DEF BeginWins, Request
  <2>2. row'.by = {r} /\ row'.status = "progress" /\ ~row'.expired /\ created' = created
    BY <1>2 DEF BeginWins, InProgress
  <2>3. row.status = "none" \/ row.expired
    BY <1>2 DEF BeginWins, Free
  <2>4. (\A q \in Requests : ~Working(q)) /\ row.status # "complete" /\ created = 0
    BY <1>u, <2>3, <1>r
  <2>. QED
    BY <1>u, <1>r, <2>1, <2>2, <2>4
<1>3. ASSUME NEW r \in Requests, BeginLoses(r) PROVE Undisturbed'
  <2>1. /\ req'[r].pc = "lookup" /\ req'[r].answer = req[r].answer /\ req'[r].response = req[r].response
        /\ \A q \in Requests \ {r} : req'[q] = req[q]
    BY <1>3, <1>r DEF BeginLoses, To, Request
  <2>2. req[r].pc = "claim" /\ row' = row /\ created' = created
    BY <1>3 DEF BeginLoses
  <2>. QED
    BY <1>u, <1>r, <2>1, <2>2
<1>4. ASSUME NEW r \in Requests, BeginFails(r) PROVE Undisturbed'
  <2>1. /\ req'[r].pc = "idle" /\ req'[r].answer = "error"
        /\ \A q \in Requests \ {r} : req'[q] = req[q]
    BY <1>4, <1>0, <1>t, ReplyReads, "error" \in Answer DEF BeginFails, Answer
  <2>2. req[r].pc \in {"claim", "lookup"} /\ row' = row /\ created' = created
    BY <1>4 DEF BeginFails
  <2>. QED
    BY <1>u, <1>r, <2>1, <2>2
<1>5. ASSUME NEW r \in Requests, Lookup(r) PROVE Undisturbed'
  <2>1. /\ req'[r].pc = "idle" /\ req'[r].answer # "fresh"
        /\ req'[r].answer = "replay" => row.status = "complete" /\ req'[r].response = row.response
        /\ \A q \in Requests \ {r} : req'[q] = req[q]
    BY <1>5, <1>t, LookupReplies
  <2>2. req[r].pc = "lookup" /\ row' = row /\ created' = created
    BY <1>5 DEF Lookup
  <2>. QED
    BY <1>u, <1>r, <2>1, <2>2
<1>6. ASSUME NEW r \in Requests, HandlerSucceeds(r) PROVE Undisturbed'
  <2>1. /\ req'[r].pc = "completing" /\ req'[r].answer = "fresh" /\ req'[r].response = created + 1
        /\ \A q \in Requests \ {r} : req'[q] = req[q]
    BY <1>6, <1>r DEF HandlerSucceeds, Request
  <2>2. req[r].pc = "handling" /\ row' = row /\ created' = created + 1
    BY <1>6 DEF HandlerSucceeds
  <2>3. created = 0 /\ row.status = "progress" /\ row.by = {r} /\ ~row.expired
    BY <1>u, <2>2
  <2>4. \A q \in Requests \ {r} : ~Working(q)
    BY <1>u, <2>3
  <2>. QED
    BY <1>u, <1>r, <2>1, <2>2, <2>3, <2>4
<1>7. ASSUME NEW r \in Requests, HandlerFails(r) PROVE Undisturbed'
  <2>1. /\ req'[r].pc = "aborting" /\ req'[r].answer = req[r].answer /\ req'[r].response = req[r].response
        /\ \A q \in Requests \ {r} : req'[q] = req[q]
    BY <1>7, <1>r DEF HandlerFails, To, Request
  <2>2. req[r].pc = "handling" /\ row' = row /\ created' = created
    BY <1>7, <1>e DEF HandlerFails
  <2>. QED
    BY <1>u, <1>r, <2>1, <2>2
<1>8. ASSUME NEW r \in Requests, Complete(r) PROVE Undisturbed'
  <2>1. /\ req'[r].pc = "idle" /\ req'[r].answer = "fresh" /\ req'[r].response = req[r].response
        /\ \A q \in Requests \ {r} : req'[q] = req[q]
    BY <1>8, <1>r, <1>t, ReplyReads, "fresh" \in Answer DEF Complete, Answer, Request
  <2>2. req[r].pc = "completing" /\ created' = created /\ row' = Completed(req[r].response)
    BY <1>8, <1>e DEF Complete
  <2>3. /\ row.status = "progress" /\ row.by = {r} /\ req[r].response \in 1 .. created
        /\ \A q \in Requests \ {r} : ~Working(q)
    BY <1>u, <2>2 DEF NamesCreated
  <2>4. created = 1 /\ req[r].response = 1
    BY <1>u, <1>r, <2>3
  <2>5. row'.status = "complete" /\ row'.response = 1 /\ ~row'.expired
    BY <2>2, <2>3, <2>4 DEF Completed
  <2>. QED
    BY <1>u, <1>r, <2>1, <2>2, <2>3, <2>4, <2>5
<1>9. ASSUME NEW r \in Requests, Abort(r) PROVE Undisturbed'
  <2>1. /\ req'[r].pc = "idle" /\ req'[r].answer = "failed"
        /\ \A q \in Requests \ {r} : req'[q] = req[q]
    BY <1>9, <1>0, <1>t, ReplyReads, "failed" \in Answer DEF Abort, Answer
  <2>2. req[r].pc = "aborting" /\ created' = created
    BY <1>9 DEF Abort
  <2>3. created = 0 /\ row.status = "progress" /\ row.by = {r} /\ \A q \in Requests \ {r} : ~Working(q)
    BY <1>u, <2>2
  <2>4. row'.status # "complete"
    BY <1>9, <1>t, <2>3, LeftReads DEF Abort, Aborted, NoRow
  <2>. QED
    BY <1>u, <1>r, <2>1, <2>2, <2>3, <2>4
<1>10. ASSUME NEW r \in Requests, Overrun(r) PROVE Undisturbed'
  BY <1>10 DEF Overrun
<1>11. ASSUME NEW r \in Requests, Crash(r) PROVE Undisturbed'
  BY <1>11 DEF Crash
<1>12. CASE Expire
  <2>1. /\ row.by = {} /\ row.status # "complete" /\ row'.status = row.status
        /\ req' = req /\ created' = created
    BY <1>12, <1>e, <1>t DEF Expire, TypeOK, Row
  <2>2. \A q \in Requests : ~Working(q)
    BY <1>u, <2>1
  <2>. QED
    BY <1>u, <2>1, <2>2
<1>13. CASE PurgeExpired
  <2>1. row.expired /\ row'.status = "none" /\ req' = req /\ created' = created
    BY <1>13 DEF PurgeExpired, NoRow
  <2>2. (\A q \in Requests : ~Working(q)) /\ row.status # "complete"
    BY <1>u, <2>1
  <2>. QED
    BY <1>u, <2>1, <2>2
<1>14. CASE UNCHANGED vars
  BY <1>14, <1>u DEF vars
<1>. QED
  BY <1>1, <1>2, <1>3, <1>4, <1>5, <1>6, <1>7, <1>8, <1>9, <1>10, <1>11, <1>12, <1>13, <1>14 DEF Next, Serve

(* The invariant behind the theorem holds at the start and is kept by every step. *)
LEMMA KeyInvHolds ==
  ASSUME IdempotencyAssumption
  PROVE  Spec => []KeyInv
<1>1. Init => KeyInv
  <2>. SUFFICES ASSUME Init PROVE KeyInv
    OBVIOUS
  <2>0. NoRow \in Row
    BY DEF NoRow, Row, Response, None, IdempotencyAssumption
  <2>1. TypeOK
    <3>1. req \in [Requests -> Request]
      BY NoRequestIsOne DEF Init
    <3>2. row \in Row /\ row.by = {}
      BY <2>0 DEF Init, NoRow
    <3>3. overlap \in BOOLEAN
      BY Zenon DEF Init
    <3>4. created \in 0 .. MaxMessages /\ faults \in 0 .. MaxFaults /\ excuse = {}
      BY DEF Init, IdempotencyAssumption
    <3>. QED
      BY <3>1, <3>2, <3>3, <3>4 DEF TypeOK
  <2>2. \A r \in Requests : req[r].pc = "idle" /\ req[r].answer = "none"
    BY DEF Init, NoRequest
  <2>. QED
    BY <2>1, <2>2 DEF Init, KeyInv, RowIsAccountable, OneHolder, NamesCreated, Undisturbed,
                      HolderWorks, NothingYet, FirstStored, Working, NoRow
<1>2. KeyInv /\ [Next]_vars => KeyInv'
  BY KeyTypeStep, AccountStep, UndisturbedStep DEF KeyInv
<1>. QED
  BY <1>1, <1>2, PTL DEF Spec

(* KeysAnswerOnce, for every number of requests, messages and faults: duplicates  *)
(* of a request create one message and are answered with the first handler's      *)
(* response unless one of the listed exceptions happened, and a stored response    *)
(* names a message that exists (the idempotency middleware, Begin, Complete,       *)
(* Abort).                                                                         *)
THEOREM KeysAnswerOnceAlways ==
  ASSUME IdempotencyAssumption
  PROVE  Spec => []KeysAnswerOnce
<1>1. KeyInv => KeysAnswerOnce
  BY DEF KeyInv, KeysAnswerOnce, OneMessage, OriginalAnswer, Undisturbed
<1>. QED
  BY <1>1, KeyInvHolds, PTL
=============================================================================
