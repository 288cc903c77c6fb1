---------------------------- MODULE Idempotency ----------------------------
(***************************************************************************)
(* POST requests that carry the same Idempotency-Key: the middleware         *)
(* (middleware/idempotency.go) around a handler, the row of the key          *)
(* (idempotency_repo.go), its expiry and the purge.  Rows of different keys  *)
(* never touch each other, so there is one key.  A request name is used      *)
(* again after its answer: clients retry for ever.                          *)
(***************************************************************************)
EXTENDS Integers, FiniteSets

CONSTANTS Requests,
          MaxMessages,   \* how many messages the handlers may create
          MaxFaults      \* crashes, failed statements and handlers that outlive the lock

IdempotencyAssumption == MaxMessages \in Nat \ {0} /\ MaxFaults \in Nat

VARIABLES row,       \* the idempotency_key row
          req,       \* the requests
          created,   \* the messages created so far, 1 .. created
          excuse,    \* history: why a second message may exist
          overlap,   \* history: a handler began while another held a valid lock
          faults
vars == <<row, req, created, excuse, overlap, faults>>

None == 0
Response == 0 .. MaxMessages     \* the body names the message
NoRow == [status |-> "none", expired |-> FALSE, response |-> None, by |-> {}]
Row == [status : {"none", "progress", "complete"}, expired : BOOLEAN, response : Response,
        by : SUBSET Requests]    \* by is history: who holds the lock

(* claim and lookup are the two statements of Begin; handling is next(c);
   the rest are the writes after it.  answer is what the client has got; valid
   is history: LockTTL has not passed since this request won. *)
Phase == {"idle", "claim", "lookup", "handling", "completing", "aborting"}
Answer == {"none", "fresh", "replay", "conflict", "error", "failed"}
Request == [pc : Phase, answer : Answer, response : Response, valid : BOOLEAN]
NoRequest == [pc |-> "idle", answer |-> "none", response |-> None, valid |-> FALSE]

TypeOK ==
    /\ row \in Row /\ (row.status # "progress" => row.by = {})
    /\ req \in [Requests -> Request]
    /\ created \in 0 .. MaxMessages
    /\ excuse \subseteq {"slow", "crash", "unstored", "outdated", "unsure"}
    /\ overlap \in BOOLEAN /\ faults \in 0 .. MaxFaults

Init ==
    /\ row = NoRow
    /\ req = [r \in Requests |-> NoRequest]
    /\ created = 0 /\ excuse = {} /\ overlap = FALSE /\ faults = 0

Fail == faults < MaxFaults /\ faults' = faults + 1
To(r, pc) == req' = [req EXCEPT ![r].pc = pc]
Reply(r, a, m) == req' = [req EXCEPT ![r] = [NoRequest EXCEPT !.answer = a, !.response = m]]

Send(r) ==
    /\ req[r].pc = "idle"
    /\ req' = [req EXCEPT ![r] = [NoRequest EXCEPT !.pc = "claim"]]
    /\ UNCHANGED <<row, created, excuse, overlap, faults>>

-----------------------------------------------------------------------------
(* IdempotencyRepo                                                          *)

(* A mutant: ON CONFLICT DO NOTHING, so only the purge frees a key. *)
FreeIfAbsent == row.status = "none"

(* A mutant: a lock is always taken over. *)
FreeUnlessComplete == row.status # "complete"

(* INSERT ... ON CONFLICT DO UPDATE WHERE expires_at < now() *)
Free == row.status = "none" \/ row.expired

InProgress(r) == [status |-> "progress", expired |-> FALSE, response |-> None, by |-> {r}]

(* A mutant: the response column is not written. *)
CompletedEmpty(m) == IF row.status = "none" THEN row
                     ELSE [status |-> "complete", expired |-> FALSE, response |-> None, by |-> {}]

(* UPDATE ... WHERE key: whoever holds the lock; ErrNotFound is only logged. *)
Completed(m) == IF row.status = "none" THEN row
                ELSE [status |-> "complete", expired |-> FALSE, response |-> m, by |-> {}]

(* A mutant: the failed request keeps its lock. *)
AbortedNever == row

(* DELETE ... WHERE key AND status = in progress: whoever holds the lock. *)
Aborted == IF row.status = "progress" THEN NoRow ELSE row

-----------------------------------------------------------------------------
(* The middleware.                                                          *)

BeginWins(r) ==
    /\ req[r].pc = "claim" /\ Free
    /\ row' = InProgress(r)
    /\ overlap' = (overlap \/ \E q \in Requests : req[q].valid)
    /\ req' = [req EXCEPT ![r].pc = "handling", ![r].valid = TRUE]
    /\ UNCHANGED <<created, excuse, faults>>

BeginLoses(r) ==
    /\ req[r].pc = "claim" /\ ~Free
    /\ To(r, "lookup")
    /\ UNCHANGED <<row, created, excuse, overlap, faults>>

(* A claim that took effect although its answer was lost leaves the row of a
   request that crashed just after the claim. *)
BeginFails(r) ==
    /\ req[r].pc \in {"claim", "lookup"} /\ Fail
    /\ Reply(r, "error", None)
    /\ UNCHANGED <<row, created, excuse, overlap>>

(* replay; a row that has gone since the claim is an error of Begin. *)
Lookup(r) ==
    /\ req[r].pc = "lookup"
    /\ CASE row.status = "none" -> Reply(r, "error", None)
         [] row.status = "progress" -> Reply(r, "conflict", None)
         [] row.status = "complete" -> Reply(r, "replay", row.response)
    /\ UNCHANGED <<row, created, excuse, overlap, faults>>

(* The handler: the message is committed, and the recorder passes the response
   on to the client at once. *)
HandlerSucceeds(r) ==
    /\ req[r].pc = "handling" /\ created < MaxMessages
    /\ created' = created + 1
    /\ req' = [req EXCEPT ![r].pc = "completing", ![r].answer = "fresh", ![r].response = created + 1]
    /\ UNCHANGED <<row, excuse, overlap, faults>>

(* It returns an error or writes a 5xx; the commit may have happened even so. *)
HandlerFails(r) ==
    /\ req[r].pc = "handling"
    /\ To(r, "aborting")
    /\ \/ UNCHANGED <<created, excuse, faults>>
       \/ /\ Fail /\ created < MaxMessages
          /\ created' = created + 1 /\ excuse' = excuse \cup {"unsure"}
    /\ UNCHANGED <<row, overlap>>

Left == IF row.status = "progress" THEN [row EXCEPT !.by = {}] ELSE row

Complete(r) ==
    /\ req[r].pc = "completing"
    /\ Reply(r, "fresh", req[r].response)
    /\ \/ row' = Completed(req[r].response) /\ UNCHANGED <<excuse, faults>>
       \/ Fail /\ row' = (IF row.by = {r} THEN Left ELSE row) /\ excuse' = excuse \cup {"unstored"}
    /\ UNCHANGED <<created, overlap>>

Abort(r) ==
    /\ req[r].pc = "aborting"
    /\ Reply(r, "failed", None)
    /\ \/ row' = Aborted /\ UNCHANGED faults
       \/ Fail /\ row' = (IF row.by = {r} THEN Left ELSE row)
    /\ UNCHANGED <<created, excuse, overlap>>

-----------------------------------------------------------------------------
(* Time, crashes and the purge.                                             *)

(* The handler, or one of the writes after it, takes longer than LockTTL. *)
Overrun(r) ==
    /\ req[r].valid /\ Fail
    /\ req' = [req EXCEPT ![r].valid = FALSE]
    /\ row' = IF row.by = {r} THEN [row EXCEPT !.expired = TRUE] ELSE row
    /\ excuse' = excuse \cup {"slow"}
    /\ UNCHANGED <<created, overlap>>

Crash(r) ==
    /\ req[r].pc \in {"handling", "completing", "aborting"} /\ Fail
    /\ row' = IF row.by = {r} THEN Left ELSE row
    /\ Reply(r, req[r].answer, req[r].response)
    /\ excuse' = excuse \cup {"crash"}
    /\ UNCHANGED <<created, overlap>>

(* A lock nobody will release, or a response past its ResponseTTL. *)
Expire ==
    /\ row.status # "none" /\ row.by = {} /\ ~row.expired
    /\ row' = [row EXCEPT !.expired = TRUE]
    /\ excuse' = IF row.status = "complete" THEN excuse \cup {"outdated"} ELSE excuse
    /\ UNCHANGED <<req, created, overlap, faults>>

PurgeExpired ==
    /\ row.expired /\ row' = NoRow
    /\ UNCHANGED <<req, created, excuse, overlap, faults>>

Serve(r) == \/ BeginWins(r) \/ BeginLoses(r) \/ Lookup(r)
            \/ HandlerSucceeds(r) \/ HandlerFails(r) \/ Complete(r) \/ Abort(r)

Next ==
    \/ \E r \in Requests : Send(r) \/ Serve(r) \/ BeginFails(r) \/ Overrun(r) \/ Crash(r)
    \/ Expire \/ PurgeExpired

Spec == Init /\ [][Next]_vars

(* Clients keep retrying, requests are served, and time passes.  The purge is
   the maintenance leader's and is not relied on. *)
FairSpec ==
    /\ Spec /\ WF_vars(Expire)
    /\ \A r \in Requests : WF_vars(Send(r)) /\ WF_vars(Serve(r))

-----------------------------------------------------------------------------
(* Properties.                                                              *)

(* However many duplicates arrive, and however they interleave with the
   statements of the first, there is one message; except after a handler that
   outlived its lock, a crash, a response that was not stored or is past its
   TTL, or a commit that was reported as an error (idempotency.go:55-83). *)
OneMessage == excuse = {} => created <= 1

(* Under the same exceptions every client that gets an answer gets the original
   one: the first handler's response, first-hand or replayed. *)
OriginalAnswer ==
    excuse = {} => \A r \in Requests :
        req[r].answer \in {"fresh", "replay"} => req[r].response = 1

(* A row that replays a response was completed by the handler that created the
   message it names, and a lock held for a request is that of a request at work. *)
RowIsAccountable ==
    /\ row.status = "complete" => row.response \in 1 .. created
    /\ \A r \in row.by : req[r].pc \in {"handling", "completing", "aborting"}

(* What a client may rely on when it repeats a request under one key. *)
KeysAnswerOnce == TypeOK /\ OneMessage /\ OriginalAnswer /\ RowIsAccountable

(* A key is never blocked for good: clients that retry are handled or answered
   again and again, whatever crashed holding the lock (idempotency.go:26-27),
   without the help of the purge. *)
KeyIsNotWedged ==
    []<>(\E r \in Requests : req[r].pc = "handling" \/ req[r].answer = "replay")

(* 00001_initial_schema.sql:283: "a retried POST /msg must not create a second
   message"; responses past their TTL are left out. *)
NoSecondMessage == "outdated" \in excuse \/ created <= 1

(* idempotency.go (entities) 10-11: an in-progress row "makes two concurrent
   duplicates safe: the second gets a 409 rather than a second message": no
   handler starts within the LockTTL of another that still runs. *)
LockIsExclusive == ~overlap

(* idempotency_repo.go:51: after a lost claim "a live record already exists:
   complete rows replay their response, and in-progress ones produce a 409". *)
LoserFindsRecord ==
    faults = 0 => \A r \in Requests : req[r].answer # "error"
=============================================================================
