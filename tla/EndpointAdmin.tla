---------------------------- MODULE EndpointAdmin -----------------------------
(* Administration of one endpoint by concurrent requests, and the keys and     *)
(* headers its deliveries carry (endpoint_usecase.go, endpoint_repo.go,        *)
(* signing/signer.go, Engine.buildHeaders).                                    *)
(*                                                                             *)
(* Each request reads the row, changes its copy and writes columns back with   *)
(* one statement; the requests of several clients interleave between the two.  *)
(* An update that also switches the endpoint does so with a second statement.  *)
(* The url stands for every column that UpdateEndpoint writes apart from the   *)
(* headers.  What the switch does to the failure run is in EndpointHealth.     *)
(*                                                                             *)
(* A statement that took effect counts, whatever its caller is told: the       *)
(* answer may be lost, or a later statement of the request may fail.           *)
EXTENDS Integers, FiniteSets

CONSTANTS
  Clients,
  Secrets,     \* secrets in the order they may be installed, as numbers
  Generated,   \* the ones GenerateSecret made; the others are supplied and well formed
  SecretType,  \* "hmac-sha256" or "ed25519"
  Urls,
  Flags,       \* values of the disabled flag that clients send
  Names,       \* custom header names
  Spellings,   \* spellings of a name that differ in case
  Overlap,     \* SecretRotationOverlap, in ticks
  MaxTime, MaxOps

AdminAssumption ==
  /\ Secrets \subseteq Nat \ {0} /\ Generated \subseteq Secrets /\ 1 \in Secrets
  /\ SecretType \in {"hmac-sha256", "ed25519"}
  /\ Urls # {} /\ Flags \subseteq BOOLEAN /\ Overlap \in Nat \ {0} /\ {MaxTime, MaxOps} \subseteq Nat

VARIABLES
  now,
  row,       \* the endpoint row
  req,       \* per client: the request in progress
  snap,      \* the keys and headers in a worker's snapshot
  ops,       \* requests begun
  acked,     \* history: secrets returned to a caller
  retired,   \* history: the time of the rotation that replaced a secret, or -1
  intended,  \* history: url, headers and flag as each statement was to change them
  raced      \* history: a request wrote back a column that was no longer as it read it

vars == <<now, row, req, snap, ops, acked, retired, intended, raced>>

\* The names that encodeCustomHeaders accepts; values are left out.
Header == Names \X Spellings
Ops == {"update", "patch", "rotate", "switch"}
Row == [deleted: BOOLEAN, url: Urls, headers: SUBSET Header, disabled: BOOLEAN, secret: Secrets,
        old: SUBSET [s: Secrets, until: Nat]]
\* again: a step of the request before its write is still to come; switch: the
\* value of the disabled flag, if one is given; at: the time a rotation took.
Idle == [op |-> "none", again |-> FALSE, url |-> CHOOSE u \in Urls : TRUE, switch |-> {},
         add |-> {}, drop |-> {}, secret |-> 0, at |-> 0]
NoSnap == [keys |-> {}, headers |-> {}, acked |-> {}]

(* One type invariant. *)
TypeOK ==
  /\ now \in 0..MaxTime /\ row \in Row /\ ops \in 0..MaxOps /\ raced \in BOOLEAN
  /\ DOMAIN req = Clients /\ \A c \in Clients : req[c].r.op \in Ops \cup {"none"} /\ req[c].copy \in Row
  /\ snap.keys \subseteq Secrets /\ snap.acked \subseteq acked /\ acked \subseteq Secrets
  /\ retired \in [Secrets -> -1..MaxTime]
  /\ intended.url \in Urls /\ intended.headers \subseteq Header /\ intended.disabled \in BOOLEAN

\* CreateEndpoint: the first secret is generated or supplied, headers may be given.
Init ==
  /\ now = 0 /\ ops = 0 /\ raced = FALSE
  /\ \E u \in Urls, H \in SUBSET Header :
       /\ row = [deleted |-> FALSE, url |-> u, headers |-> H, disabled |-> FALSE, secret |-> 1, old |-> {}]
       /\ intended = [url |-> u, headers |-> H, disabled |-> FALSE]
  /\ req = [c \in Clients |-> [r |-> Idle, copy |-> row]]
  /\ snap = NoSnap
  /\ acked = {1} /\ retired = [s \in Secrets |-> -1]

-------------------------------------------------------------------------------
Tick == now < MaxTime /\ now' = now + 1
        /\ UNCHANGED <<row, req, snap, ops, acked, retired, intended, raced>>

\* The repository's filters leave deleted rows out.
Found == ~row.deleted

\* A generated secret is new, and its name is the next one; a supplied one may be
\* tried again until its caller has been told that it is installed.
InUse(s) == s \in acked \cup {row.secret} \/ retired[s] # -1 \/ \E d \in Clients : req[d].r.secret = s
MayInstall(s) ==
  /\ s \notin acked /\ \A d \in Clients : req[d].r.secret # s
  /\ s \in Generated => ~InUse(s) /\ \A g \in Generated : g < s => InUse(g)

\* GetEndpoint, by id or uid; a request for a row that is not found ends there.
Begin(c, r) ==
  /\ req[c].r.op = "none" /\ ops < MaxOps /\ Found
  /\ r.op = "rotate" => MayInstall(r.secret)
  /\ ops' = ops + 1
  /\ req' = [req EXCEPT ![c] = [r |-> r, copy |-> row]]
  /\ UNCHANGED <<now, row, snap, acked, retired, intended, raced>>
Updates == {[Idle EXCEPT !.op = "update", !.url = u, !.switch = v] :
              u \in Urls, v \in {{}} \cup {{f} : f \in Flags}}
Patches == UNION {{[Idle EXCEPT !.op = "patch", !.again = TRUE, !.add = {h}],
                   [Idle EXCEPT !.op = "patch", !.again = TRUE, !.drop = {h}]} : h \in Header}
Rotations == {[Idle EXCEPT !.op = "rotate", !.again = TRUE, !.secret = s] : s \in Secrets}
Switches == {[Idle EXCEPT !.op = "switch", !.switch = {f}] : f \in Flags}
Requests == Updates \cup Patches \cup Rotations \cup Switches

\* PatchHeaders reads the row a second time for the headers.
GetHeaders(c) ==
  /\ req[c].r.op = "patch" /\ req[c].r.again /\ Found
  /\ req' = [req EXCEPT ![c].r.again = FALSE, ![c].copy.headers = row.headers]
  /\ UNCHANGED <<now, row, snap, ops, acked, retired, intended, raced>>

\* RotateSecret has sealed the new secret and takes the time.
Stamp(c) ==
  /\ req[c].r.op = "rotate" /\ req[c].r.again
  /\ req' = [req EXCEPT ![c].r.again = FALSE, ![c].r.at = now]
  /\ UNCHANGED <<now, row, snap, ops, acked, retired, intended, raced>>

\* A request ends in an error without a further write: the row has been deleted
\* meanwhile, a field is invalid, the uid is taken, or a statement failed.  What
\* an update wrote before its switch failed stays.
Fails(c) ==
  /\ req[c].r.op # "none"
  /\ req' = [req EXCEPT ![c] = [r |-> Idle, copy |-> row]]
  /\ UNCHANGED <<now, row, snap, ops, acked, retired, intended, raced>>

\* The request goes on as next; stale: it wrote back what was no longer the row's.
WroteBack(c, next, stale) ==
  /\ req' = [req EXCEPT ![c] = [r |-> next, copy |-> row']]
  /\ raced' = (raced \/ stale)
  /\ UNCHANGED <<now, snap, ops>>

PatchedSet(H, r) == r.add
Patched(H, r) == (H \cup r.add) \ r.drop

\* UPDATE ... SET every mutable column WHERE deleted_at IS NULL.
UpdateEndpointAny(c, url, headers) ==
  row' = [row EXCEPT !.url = url, !.headers = headers, !.deleted = FALSE]
UpdateEndpoint(c, url, headers) ==
  /\ ~row.deleted
  /\ row' = [row EXCEPT !.url = url, !.headers = headers]

WriteUpdate(c) ==
  LET q == req[c] IN
  /\ q.r.op = "update"
  /\ UpdateEndpoint(c, q.r.url, q.copy.headers)
  /\ intended' = [intended EXCEPT !.url = q.r.url]
  /\ WroteBack(c, IF q.r.switch = {} THEN Idle ELSE [q.r EXCEPT !.op = "switch"],
               q.copy.headers # row.headers)
  /\ UNCHANGED <<acked, retired>>
WritePatch(c) ==
  LET q == req[c] IN
  /\ q.r.op = "patch" /\ ~q.r.again
  /\ UpdateEndpoint(c, q.copy.url, Patched(q.copy.headers, q.r))
  /\ intended' = [intended EXCEPT !.headers = (@ \cup q.r.add) \ q.r.drop]
  /\ WroteBack(c, Idle, q.copy.url # row.url \/ q.copy.headers # row.headers)
  /\ UNCHANGED <<acked, retired>>

\* setDisabled: one column of a row that is not deleted, and no copy.
SetDisabled(c) ==
  /\ req[c].r.op = "switch" /\ ~row.deleted
  /\ \E v \in req[c].r.switch : /\ row' = [row EXCEPT !.disabled = v]
                                /\ intended' = [intended EXCEPT !.disabled = v]
  /\ WroteBack(c, Idle, FALSE)
  /\ UNCHANGED <<acked, retired>>

Expired(o, t) == t > o.until
\* The retired secret, and the older ones still in their window, at time t.
OldSecretsOnlyLast(copy, t) == {[s |-> copy.secret, until |-> t + Overlap]}
OldSecrets(copy, t) ==
  {[s |-> copy.secret, until |-> t + Overlap]} \cup {o \in copy.old : ~Expired(o, t)}

\* UPDATE ... SET secret and old secrets WHERE deleted_at IS NULL.
InstallSecret(secret, old) ==
  /\ ~row.deleted
  /\ row' = [row EXCEPT !.secret = secret, !.old = old]

\* The caller is given the secret, unless the answer to the statement is lost.
RotateSecret(c) ==
  LET q == req[c] IN
  /\ q.r.op = "rotate" /\ ~q.r.again
  /\ InstallSecret(q.r.secret, OldSecrets(q.copy, q.r.at))
  /\ acked' \in {acked, acked \cup {q.r.secret}}
  /\ retired' = [retired EXCEPT ![row.secret] = q.r.at, ![q.r.secret] = -1]
  /\ WroteBack(c, Idle, q.copy.secret # row.secret \/ q.copy.old # row.old)
  /\ UNCHANGED intended

\* DeleteEndpoint reads the row and then soft-deletes it.
DeleteEndpoint ==
  /\ ops < MaxOps /\ ops' = ops + 1 /\ Found
  /\ row' = [row EXCEPT !.deleted = TRUE]
  /\ UNCHANGED <<now, req, snap, acked, retired, intended, raced>>

-------------------------------------------------------------------------------
(* What deliveries carry. *)

ActiveSecrets(r) == {r.secret} \cup {o.s : o \in {p \in r.old : ~Expired(p, now)}}

\* A worker builds its snapshot: keys are filtered now, and used until the next.
BuildSnapshot ==
  /\ ~row.deleted
  /\ snap' = [keys |-> ActiveSecrets(row), headers |-> row.headers, acked |-> acked]
  /\ UNCHANGED <<now, row, req, ops, acked, retired, intended, raced>>

\* signOne: an ed25519 key must be a seed or a private key, which the 24 random
\* bytes of GenerateSecret are not; any bytes are an HMAC key.
signOne(s) == SecretType = "hmac-sha256" \/ s \notin Generated

\* One signature per key; a key that cannot sign fails the whole header.
Sign(K) == K # {} /\ \A s \in K : signOne(s)

\* buildHeaders folds names to lower case; a task that cannot be signed is dropped.
WireNames(H) == {h[1] : h \in H}
Deliverable(sn) == Sign(sn.keys)

Next ==
  \/ Tick \/ DeleteEndpoint \/ BuildSnapshot
  \/ \E c \in Clients : \/ \E r \in Requests : Begin(c, r)
                        \/ GetHeaders(c) \/ Stamp(c) \/ Fails(c)
                        \/ WriteUpdate(c) \/ WritePatch(c) \/ SetDisabled(c) \/ RotateSecret(c)

Spec == Init /\ [][Next]_vars

-------------------------------------------------------------------------------
(* Properties. *)

(* Receivers roll over without a gap: a secret that had been returned to a     *)
(* caller when a worker built its snapshot signs that worker's deliveries      *)
(* until the overlap after the rotation that replaced it took its time has     *)
(* passed, through any number of rotations, also ones whose caller never got   *)
(* the new secret, unless a request wrote from a stale copy (RotateSecret,     *)
(* ActiveSecrets).                                                             *)
InWindow(s) == retired[s] = -1 \/ now - retired[s] <= Overlap
RolloverHasNoGap == ~raced => \A s \in snap.acked : InWindow(s) => s \in snap.keys

(* Each request changes its own columns and no others: url, headers and flag   *)
(* are what the statements that took effect were to make of them, one after    *)
(* the other, unless one wrote back a column another request had changed since *)
(* it read it.  Every acknowledged request is among them.  One that reported   *)
(* an error may be: its answer was lost, or it is an update whose columns were *)
(* written before setDisabled failed (UpdateEndpoint, PatchHeaders,            *)
(* setDisabled).                                                               *)
EditsAreKept ==
  ~raced /\ ~row.deleted =>
    intended = [url |-> row.url, headers |-> row.headers, disabled |-> row.disabled]

(* Deleting is final: no request that read the row before brings it back or    *)
(* changes it.                                                                 *)
DeletedIsFinal == row.deleted => row' = row
DeletedStaysDeleted == [][DeletedIsFinal]_vars

(* The previous secret stays alive for the overlap window whatever requests    *)
(* run at the same time: a secret a caller was given is current, retired more  *)
(* than an overlap ago, or still among the active ones.                        *)
GivenSecretSigns == ~row.deleted => \A s \in acked : InWindow(s) => s \in ActiveSecrets(row)

(* UpdateEndpoint applies the supplied fields, and no others.                  *)
OtherFieldsAreKept == ~row.deleted => row.headers = intended.headers

(* An endpoint whose secrets were generated for it can be delivered to: what a *)
(* worker's snapshot holds signs (GenerateSecret, Signer.Sign; a task that     *)
(* cannot be signed is dropped).                                               *)
SnapshotSigns == snap # NoSnap => Deliverable(snap)

(* An empty value removes a header: it is no longer sent.                      *)
RemovedHeaderIsNotSent ==
  [][\A c \in Clients : WritePatch(c) /\ req[c].r.drop # {}
       => WireNames(req[c].r.drop) \cap WireNames(row'.headers) = {}]_vars
===============================================================================
