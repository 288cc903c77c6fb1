------------------------------- MODULE Outbound -------------------------------
(* Outbound requests to one host: the DNS cache, the guarded dialer and the    *)
(* classification of what went wrong (deliveryhttp).                           *)
(*                                                                             *)
(* Several deliveries look the host up at the same time.  The transport does   *)
(* not cancel a dial when the request it was started for gives up.             *)
EXTENDS Integers, FiniteSets

CONSTANTS
  Calls,       \* deliveries in flight
  Addrs,       \* addresses
  Allowed,     \* the ones Guard.Allow accepts
  TTL, NegTTL, \* lifetimes of an answer and of a failure, in ticks
  MaxTime, MaxChanges, MaxCalls

OutboundAssumption ==
  /\ Allowed \subseteq Addrs
  /\ TTL \in Nat /\ NegTTL \in Nat /\ 0 < NegTTL /\ NegTTL < TTL
  /\ {MaxTime, MaxChanges, MaxCalls} \subseteq Nat

VARIABLES
  now,
  dns,      \* what the resolver would answer: addresses, or {} for no such host
  entry,    \* the cache entry of the host
  call,     \* per delivery
  changes, calls,
  dialled,  \* history: addresses dialled
  served    \* history: the age of an answer when it was served from the cache, and whether it was a failure

vars == <<now, dns, entry, call, changes, calls, dialled, served>>

\* A lookup's answer; got is when the resolver gave it.
Answer == [addrs: SUBSET Addrs, err: {"none", "dns", "dns timeout"}, got: 0..MaxTime]
NoEntry == [ans |-> [addrs |-> {}, err |-> "none", got |-> 0], expiresAt |-> 0]
Kinds == {"none", "status", "reset", "blocked", "dns", "dns timeout", "refused", "timeout"}
Idle == [at |-> "idle", start |-> 0, ans |-> NoEntry.ans, gone |-> FALSE, err |-> "none"]

(* One type invariant. *)
TypeOK ==
  /\ now \in 0..MaxTime /\ dns \subseteq Addrs
  /\ entry.ans \in Answer /\ entry.expiresAt \in 0..(MaxTime + TTL)
  /\ call \in [Calls -> [at: {"idle", "resolve", "store", "dial", "open"}, start: 0..MaxTime,
                         ans: Answer, gone: BOOLEAN, err: Kinds]]
  /\ changes \in 0..MaxChanges /\ calls \in 0..MaxCalls
  /\ dialled \subseteq Addrs /\ served \subseteq (0..MaxTime) \X BOOLEAN

Init ==
  /\ now = 0 /\ dns \in SUBSET Addrs
  /\ entry = NoEntry /\ call = [c \in Calls |-> Idle]
  /\ changes = 0 /\ calls = 0 /\ dialled = {} /\ served = {}

-------------------------------------------------------------------------------
Tick == now < MaxTime /\ now' = now + 1
        /\ UNCHANGED <<dns, entry, call, changes, calls, dialled, served>>
ChangeDNS ==
  /\ changes < MaxChanges /\ changes' = changes + 1
  /\ \E A \in SUBSET Addrs : A # dns /\ dns' = A
  /\ UNCHANGED <<now, entry, call, calls, dialled, served>>

\* The classification of an error.
isTimeout(err) == err \in {"timeout", "dns timeout"}
isRefused(err) == err \in {"blocked", "dns", "dns timeout", "refused"}

\* The end of a delivery's part in the dial; a request that gave up has its result.
End(c, err) == call' = [call EXCEPT ![c] = [Idle EXCEPT !.err = IF call[c].gone THEN "timeout" ELSE err]]

\* Lookup: a fresh entry is served, its error included.
Deliver(c) ==
  /\ call[c].at = "idle" /\ calls < MaxCalls /\ calls' = calls + 1
  /\ IF now < entry.expiresAt
     THEN /\ call' = [call EXCEPT ![c] = [Idle EXCEPT !.at = "dial", !.start = now, !.ans = entry.ans]]
          /\ served' = served \cup {<<now - entry.ans.got, entry.ans.err # "none">>}
     ELSE call' = [call EXCEPT ![c] = [Idle EXCEPT !.at = "resolve", !.start = now]] /\ UNCHANGED served
  /\ UNCHANGED <<now, dns, entry, changes, dialled>>

\* The resolver answers, or takes too long.
Resolve(c) ==
  /\ call[c].at = "resolve"
  /\ \E err \in {IF dns = {} THEN "dns" ELSE "none", "dns timeout"} :
       call' = [call EXCEPT ![c].at = "store",
                            ![c].ans = [addrs |-> IF err = "none" THEN dns ELSE {}, err |-> err, got |-> now]]
  /\ UNCHANGED <<now, dns, entry, changes, calls, dialled, served>>

\* The entry lives from the time the lookup began.
ExpiresFromStore(c) == now + (IF call[c].ans.err = "none" THEN TTL ELSE NegTTL)
ExpiresAt(c) == call[c].start + (IF call[c].ans.err = "none" THEN TTL ELSE NegTTL)
StoreEntry(c) ==
  /\ call[c].at = "store"
  /\ entry' = [ans |-> call[c].ans, expiresAt |-> ExpiresAt(c)]
  /\ call' = [call EXCEPT ![c].at = "dial"]
  /\ UNCHANGED <<now, dns, changes, calls, dialled, served>>

\* Guard.Filter.
FilterNone(A) == A
Filter(A) == A \cap Allowed

\* A dial that cannot start: the lookup failed, or no address is allowed.
DialRefusedUnresolved(c) ==
  /\ call[c].at = "dial" /\ call[c].ans.err # "none"
  /\ End(c, call[c].ans.err)
  /\ UNCHANGED <<now, dns, entry, changes, calls, dialled, served>>
DialRefused(c) ==
  /\ call[c].at = "dial" /\ Filter(call[c].ans.addrs) = {}
  /\ End(c, IF call[c].ans.err # "none" THEN call[c].ans.err ELSE "blocked")
  /\ UNCHANGED <<now, dns, entry, changes, calls, dialled, served>>

\* One allowed address is tried; on a failure the next, unless the context has ended, and the last
\* error counts.
DialNext(c, a) == call[c].ans.addrs \ {a}
DialContext(c) ==
  /\ call[c].at = "dial"
  /\ \E a \in Filter(call[c].ans.addrs) :
       /\ dialled' = dialled \cup {a}
       /\ \/ call' = [call EXCEPT ![c].at = "open"]
          \/ LET rest == DialNext(c, a) IN
             \E err \in {"refused", "timeout"} :
               \/ Filter(rest) # {} /\ call' = [call EXCEPT ![c].ans.addrs = rest]
               \/ (Filter(rest) = {} \/ call[c].gone) /\ End(c, err)
  /\ UNCHANGED <<now, dns, entry, changes, calls, served>>

\* The response, or a connection that breaks.
Respond(c) ==
  /\ call[c].at = "open"
  /\ \E err \in {"status", "reset"} : End(c, err)
  /\ UNCHANGED <<now, dns, entry, changes, calls, dialled, served>>

\* The request's deadline passes; what was begun for it goes on.
GiveUp(c) ==
  /\ call[c].at # "idle" /\ ~call[c].gone
  /\ call' = [call EXCEPT ![c].gone = TRUE]
  /\ UNCHANGED <<now, dns, entry, changes, calls, dialled, served>>

Progress(c) == Resolve(c) \/ StoreEntry(c) \/ DialRefused(c) \/ DialContext(c) \/ Respond(c)
Next == Tick \/ ChangeDNS \/ \E c \in Calls : Deliver(c) \/ Progress(c) \/ GiveUp(c)

Spec == Init /\ [][Next]_vars
(* The clock runs, and the resolver, the dialer with its timeout and the       *)
(* transport with its header timeout each come back.                           *)
FairSpec == Spec /\ WF_vars(Tick) /\ \A c \in Calls : WF_vars(Progress(c))

-------------------------------------------------------------------------------
(* Properties. *)

(* A cached answer is never older than its lifetime, counted from when the     *)
(* resolver gave it, and a remembered failure is forgotten sooner, however     *)
(* slow lookups are and in whatever order they store their answers             *)
(* (DNSCache.Lookup).                                                          *)
AnswersAreFresh == \A s \in served : s[1] <= (IF s[2] THEN NegTTL ELSE TTL)

(* The dialer connects to what it checked: every address dialled is one the    *)
(* guard allows, also when the name changes its addresses between the lookup   *)
(* and the dial (guardedDialer.DialContext).                                   *)
DialledWasAllowed == dialled \subseteq Allowed

(* Every delivery gets its result: the lookup and the attempts at each address *)
(* come to an end (the loop over the allowed addresses).                       *)
DeliveryEnds == \A c \in Calls : call[c].at # "idle" ~> call[c].at = "idle"

(* A failure is either "this endpoint is not there" or "this endpoint is       *)
(* slow": a result that was refused did not time out (isRefused, isTimeout).   *)
RefusedIsNotSlow == \A c \in Calls : ~(isRefused(call[c].err) /\ isTimeout(call[c].err))

(* Entries whose time has passed are dropped: the cache is purged on a timer.  *)
ExpiredIsPurged == (entry # NoEntry /\ now >= entry.expiresAt) ~> (entry = NoEntry \/ now < entry.expiresAt)
===============================================================================
