-------------------------- MODULE DeliveryContract --------------------------
(***************************************************************************)
(* What accepting a message promises, without rows, workers or locks.  A    *)
(* pair <<message, endpoint>> becomes owed when the message is accepted; it *)
(* may leave the queue only when it is settled, and settling is for good.   *)
(***************************************************************************)
CONSTANTS Msgs, Endpoints

VARIABLES
  owed,      \* pairs an accepted message is to be delivered for
  settled,   \* pairs whose outcome is recorded, or that cannot be delivered
  queued     \* pairs some queue row still stands for

vars == <<owed, settled, queued>>

Init == owed = {} /\ settled = {} /\ queued = {}

\* Ingest commits.  Pairs whose endpoint is already gone are settled at once.
Accept(m, S) ==
  /\ \A p \in owed : p[1] # m
  /\ owed' = owed \cup ({m} \X S)
  /\ queued' = queued \cup ({m} \X S)
  /\ settled \subseteq settled' /\ settled' \subseteq settled \cup ({m} \X S)

\* Outcomes become known, and settled pairs may leave the queue.
Settle ==
  /\ settled \subseteq settled' /\ settled' \subseteq owed
  /\ queued' \subseteq queued
  /\ queued \ queued' \subseteq settled'
  /\ UNCHANGED owed

\* A resend, or a second expansion of one fan-out, puts pairs back.
Requeue ==
  /\ queued \subseteq queued' /\ queued' \subseteq owed
  /\ UNCHANGED <<owed, settled>>

Next ==
  \/ \E m \in Msgs, S \in SUBSET Endpoints : Accept(m, S)
  \/ Settle
  \/ Requeue

Spec == Init /\ [][Next]_vars

=============================================================================
