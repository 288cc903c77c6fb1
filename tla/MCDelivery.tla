----------------------------- MODULE MCDelivery -----------------------------
(* Small instances of Delivery for TLC. *)
EXTENDS Delivery, TLC

CONSTANTS h1, h2, h3, w1, w2, m1, m2, e1, e2, t1, t2, t3, t4

MCSubscribed == [m \in Msgs |-> Endpoints]
Symmetry == Permutations(Handlers) \cup Permutations(Workers) \cup Permutations(TaskIds)

=============================================================================
