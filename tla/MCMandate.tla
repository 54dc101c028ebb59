----------------------------- MODULE MCMandate ------------------------------
(* One intent, a small payment and a large one with its approval grant.    *)
EXTENDS Mandate, TLC

CONSTANTS i1, i2

Payment(id, amount) == [id |-> id, amount |-> amount, valid |-> TRUE]

Small == Payment(i1, 2)
Large == Payment(i2, 4)

TwoPayments == {Small, Large}
OneGrant == {[for |-> Large, genuine |-> TRUE]}
=============================================================================
