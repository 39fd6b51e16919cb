------------------------------ MODULE MCOrders ------------------------------
EXTENDS Orders, TLC

CONSTANT o1

\* Two messages about o1 (two events of one payment, or two payments) and one
\* without an order.
Messages == [order : {o1}, copy : {1, 2}] \cup [order : {None}, copy : {1}]

OneOrder == {o1}

AskThree == {"paid", "done", "cancelled"}

Symmetry == Permutations(Admins) \cup Permutations(PaymentIds)
=============================================================================
