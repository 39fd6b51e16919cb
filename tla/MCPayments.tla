----------------------------- MODULE MCPayments -----------------------------
EXTENDS Payments, TLC

SessionKind == {SessionCompleted}
BothKinds == {SessionCompleted, IntentSucceeded}

Symmetry == Permutations(Handlers) \cup Permutations(Orders)
            \cup Permutations(Checkouts)

\* A bound: CreateOrder asks for one payment per order (Orders, Checkout).
OneCheckoutEach ==
    \A c, d \in Checkouts :
        c # d /\ checkout[c].order # None => checkout[c].order # checkout[d].order
=============================================================================
