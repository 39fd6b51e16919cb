----------------------------- MODULE MCCheckout -----------------------------
EXTENDS Checkout, TLC

SessionKind == {"checkout.session.completed"}
BothKinds == {"checkout.session.completed", "payment_intent.succeeded"}

Symmetry == Permutations(Checkouts) \cup Permutations(Orders)
            \cup Permutations(Handlers)
=============================================================================
