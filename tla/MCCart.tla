------------------------------- MODULE MCCart -------------------------------
EXTENDS Cart, TLC

AllOps == {"view", "add", "set", "clear", "checkout"}

Symmetry == Permutations(Products) \cup Permutations(Requests)
=============================================================================
