------------------------- MODULE MCOrderLifecycle -------------------------
(* OrderLifecycle on small instances.                                        *)
EXTENDS OrderLifecycle, TLC
CONSTANTS b1, b2, a1
OrderSymmetry == Permutations({b1, b2})
=============================================================================
