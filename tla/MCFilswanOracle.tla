-------------------------- MODULE MCFilswanOracle --------------------------
(* Model values of FilswanOracle for TLC: one deal on one network, three    *)
(* members in two groups of two, two recipients, two cid lists.             *)
EXTENDS FilswanOracle, TLC
CONSTANTS d1, n1, a, b, c, r1, r2, l1, l2
Rotation == {{a, b}, {b, c}}
MCSymmetry == Permutations({l1, l2})
=============================================================================
