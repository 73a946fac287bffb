--------------------------- MODULE MCSwanPayment ---------------------------
(* Model values of SwanPayment for TLC: two users, two content ids. *)
EXTENDS SwanPayment, TLC
CONSTANTS c1, c2, u1, u2
MCSymmetry == Permutations({c1, c2}) \cup Permutations({u1, u2})
=============================================================================
