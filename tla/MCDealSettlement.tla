-------------------------- MODULE MCDealSettlement --------------------------
(* Model values of DealSettlement for TLC: one car file with two deals or one. *)
EXTENDS DealSettlement, TLC
CONSTANTS d1, d2, f1, f2
OneFile == d1 :> f1 @@ d2 :> f1
OneDeal == d1 :> f1
DealSymmetry == Permutations({d1, d2})
=============================================================================
