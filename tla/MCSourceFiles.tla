--------------------------- MODULE MCSourceFiles ---------------------------
(* Model values of SourceFiles for TLC: content ids and requests of each kind. *)
EXTENDS SourceFiles, TLC
CONSTANTS c1, c2, u1, u2, n1, m1
MCSymmetry == Permutations(Cids) \cup Permutations(Uploads)
=============================================================================
