-------------------------- MODULE MCWalletSession --------------------------
(* Model values of WalletSession for TLC: two accounts. *)
EXTENDS WalletSession, TLC
CONSTANTS a1, a2
=============================================================================
