---------------------------- MODULE MCWebPayment ----------------------------
(* Model values of WebPayment for TLC: two files of different price. *)
EXTENDS WebPayment, TLC
CONSTANTS c1, c2
MCCost == c1 :> 2 @@ c2 :> 4
=============================================================================
