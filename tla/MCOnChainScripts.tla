------------------------- MODULE MCOnChainScripts -------------------------
(* Model values of OnChainScripts for TLC: the deployer and a second admin,
   whom the faucet serves.  *)
EXTENDS OnChainScripts
CONSTANTS deployer, receiver
=============================================================================
