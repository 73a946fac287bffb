--------------------------- MODULE PaymentNotices ---------------------------
(***************************************************************************)
(* What telling the backend of payments promises: a payment is told of     *)
(* once it is mined, once, and the backend deals with it once after that.  *)
(* The web pages, with their forms, masks, popups and callbacks, implement *)
(* this.                                                                   *)
(***************************************************************************)
CONSTANT Payments

VARIABLES
    mined,    \* payments locked in the contract
    told,     \* payments the backend was told of
    settled   \* notices the backend dealt with, or that were lost

vars == <<mined, told, settled>>

Init == mined = {} /\ told = {} /\ settled = {}

Mine(p) == p \notin mined /\ mined' = mined \cup {p} /\ UNCHANGED <<told, settled>>

Tell(p) ==
    /\ p \in mined \ told
    /\ told' = told \cup {p}
    /\ UNCHANGED <<mined, settled>>

Settle(p) ==
    /\ p \in told \ settled
    /\ settled' = settled \cup {p}
    /\ UNCHANGED <<mined, told>>

Next == \E p \in Payments : Mine(p) \/ Tell(p) \/ Settle(p)

Spec == Init /\ [][Next]_vars
=============================================================================
