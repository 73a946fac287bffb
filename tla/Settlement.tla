----------------------------- MODULE Settlement -----------------------------
(***************************************************************************)
(* What MCS promises of a car file (README.md, steps 7 to 10): its deals   *)
(* are recorded once, each is paid for out of the fee locked for the file  *)
(* after the DAO agreed, then the user is to get the rest, and what has    *)
(* been returned is not spent.  Jobs, rows, transactions and crashes are   *)
(* not mentioned: DealSettlement implements this.                          *)
(*                                                                         *)
(* A deal may be paid for again; the README does not want that, the code   *)
(* does not prevent it.                                                    *)
(***************************************************************************)
EXTENDS Integers

CONSTANTS Files, Deals, FileOf, Fee, Cost

VARIABLES
    status,    \* of a car file
    known,     \* recorded deals
    agreed,    \* deals the DAO agreed to
    paid,      \* deals that were paid for, or whose price was not known then
    asked,     \* files whose refund was asked for
    returned,  \* files whose rest was returned
    left       \* what is left of the fee

file == <<status, known>>
money == <<paid, asked, returned, left>>
vars == <<file, agreed, money>>

KnownOf(f) == {d \in known : FileOf[d] = f}

Init ==
    /\ status = [f \in Files |-> "TaskCreated"]
    /\ known = {} /\ agreed = {} /\ paid = {} /\ asked = {} /\ returned = {}
    /\ left = [f \in Files |-> Fee]

Stop(f, why) ==
    /\ status[f] = "TaskCreated"
    /\ status' = [status EXCEPT ![f] = why]
    /\ UNCHANGED <<known, agreed, money>>

\* The deals of a file are recorded together, and none after that.
Record(f, deals) ==
    /\ status[f] = "TaskCreated"
    /\ status' = [status EXCEPT ![f] = "DealSent"]
    /\ known' = known \cup deals
    /\ UNCHANGED <<agreed, money>>

Agree(d) ==
    /\ agreed' = agreed \cup {d}
    /\ UNCHANGED <<file, money>>

\* The price may be 0; it is not paid out of what was returned.
Pay(d, price) ==
    /\ d \in known \cap agreed
    /\ price # 0 => FileOf[d] \notin returned /\ left[FileOf[d]] >= price
    /\ paid' = paid \cup {d}
    /\ left' = [left EXCEPT ![FileOf[d]] = @ - price]
    /\ UNCHANGED <<file, agreed, asked, returned>>

\* All that is recorded was paid.
Ask(f) ==
    /\ status[f] = "DealSent" /\ KnownOf(f) \subseteq paid
    /\ asked' = asked \cup {f}
    /\ UNCHANGED <<file, agreed, paid, returned, left>>

Return(f) ==
    /\ f \in asked \ returned
    /\ returned' = returned \cup {f}
    /\ left' = [left EXCEPT ![f] = 0]
    /\ UNCHANGED <<file, agreed, paid, asked>>

Finish(f) ==
    /\ status[f] = "DealSent"
    /\ \/ f \in asked /\ status' = [status EXCEPT ![f] = "UnlockRefundSucceeded"]
       \/ status' = [status EXCEPT ![f] = "UnlockRefundFailed"]
    /\ UNCHANGED <<known, agreed, money>>

Next ==
    \/ \E f \in Files, why \in {"DealSentFailed", "DealSendCancelled"} : Stop(f, why)
    \/ \E f \in Files : \E deals \in SUBSET {d \in Deals : FileOf[d] = f} : Record(f, deals)
    \/ \E d \in Deals : Agree(d)
    \/ \E d \in Deals, price \in {0, Cost} : Pay(d, price)
    \/ \E f \in Files : Ask(f) \/ Return(f) \/ Finish(f)

Spec == Init /\ [][Next]_vars
=============================================================================
