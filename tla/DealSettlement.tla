--------------------------- MODULE DealSettlement ---------------------------
(***************************************************************************)
(* The back half of the MCS backend: the four cron jobs of scheduler/ that *)
(* take a car file from "task created" to "refunded".                      *)
(*                                                                         *)
(*   SendDeal       proposes the Filecoin deals of a car file, records them*)
(*   ScanDeal       copies the deals' status on Filecoin to offline_deal   *)
(*   UnlockPayment  has the contract pay MCS for deals the DAO agreed to   *)
(*   Refund         has the contract return the rest to the user           *)
(*                                                                         *)
(* Each job has its own mutex and goroutine: a job never overlaps with     *)
(* itself, the jobs interleave with each other at every database access    *)
(* and every call of Lotus, the Swan API or the Polygon node.  A job reads *)
(* its list first and works through it, so it acts on rows as they were.   *)
(*                                                                         *)
(* Around them: the Filecoin market, the DAO, the price oracle, and the    *)
(* payment contract, reduced to one locked fee per car file.  Transactions *)
(* have one sender, so they are mined in the order they were sent.         *)
(***************************************************************************)
EXTENDS Integers, Sequences, FiniteSets

CONSTANTS
    Files,       \* car files (deal_file rows)
    Deals,       \* Filecoin deals that may be proposed
    FileOf,      \* the car file of each deal
    None,
    LockedFee,   \* what the user locked for a car file
    DealCost,    \* what one deal costs
    MaxFaults,   \* bound: failures of calls, and crashes, in a behaviour
    MaxTxs       \* bound: transactions sent in a behaviour

ASSUME ConstantsAssumption ==
    /\ FileOf \in [Deals -> Files]
    /\ None \notin Files \cup Deals
    /\ LockedFee \in Nat /\ DealCost \in Nat \ {0}
    /\ MaxFaults \in Nat /\ MaxTxs \in Nat

VARIABLES
    \* the database
    fileStatus,    \* deal_file.lock_payment_status
    offlineDeal,   \* offline_deal rows, NoRow if there is none
    event,         \* event_unlock_payment rows of a deal
    \* the jobs; what they hold is lost in a crash
    sendJob,       \* the file whose deals were proposed and are not recorded yet
    scanJob,       \* the rows ScanDeal read and has still to look at
    unlockJob,     \* the deals UnlockPayment read and has still to look at, the one it works on
    refundJob,     \* likewise the files of Refund
    \* the outside world
    old,           \* files created more than three days ago
    market,        \* deals on Filecoin
    approved,      \* deals isCarPaymentAvailable and the recorded signatures let pay
    priced,        \* deals whose price Chainlink delivered to FilinkConsumer
    txs,           \* transactions of the MCS account, in nonce order
    locked,        \* the fee the contract holds for a car file
    exists,        \* files whose payment _isExisted
    released,      \* tokens the contract paid to MCS for a deal
    faults         \* failures so far

db == <<fileStatus, offlineDeal, event>>
jobs == <<sendJob, scanJob, unlockJob, refundJob>>
filecoin == <<market, approved, priced>>
chain == <<txs, locked, exists, released>>
vars == <<db, jobs, old, filecoin, chain, faults>>

DealStatus == {"proposed", "published", "active", "error"}
UnlockStatus == {"NotUnlocked", "Unlocked", "UnlockFailed"}
FileStatus == {"TaskCreated", "DealSent", "DealSentFailed", "DealSendCancelled",
               "UnlockRefundSucceeded", "UnlockRefundFailed"}

Row == [status : DealStatus \cup {"none"}, hasId : BOOLEAN, unlock : UnlockStatus]
NoRow == [status |-> "none", hasId |-> FALSE, unlock |-> "NotUnlocked"]

Recorded == {d \in Deals : offlineDeal[d] # NoRow}
DealsOf(f) == {d \in Deals : FileOf[d] = f}

Tx == [kind : {"unlock", "refund"}, target : Deals \cup Files,
       result : {"pending", "ok", "reverted"}]

\* The deals for which an unlock transaction was mined successfully.
PaidDeals == {d \in Deals : \E i \in DOMAIN txs :
                 txs[i].kind = "unlock" /\ txs[i].target = d /\ txs[i].result = "ok"}

SendIdle == [file |-> None, deals |-> {}]
ScanIdle == [d \in Deals |-> NoRow]
UnlockIdle == [todo |-> {}, deal |-> None, tx |-> 0, stage |-> "idle"]
RefundIdle == [todo |-> {}, file |-> None, stage |-> "idle"]

Init ==
    /\ fileStatus = [f \in Files |-> "TaskCreated"]
    /\ offlineDeal = [d \in Deals |-> NoRow]
    /\ event = [d \in Deals |-> "none"]
    /\ sendJob = SendIdle /\ scanJob = ScanIdle
    /\ unlockJob = UnlockIdle /\ refundJob = RefundIdle
    /\ old = {}
    /\ market = [d \in Deals |-> [status |-> "none", hasId |-> FALSE]]
    /\ approved = {} /\ priced = {}
    /\ txs = <<>>
    /\ locked = [f \in Files |-> LockedFee]
    /\ exists = Files
    /\ released = [d \in Deals |-> 0]
    /\ faults = 0

\* A step in which a call of another service or of the database fails.
Fault == faults < MaxFaults /\ faults' = faults + 1

(***************************************************************************)
(* The outside world.                                                      *)
(***************************************************************************)
\* (The age of a file is looked at before its deals are sent only.)
Age(f) ==
    /\ f \notin old /\ fileStatus[f] = "TaskCreated" /\ sendJob.file # f
    /\ old' = old \cup {f}
    /\ UNCHANGED <<db, jobs, filecoin, chain, faults>>

DealPublished(d) ==
    /\ market[d].status = "proposed"
    /\ market' = [market EXCEPT ![d] = [status |-> "published", hasId |-> TRUE]]
    /\ UNCHANGED <<db, jobs, old, approved, priced, chain, faults>>

DealEnds(d, status) ==
    /\ \/ market[d].status = "published" /\ status \in {"active", "error"}
       \/ market[d].status = "proposed" /\ status = "error"
    /\ market' = [market EXCEPT ![d].status = status]
    /\ UNCHANGED <<db, jobs, old, approved, priced, chain, faults>>

\* Enough DAO members signed for the deal, and their signatures are recorded.
DaoApproves(d) ==
    /\ market[d].hasId /\ d \notin approved
    /\ approved' = approved \cup {d}
    /\ UNCHANGED <<db, jobs, old, market, priced, chain, faults>>

\* The answer to requestDealInfo, which the last signature sent.
PriceFulfilled(d) ==
    /\ d \in approved \ priced
    /\ priced' = priced \cup {d}
    /\ UNCHANGED <<db, jobs, old, market, approved, chain, faults>>

\* The next transaction of the MCS account is mined.
Mines(i) ==
    /\ i \in DOMAIN txs
    /\ txs[i].result = "pending"
    /\ \A j \in DOMAIN txs : j < i => txs[j].result # "pending"
    /\ UNCHANGED <<db, jobs, old, filecoin>>

\* unlockCarPayment: at price 0 it succeeds and pays nothing; otherwise the
\* payment must exist and hold the cost, or the transaction reverts.
MineUnlock(i) ==
    /\ Mines(i)
    /\ txs[i].kind = "unlock"
    /\ LET d == txs[i].target
           f == FileOf[d]
       IN \/ /\ d \notin priced
             /\ txs' = [txs EXCEPT ![i].result = "ok"]
             /\ UNCHANGED <<locked, released>>
          \/ /\ d \in priced /\ f \in exists /\ locked[f] >= DealCost
             /\ txs' = [txs EXCEPT ![i].result = "ok"]
             /\ locked' = [locked EXCEPT ![f] = @ - DealCost]
             /\ released' = [released EXCEPT ![d] = @ + DealCost]
          \/ /\ d \in priced /\ (f \notin exists \/ locked[f] < DealCost)
             /\ txs' = [txs EXCEPT ![i].result = "reverted"]
             /\ UNCHANGED <<locked, released>>
    /\ UNCHANGED <<exists, faults>>

\* refund: a payment that does not exist any more is passed over.  It reverts
\* when the contract is short of tokens or the list is too long.
MineRefund(i) ==
    /\ Mines(i)
    /\ txs[i].kind = "refund"
    /\ \/ /\ txs' = [txs EXCEPT ![i].result = "ok"]
          /\ exists' = exists \ {txs[i].target}
          /\ UNCHANGED faults
       \/ /\ Fault
          /\ txs' = [txs EXCEPT ![i].result = "reverted"]
          /\ UNCHANGED exists
    /\ UNCHANGED <<locked, released>>

\* The MCS process stops and starts again.
Crash ==
    /\ Fault
    /\ sendJob' = SendIdle /\ scanJob' = ScanIdle
    /\ unlockJob' = UnlockIdle /\ refundJob' = RefundIdle
    /\ UNCHANGED <<db, old, filecoin, chain>>

(***************************************************************************)
(* SendDeal.                                                               *)
(***************************************************************************)
ToSend(f) == sendJob = SendIdle /\ fileStatus[f] = "TaskCreated"

CancelSend(f) ==
    /\ ToSend(f) /\ f \in old
    /\ fileStatus' = [fileStatus EXCEPT ![f] = "DealSendCancelled"]
    /\ UNCHANGED <<offlineDeal, event, jobs, old, filecoin, chain, faults>>

Propose(batch) ==
    market' = [d \in Deals |-> IF d \in batch THEN [status |-> "proposed", hasId |-> FALSE]
                                              ELSE market[d]]

Proposable(f) == SUBSET {d \in DealsOf(f) : market[d].status = "none"}

\* SendAutoBidDealsByTaskUuid returns an error; some deals may have been proposed.
SendFails(f, batch) ==
    /\ ToSend(f) /\ f \notin old
    /\ Fault
    /\ Propose(batch)
    /\ fileStatus' = [fileStatus EXCEPT ![f] = "DealSentFailed"]
    /\ UNCHANGED <<offlineDeal, event, jobs, old, approved, priced, chain>>

\* It proposes deals (if none are proposed the file stays as it is).
SendBids(f, batch) ==
    /\ ToSend(f) /\ f \notin old
    /\ batch # {}
    /\ Propose(batch)
    /\ sendJob' = [file |-> f, deals |-> batch]
    /\ UNCHANGED <<db, scanJob, unlockJob, refundJob, old, approved, priced, chain, faults>>

\* Mutant: deals that have no deal id yet are skipped too.
RecordPublishedDeals(recorded) ==
    /\ sendJob # SendIdle
    /\ recorded = {d \in sendJob.deals : market[d].hasId}
    /\ fileStatus' = [fileStatus EXCEPT ![sendJob.file] = "DealSent"]
    /\ offlineDeal' = [d \in Deals |->
          IF d \in recorded
          THEN [status |-> market[d].status, hasId |-> TRUE, unlock |-> "NotUnlocked"]
          ELSE offlineDeal[d]]
    /\ sendJob' = SendIdle
    /\ UNCHANGED <<event, scanJob, unlockJob, refundJob, old, filecoin, chain, faults>>

\* One database transaction: the file is DealSent, the deals Lotus knows are
\* recorded.  A deal whose LotusClientGetDealInfo fails is skipped.
RecordDeals(recorded) ==
    /\ sendJob # SendIdle
    /\ recorded \subseteq sendJob.deals
    /\ IF recorded = sendJob.deals THEN UNCHANGED faults ELSE Fault
    /\ fileStatus' = [fileStatus EXCEPT ![sendJob.file] = "DealSent"]
    /\ offlineDeal' = [d \in Deals |->
          IF d \in recorded
          THEN [status |-> market[d].status, hasId |-> market[d].hasId, unlock |-> "NotUnlocked"]
          ELSE offlineDeal[d]]
    /\ sendJob' = SendIdle
    /\ UNCHANGED <<event, scanJob, unlockJob, refundJob, old, filecoin, chain>>

\* The transaction is rolled back: the file is still TaskCreated.
RecordFails ==
    /\ sendJob # SendIdle
    /\ Fault
    /\ sendJob' = SendIdle
    /\ UNCHANGED <<db, scanJob, unlockJob, refundJob, old, filecoin, chain>>

(***************************************************************************)
(* ScanDeal.                                                               *)
(***************************************************************************)
\* GetOfflineDeals2BeScanned: whole rows.
ToScan == {d \in Recorded : offlineDeal[d].status \notin {"active", "error"}}

ScanBegin ==
    /\ scanJob = ScanIdle /\ ToScan # {}
    /\ scanJob' = [d \in Deals |-> IF d \in ToScan THEN offlineDeal[d] ELSE NoRow]
    /\ UNCHANGED <<db, sendJob, unlockJob, refundJob, old, filecoin, chain, faults>>

\* SaveOne(deal) writes the row read by ScanBegin with the new status and deal
\* id: the unlock status too is the one read then.
Rescanned(d) ==
    IF scanJob[d].status = market[d].status /\ scanJob[d].hasId = market[d].hasId
    THEN offlineDeal[d]
    ELSE [scanJob[d] EXCEPT !.status = market[d].status, !.hasId = market[d].hasId]

ScanOne(d) ==
    /\ scanJob[d] # NoRow
    /\ offlineDeal' = [offlineDeal EXCEPT ![d] = Rescanned(d)]
    /\ scanJob' = [scanJob EXCEPT ![d] = NoRow]
    /\ UNCHANGED <<fileStatus, event, sendJob, unlockJob, refundJob, old, filecoin, chain, faults>>

\* Lotus fails: the deal is skipped.  The database fails: the job returns.
ScanFails(d) ==
    /\ scanJob[d] # NoRow
    /\ Fault
    /\ scanJob' \in {[scanJob EXCEPT ![d] = NoRow], ScanIdle}
    /\ UNCHANGED <<db, sendJob, unlockJob, refundJob, old, filecoin, chain>>

(***************************************************************************)
(* UnlockPayment.                                                          *)
(***************************************************************************)
\* Mutant: only deals that are active.
ToUnlockActive ==
    {d \in Recorded : offlineDeal[d].status = "active" /\ offlineDeal[d].unlock = "NotUnlocked"}

\* GetOfflineDeals2BeUnlocked.
ToUnlock == {d \in Recorded : offlineDeal[d].hasId /\ offlineDeal[d].unlock = "NotUnlocked"}

UnlockBegin ==
    /\ unlockJob = UnlockIdle /\ ToUnlock # {}
    /\ unlockJob' = [UnlockIdle EXCEPT !.todo = ToUnlock]
    /\ UNCHANGED <<db, sendJob, scanJob, refundJob, old, filecoin, chain, faults>>

\* UnlockPayment is between two deals of its list, d is the next.
UnlockNext(d) ==
    /\ unlockJob.stage = "idle" /\ d \in unlockJob.todo
    /\ UNCHANGED <<fileStatus, sendJob, scanJob, refundJob, old, filecoin, locked, exists, released>>

UnlockDone(d) == unlockJob' = [UnlockIdle EXCEPT !.todo = unlockJob.todo \ {d}]

SetUnlock(d, status) ==
    offlineDeal' = [offlineDeal EXCEPT ![d].unlock = status]

\* checkUnlockable says no, or setUnlockPayment finds no payment.
UnlockSkip(d) ==
    /\ UnlockNext(d)
    /\ d \notin approved \/ FileOf[d] \notin exists
    /\ UnlockDone(d)
    /\ UNCHANGED <<offlineDeal, event, txs, faults>>

\* setUnlockPayment opens the event rows; doUnlockDeal sends the transaction.
UnlockSend(d) ==
    /\ UnlockNext(d)
    /\ d \in approved /\ FileOf[d] \in exists
    /\ Len(txs) < MaxTxs
    /\ event' = [event EXCEPT ![d] = "opened"]
    /\ txs' = Append(txs, [kind |-> "unlock", target |-> d, result |-> "pending"])
    /\ unlockJob' = [todo |-> unlockJob.todo \ {d}, deal |-> d, tx |-> Len(txs) + 1,
                     stage |-> "sent"]
    /\ UNCHANGED <<offlineDeal, faults>>

\* No transaction could be sent.  If UnlockCarPayment said so the deal is
\* UnlockFailed; if a call before it did, or the update failed, it stays as it is.
UnlockSendFails(d) ==
    /\ UnlockNext(d)
    /\ d \in approved
    /\ Fault
    /\ event' \in {event, [event EXCEPT ![d] = "opened"]}
    /\ \/ SetUnlock(d, "UnlockFailed")
       \/ UNCHANGED offlineDeal
    /\ UnlockDone(d)
    /\ UNCHANGED txs

\* Mutant: the status of the receipt is not looked at.
UnlockReceiptUnread ==
    /\ unlockJob.stage = "sent"
    /\ txs[unlockJob.tx].result # "pending"
    /\ SetUnlock(unlockJob.deal, "Unlocked")
    /\ unlockJob' = [unlockJob EXCEPT !.stage = "unlocked"]
    /\ UNCHANGED <<fileStatus, event, sendJob, scanJob, refundJob, old, filecoin, chain, faults>>

\* CheckTx returned the receipt; the database is updated with its status.
UnlockReceipt ==
    /\ unlockJob.stage = "sent"
    /\ \/ /\ txs[unlockJob.tx].result = "ok"
          /\ SetUnlock(unlockJob.deal, "Unlocked")
          /\ unlockJob' = [unlockJob EXCEPT !.stage = "unlocked"]
       \/ /\ txs[unlockJob.tx].result = "reverted"
          /\ SetUnlock(unlockJob.deal, "UnlockFailed")
          /\ UnlockDone(unlockJob.deal)
    /\ UNCHANGED <<fileStatus, event, sendJob, scanJob, refundJob, old, filecoin, chain, faults>>

\* CheckTx fails otherwise than with NotFound: the deal is UnlockFailed whatever
\* becomes of the transaction.  Or the update of the status fails.
UnlockReceiptFails ==
    /\ unlockJob.stage = "sent"
    /\ Fault
    /\ \/ SetUnlock(unlockJob.deal, "UnlockFailed")
       \/ txs[unlockJob.tx].result # "pending" /\ UNCHANGED offlineDeal
    /\ UnlockDone(unlockJob.deal)
    /\ UNCHANGED <<fileStatus, event, sendJob, scanJob, refundJob, old, filecoin, chain>>

\* updateUnlockPayment completes the event rows, if the payment still exists.
UpdateUnlockPayment ==
    /\ unlockJob.stage = "unlocked"
    /\ event' = [event EXCEPT ![unlockJob.deal] =
                    IF FileOf[unlockJob.deal] \in exists THEN "completed" ELSE @]
    /\ UnlockDone(unlockJob.deal)
    /\ UNCHANGED <<fileStatus, offlineDeal, sendJob, scanJob, refundJob, old, filecoin, chain, faults>>

(***************************************************************************)
(* Refund.                                                                 *)
(***************************************************************************)
\* Mutant: failed refunds are tried again.
ToRefundAgain == {f \in Files : fileStatus[f] \in {"DealSent", "UnlockRefundFailed"}}

\* GetDealFilesByStatus(DealSent).
ToRefund == {f \in Files : fileStatus[f] = "DealSent"}

RefundBegin ==
    /\ refundJob = RefundIdle /\ ToRefund # {}
    /\ refundJob' = [RefundIdle EXCEPT !.todo = ToRefund]
    /\ UNCHANGED <<db, sendJob, scanJob, unlockJob, old, filecoin, chain, faults>>

\* Mutant: a deal whose unlock failed counts as unlocked.
NothingNotUnlocked(f) == \A d \in DealsOf(f) \cap Recorded : offlineDeal[d].unlock # "NotUnlocked"

\* GetOfflineDealsNotUnlockedByDealFileId finds nothing.
NothingToUnlock(f) == \A d \in DealsOf(f) \cap Recorded : offlineDeal[d].unlock = "Unlocked"

\* Mutant: no early return when there are deals to unlock.
RefundCheckGoesOn(f) ==
    /\ refundJob.stage = "idle" /\ f \in refundJob.todo
    /\ refundJob' = [todo  |-> refundJob.todo \ {f},
                     file  |-> IF NothingToUnlock(f) THEN f ELSE None,
                     stage |-> "checked"]
    /\ UNCHANGED <<db, sendJob, scanJob, unlockJob, old, filecoin, chain, faults>>

RefundCheck(f) ==
    /\ refundJob.stage = "idle" /\ f \in refundJob.todo
    /\ refundJob' = [todo  |-> refundJob.todo \ {f},
                     file  |-> IF NothingToUnlock(f) THEN f ELSE None,
                     stage |-> IF NothingToUnlock(f) THEN "checked" ELSE "idle"]
    /\ UNCHANGED <<db, sendJob, scanJob, unlockJob, old, filecoin, chain, faults>>

RefundDone == refundJob' = [RefundIdle EXCEPT !.todo = refundJob.todo]

\* Mutant: the test for a payment that exists is inverted.
RefundReadSwapped ==
    /\ refundJob.stage = "checked"
    /\ IF refundJob.file \in exists
       THEN RefundDone
       ELSE refundJob' = [refundJob EXCEPT !.stage = "read"]
    /\ UNCHANGED <<db, sendJob, scanJob, unlockJob, old, filecoin, chain, faults>>

\* The locked payments are read: refund returns when one does not exist.
RefundRead ==
    /\ refundJob.stage = "checked"
    /\ IF refundJob.file \in exists
       THEN refundJob' = [refundJob EXCEPT !.stage = "read"]
       ELSE RefundDone
    /\ UNCHANGED <<db, sendJob, scanJob, unlockJob, old, filecoin, chain, faults>>

RefundSend ==
    /\ refundJob.stage = "read"
    /\ Len(txs) < MaxTxs
    /\ txs' = Append(txs, [kind |-> "refund", target |-> refundJob.file, result |-> "pending"])
    /\ refundJob' = [refundJob EXCEPT !.stage = "UnlockRefundSucceeded"]
    /\ UNCHANGED <<db, sendJob, scanJob, unlockJob, old, filecoin, locked, exists, released, faults>>

\* Refund returns an error: nothing was sent and the file will be RefundFailed;
\* or a call before it fails: the file stays DealSent.
RefundSendFails ==
    /\ refundJob.stage = "read"
    /\ Fault
    /\ \/ refundJob' = [refundJob EXCEPT !.stage = "UnlockRefundFailed"]
       \/ RefundDone
    /\ UNCHANGED <<db, sendJob, scanJob, unlockJob, old, filecoin, chain>>

\* The statuses are saved, without waiting for the receipt; or that fails.
RefundFinish ==
    /\ refundJob.stage \in {"UnlockRefundSucceeded", "UnlockRefundFailed"}
    /\ \/ /\ fileStatus' = [fileStatus EXCEPT ![refundJob.file] = refundJob.stage]
          /\ UNCHANGED faults
       \/ Fault /\ UNCHANGED fileStatus
    /\ RefundDone
    /\ UNCHANGED <<offlineDeal, event, sendJob, scanJob, unlockJob, old, filecoin, chain>>

(***************************************************************************)
(* The specification.                                                      *)
(***************************************************************************)
Environment ==
    \/ \E f \in Files : Age(f)
    \/ \E d \in Deals : DealPublished(d) \/ DealEnds(d, "active") \/ DealEnds(d, "error")
    \/ \E d \in Deals : DaoApproves(d) \/ PriceFulfilled(d)
    \/ Crash

Mine == \E i \in 1 .. MaxTxs : MineUnlock(i) \/ MineRefund(i)

SendDeal ==
    \/ \E f \in Files : \/ CancelSend(f)
                        \/ \E batch \in Proposable(f) : SendFails(f, batch) \/ SendBids(f, batch)
    \/ \E recorded \in SUBSET Deals : RecordDeals(recorded)
    \/ RecordFails

ScanDeal == ScanBegin \/ \E d \in Deals : ScanOne(d) \/ ScanFails(d)

UnlockPayment ==
    \/ UnlockBegin
    \/ \E d \in Deals : UnlockSkip(d) \/ UnlockSend(d) \/ UnlockSendFails(d)
    \/ UnlockReceipt \/ UnlockReceiptFails \/ UpdateUnlockPayment

RefundFiles ==
    \/ RefundBegin
    \/ \E f \in Files : RefundCheck(f)
    \/ RefundRead \/ RefundSend \/ RefundSendFails \/ RefundFinish

Next == Environment \/ Mine \/ SendDeal \/ ScanDeal \/ UnlockPayment \/ RefundFiles

Spec == Init /\ [][Next]_vars

\* The jobs are started by cron again and again, and the chain goes on.
FairSpec == Spec /\ WF_vars(Mine) /\ WF_vars(ScanDeal)
                 /\ WF_vars(UnlockPayment) /\ WF_vars(RefundFiles)
(***************************************************************************)
(* Properties.                                                             *)
(***************************************************************************)

\* Statuses are those of constants.go, the jobs hold what they read, and the
\* contract never pays more for a car file than was locked.
TypeOK ==
    /\ fileStatus \in [Files -> FileStatus]
    /\ offlineDeal \in [Deals -> Row]
    /\ event \in [Deals -> {"none", "opened", "completed"}]
    /\ sendJob \in [file : Files \cup {None}, deals : SUBSET Deals]
    /\ scanJob \in [Deals -> Row]
    /\ unlockJob \in [todo : SUBSET Deals, deal : Deals \cup {None}, tx : Nat,
                      stage : {"idle", "sent", "unlocked"}]
    /\ refundJob \in [todo : SUBSET Files, file : Files \cup {None},
                      stage : {"idle", "checked", "read",
                               "UnlockRefundSucceeded", "UnlockRefundFailed"}]
    /\ refundJob.stage # "idle" => refundJob.file \in Files
    /\ old \subseteq Files
    /\ market \in [Deals -> [status : DealStatus \cup {"none"}, hasId : BOOLEAN]]
    /\ approved \subseteq Deals /\ priced \subseteq Deals
    /\ txs \in Seq(Tx)
    /\ locked \in [Files -> Nat]
    /\ exists \subseteq Files
    /\ released \in [Deals -> Nat]
    /\ faults \in 0 .. MaxFaults

\* A deal is marked Unlocked only when an unlock transaction for it was mined and
\* succeeded (doUnlockDeal 356-386), whatever row ScanDeal writes back, and
\* whichever job is lost in a crash between the transaction and the update.
UnlockedIsPaid ==
    \A d \in Deals : offlineDeal[d].unlock = "Unlocked" => d \in PaidDeals

\* README.md step 10 for the deals MCS recorded: the refund transaction of a car
\* file is sent only after an unlock transaction for each of them succeeded, also
\* when a late write of ScanDeal makes such a deal NotUnlocked again.
RefundAfterRecordedDeals ==
    \A i \in DOMAIN txs : txs[i].kind = "refund" =>
        DealsOf(txs[i].target) \cap Recorded \subseteq PaidDeals

\* Recorded deals belong to a file whose deals were sent, and recording is over
\* when its refund may begin: no deal appears after Refund looked at the file.
RecordedWithFile ==
    \A d \in Recorded : fileStatus[FileOf[d]] \notin {"TaskCreated", "DealSendCancelled", "DealSentFailed"}

\* The files whose refund transaction was sent, and what the contract still holds of a fee.
AskedFor == {f \in Files : \E i \in DOMAIN txs : txs[i].kind = "refund" /\ txs[i].target = f}
Rest == [f \in Files |-> IF f \in exists THEN locked[f] ELSE 0]

Promise == INSTANCE Settlement WITH
    Fee <- LockedFee, Cost <- DealCost, status <- fileStatus, known <- Recorded,
    agreed <- approved, paid <- PaidDeals, asked <- AskedFor, returned <- Files \ exists,
    left <- Rest

\* README.md, steps 7 to 10, whatever the jobs hold, whatever is mined late, lost or sent
\* again: a file's status moves forward only (constants.go 37-42) and its deals are recorded
\* together; only recorded deals the DAO agreed to are paid, out of the fee that was not yet
\* returned; the refund is asked for when all recorded deals were paid, and recorded as
\* succeeded when it was asked for.
SettlesAsPromised == Promise!Spec

\* README.md: what was paid to the Filecoin network for a deal is transferred to
\* the MCS payment receiver in the unlock step.  So a deal is paid for once.
\* ScanDeal's write of a row it read earlier makes an Unlocked deal NotUnlocked.
PaidOnce == \A d \in Deals : released[d] <= DealCost

\* README.md step 10: the remaining money is refunded after all deals of a car file
\* are unlocked.  Refund looks at recorded deals only, and SendDeal (119-124) skips a
\* deal Lotus has no answer for; while no call has failed, there is no deal on Filecoin
\* that Refund does not know of.
RefundAfterAllDeals ==
    faults = 0 => \A i \in DOMAIN txs : txs[i].kind = "refund" =>
        {d \in DealsOf(txs[i].target) : market[d].status # "none"} \subseteq PaidDeals

AllUnlocked(f) ==
    /\ fileStatus[f] = "DealSent"
    /\ DealsOf(f) \cap Recorded # {}
    /\ NothingToUnlock(f)

\* README.md step 10 again: once all deals of a car file are unlocked the remaining
\* money is refunded.  The code does not keep this: see GivenUp.
RefundedEventually == \A f \in Files : AllUnlocked(f) ~> f \notin exists

\* The ends at which Refund does not look at a file again though its payment exists: it
\* said so itself; it noted a success and the transaction reverted (refund.go 145-160 does
\* not wait for it); or a deal that was paid for is UnlockFailed, because ScanDeal made
\* it NotUnlocked again and the second unlock reverted or was not sent, or because CheckTx
\* gave up (unlock_payment.go 356-373): GetOfflineDealsNotUnlockedByDealFileId then finds it.
GivenUp(f) ==
    \/ fileStatus[f] = "UnlockRefundFailed"
    \/ /\ fileStatus[f] = "UnlockRefundSucceeded"
       /\ \E i \in DOMAIN txs :
             txs[i].kind = "refund" /\ txs[i].target = f /\ txs[i].result = "reverted"
    \/ \E d \in DealsOf(f) \cap PaidDeals : offlineDeal[d].unlock = "UnlockFailed"

\* Once all deals of a car file are unlocked its money is refunded or the file ends in one
\* of the ways above, with a crash, a lost call or a late write of ScanDeal on the way and a
\* fee that pays for each deal once: no file stays between the jobs.
RefundedOrGivenUp == \A f \in Files : AllUnlocked(f) ~> (f \notin exists \/ GivenUp(f))

\* A recorded deal the DAO agreed to gets its unlock transaction, as long as the
\* user's payment exists.
ApprovedIsSettled ==
    \A d \in Deals :
        (d \in Recorded /\ d \in approved) ~>
            (offlineDeal[d].unlock # "NotUnlocked" \/ FileOf[d] \notin exists)
=============================================================================
