----------------------- MODULE DealSettlementProofs -----------------------
(***************************************************************************)
(* Proofs about DealSettlement: statuses only move forward, an Unlocked    *)
(* deal has a mined unlock transaction, and no refund is sent before every *)
(* recorded deal of the car file has one, nor, while no call has failed,   *)
(* before every deal has.                                                  *)
(*                                                                         *)
(* The invariants are proved in layers.  Each layer relates what the jobs  *)
(* hold, which may be old, to the database and the chain as they are now.  *)
(***************************************************************************)
EXTENDS DealSettlement, SequenceTheorems, TLAPS

\* Mining changes the result of a transaction and nothing else of it.
LEMMA MinedType ==
    ASSUME txs \in Seq(Tx), NEW i \in DOMAIN txs, NEW result \in {"ok", "reverted"},
           txs' = [txs EXCEPT ![i].result = result]
    PROVE  /\ txs' \in Seq(Tx)
           /\ DOMAIN txs' = DOMAIN txs
           /\ Len(txs') = Len(txs)
           /\ \A j \in DOMAIN txs : /\ txs'[j].kind = txs[j].kind
                                    /\ txs'[j].target = txs[j].target
                                    /\ txs'[j].result = IF j = i THEN result ELSE txs[j].result
<1>1. DOMAIN txs = 1 .. Len(txs) /\ txs \in [1 .. Len(txs) -> Tx]
  BY LenProperties
<1> DEFINE mined == [txs[i] EXCEPT !.result = result]
<1>2. mined \in Tx /\ mined.kind = txs[i].kind /\ mined.target = txs[i].target
      /\ mined.result = result
  BY <1>1 DEF Tx
<1>3. txs' = [txs EXCEPT ![i] = mined]
  OBVIOUS
<1> HIDE DEF mined
<1>4. /\ txs' \in Seq(Tx) /\ Len(txs') = Len(txs)
      /\ \A j \in 1 .. Len(txs) : txs'[j] = IF j = i THEN mined ELSE txs[j]
  BY <1>1, <1>2, <1>3, ExceptSeq
<1>5. DOMAIN txs' = DOMAIN txs
  BY <1>1, <1>4, LenProperties
<1>6. QED
  BY <1>1, <1>2, <1>4, <1>5

\* A transaction that is sent comes after all others.
LEMMA SentType ==
    ASSUME txs \in Seq(Tx), NEW kind \in {"unlock", "refund"}, NEW target \in Deals \cup Files,
           txs' = Append(txs, [kind |-> kind, target |-> target, result |-> "pending"])
    PROVE  /\ txs' \in Seq(Tx)
           /\ Len(txs) + 1 \in DOMAIN txs'
           /\ DOMAIN txs' = DOMAIN txs \cup {Len(txs) + 1}
           /\ Len(txs) \in Nat
           /\ \A j \in DOMAIN txs : txs'[j] = txs[j]
           /\ txs'[Len(txs) + 1] = [kind |-> kind, target |-> target, result |-> "pending"]
<1> DEFINE sent == [kind |-> kind, target |-> target, result |-> "pending"]
<1>1. sent \in Tx
  BY DEF Tx
<1> HIDE DEF sent
<1>2. txs' = Append(txs, sent)
  BY DEF sent
<1>3. /\ txs' \in Seq(Tx) /\ Len(txs') = Len(txs) + 1
      /\ \A j \in 1 .. Len(txs) : txs'[j] = txs[j]
      /\ txs'[Len(txs) + 1] = sent
  BY <1>1, <1>2, AppendProperties
<1>4. /\ DOMAIN txs = 1 .. Len(txs) /\ Len(txs) \in Nat
      /\ DOMAIN txs' = 1 .. Len(txs')
  BY <1>3, LenProperties
<1>5. QED
  BY <1>3, <1>4 DEF sent

\* A new unlock status of a deal is well typed.
LEMMA SetUnlockType ==
    ASSUME offlineDeal \in [Deals -> Row], NEW d, NEW status \in UnlockStatus,
           SetUnlock(d, status)
    PROVE  /\ offlineDeal' \in [Deals -> Row]
           /\ \A e \in Deals : offlineDeal'[e] =
                 IF e = d THEN [offlineDeal[e] EXCEPT !.unlock = status] ELSE offlineDeal[e]
BY DEF SetUnlock, Row

(***************************************************************************)
(* Types.                                                                  *)
(***************************************************************************)
LEMMA InitType == Init => TypeOK
<1> SUFFICES ASSUME Init PROVE TypeOK
  OBVIOUS
<1>1. NoRow \in Row
  BY DEF NoRow, Row, UnlockStatus
<1>2. txs \in Seq(Tx)
  BY EmptySeq DEF Init
<1>3. /\ sendJob \in [file : Files \cup {None}, deals : SUBSET Deals]
      /\ unlockJob \in [todo : SUBSET Deals, deal : Deals \cup {None}, tx : Nat,
                        stage : {"idle", "sent", "unlocked"}]
      /\ refundJob \in [todo : SUBSET Files, file : Files \cup {None},
                        stage : {"idle", "checked", "read",
                                 "UnlockRefundSucceeded", "UnlockRefundFailed"}]
  BY DEF Init, SendIdle, UnlockIdle, RefundIdle
<1>4. scanJob \in [Deals -> Row] /\ offlineDeal \in [Deals -> Row]
  BY <1>1 DEF Init, ScanIdle
<1>5. fileStatus \in [Files -> FileStatus] /\ market \in [Deals -> [status : DealStatus \cup {"none"}, hasId : BOOLEAN]]
  BY DEF Init, FileStatus
<1>6. event \in [Deals -> {"none", "opened", "completed"}] /\ refundJob.stage = "idle"
  BY DEF Init, RefundIdle
<1>7. locked \in [Files -> Nat] /\ released \in [Deals -> Nat] /\ faults \in 0 .. MaxFaults
  BY ConstantsAssumption DEF Init
<1>8. old \subseteq Files /\ exists \subseteq Files /\ approved \subseteq Deals /\ priced \subseteq Deals
  BY DEF Init
<1>9. QED
  BY <1>2, <1>3, <1>4, <1>5, <1>6, <1>7, <1>8 DEF TypeOK

\* Steps of the outside world, the chain apart.
LEMMA WorldType ==
    ASSUME TypeOK, Environment
    PROVE  TypeOK'
<1> USE DEF TypeOK
<1>1. ASSUME NEW f \in Files, Age(f) PROVE TypeOK'
  BY <1>1 DEF Age, db, jobs, filecoin, chain
<1>2. ASSUME NEW d \in Deals, DealPublished(d) PROVE TypeOK'
  <2>1. market' \in [Deals -> [status : DealStatus \cup {"none"}, hasId : BOOLEAN]]
    BY <1>2 DEF DealPublished, DealStatus
  <2>2. QED
    BY <1>2, <2>1 DEF DealPublished, db, jobs, chain
<1>3. ASSUME NEW d \in Deals, NEW status \in {"active", "error"}, DealEnds(d, status) PROVE TypeOK'
  <2>1. market' \in [Deals -> [status : DealStatus \cup {"none"}, hasId : BOOLEAN]]
    <3>1. [market[d] EXCEPT !.status = status] \in [status : DealStatus \cup {"none"}, hasId : BOOLEAN]
      <4>1. market[d] \in [status : DealStatus \cup {"none"}, hasId : BOOLEAN]
        OBVIOUS
      <4>2. status \in DealStatus \cup {"none"}
        BY DEF DealStatus
      <4>3. QED
        BY <4>1, <4>2
    <3>2. market' = [market EXCEPT ![d] = [market[d] EXCEPT !.status = status]]
      BY <1>3 DEF DealEnds
    <3>3. QED
      BY <3>1, <3>2
  <2>2. QED
    BY <1>3, <2>1 DEF DealEnds, db, jobs, chain
<1>4. ASSUME NEW d \in Deals, DaoApproves(d) PROVE TypeOK'
  BY <1>4 DEF DaoApproves, db, jobs, chain
<1>5. ASSUME NEW d \in Deals, PriceFulfilled(d) PROVE TypeOK'
  BY <1>5 DEF PriceFulfilled, db, jobs, chain
<1>6. CASE Crash
  <2>1. NoRow \in Row
    BY DEF NoRow, Row, UnlockStatus
  <2>2. QED
    BY <1>6, <2>1, ConstantsAssumption
       DEF Crash, Fault, SendIdle, ScanIdle, UnlockIdle, RefundIdle, db, filecoin, chain
<1>7. QED
  BY <1>1, <1>2, <1>3, <1>4, <1>5, <1>6 DEF Environment

LEMMA MineType ==
    ASSUME TypeOK, Mine
    PROVE  TypeOK'
<1> USE DEF TypeOK
<1>1. ASSUME NEW i \in 1 .. MaxTxs, MineUnlock(i) PROVE TypeOK'
  <2>1. txs' \in Seq(Tx)
    BY <1>1, MinedType DEF MineUnlock, Mines
  <2>2. locked' \in [Files -> Nat] /\ released' \in [Deals -> Nat]
    <3> DEFINE d == txs[i].target
               f == FileOf[d]
    <3>1. CASE locked[f] >= DealCost /\ locked' = [locked EXCEPT ![f] = @ - DealCost]
                 /\ released' = [released EXCEPT ![d] = @ + DealCost]
      <4>1. f \in Files => locked[f] - DealCost \in Nat
        BY <3>1, ConstantsAssumption
      <4>2. d \in Deals => released[d] + DealCost \in Nat
        BY ConstantsAssumption
      <4>3. locked' \in [Files -> Nat]
        BY <3>1, <4>1
      <4>4. released' \in [Deals -> Nat]
        BY <3>1, <4>2
      <4>5. QED
        BY <4>3, <4>4
    <3>2. CASE UNCHANGED <<locked, released>>
      BY <3>2
    <3>3. QED
      BY <1>1, <3>1, <3>2 DEF MineUnlock
  <2>3. QED
    BY <1>1, <2>1, <2>2 DEF MineUnlock, Mines, db, jobs, filecoin
<1>2. ASSUME NEW i \in 1 .. MaxTxs, MineRefund(i) PROVE TypeOK'
  <2>1. txs' \in Seq(Tx)
    BY <1>2, MinedType DEF MineRefund, Mines
  <2>2. faults' \in 0 .. MaxFaults
    BY <1>2, ConstantsAssumption DEF MineRefund, Fault
  <2>3. exists' \subseteq Files
    BY <1>2 DEF MineRefund
  <2>4. QED
    BY <1>2, <2>1, <2>2, <2>3 DEF MineRefund, Mines, db, jobs, filecoin
<1>3. QED
  BY <1>1, <1>2 DEF Mine

LEMMA SendDealType ==
    ASSUME TypeOK, SendDeal
    PROVE  TypeOK'
<1> USE DEF TypeOK
<1> DEFINE Market == [Deals -> [status : DealStatus \cup {"none"}, hasId : BOOLEAN]]
<1>1. ASSUME NEW f \in Files, CancelSend(f) PROVE TypeOK'
  BY <1>1 DEF CancelSend, FileStatus, jobs, filecoin, chain
<1>2. ASSUME NEW batch, Propose(batch) PROVE market' \in Market
  BY <1>2 DEF Propose, DealStatus
<1>3. ASSUME NEW f \in Files, NEW batch \in Proposable(f), SendFails(f, batch) PROVE TypeOK'
  <2>1. fileStatus' \in [Files -> FileStatus] /\ market' \in Market
    BY <1>2, <1>3 DEF SendFails, FileStatus
  <2>2. QED
    BY <1>3, <2>1, ConstantsAssumption DEF SendFails, Fault, jobs, chain
<1>4. ASSUME NEW f \in Files, NEW batch \in Proposable(f), SendBids(f, batch) PROVE TypeOK'
  <2>1. market' \in Market /\ batch \subseteq Deals
    BY <1>2, <1>4 DEF SendBids, Proposable, DealsOf
  <2>2. QED
    BY <1>4, <2>1 DEF SendBids, db, chain
<1>5. ASSUME NEW recorded \in SUBSET Deals, RecordDeals(recorded) PROVE TypeOK'
  <2>1. offlineDeal' \in [Deals -> Row]
    BY <1>5 DEF RecordDeals, Row, UnlockStatus
  <2>2. fileStatus' \in [Files -> FileStatus]
    BY <1>5 DEF RecordDeals, FileStatus
  <2>3. QED
    BY <1>5, <2>1, <2>2, ConstantsAssumption DEF RecordDeals, Fault, SendIdle, filecoin, chain
<1>6. CASE RecordFails
  BY <1>6, ConstantsAssumption DEF RecordFails, Fault, SendIdle, db, filecoin, chain
<1>7. QED
  BY <1>1, <1>3, <1>4, <1>5, <1>6 DEF SendDeal

LEMMA ScanDealType ==
    ASSUME TypeOK, ScanDeal
    PROVE  TypeOK'
<1> USE DEF TypeOK
<1>1. NoRow \in Row
  BY DEF NoRow, Row, UnlockStatus
<1>2. CASE ScanBegin
  BY <1>1, <1>2 DEF ScanBegin, db, filecoin, chain
<1>3. ASSUME NEW d \in Deals, ScanOne(d) PROVE TypeOK'
  <2>1. Rescanned(d) \in Row
    <3>1. /\ scanJob[d] \in Row /\ offlineDeal[d] \in Row
          /\ market[d].status \in DealStatus \cup {"none"} /\ market[d].hasId \in BOOLEAN
      OBVIOUS
    <3>2. [scanJob[d] EXCEPT !.status = market[d].status, !.hasId = market[d].hasId] \in Row
      BY <3>1 DEF Row
    <3>3. QED
      BY <3>1, <3>2 DEF Rescanned
  <2>2. QED
    BY <1>1, <1>3, <2>1 DEF ScanOne, filecoin, chain
<1>4. ASSUME NEW d \in Deals, ScanFails(d) PROVE TypeOK'
  <2>1. scanJob' \in [Deals -> Row]
    <3>1. [scanJob EXCEPT ![d] = NoRow] \in [Deals -> Row] /\ ScanIdle \in [Deals -> Row]
      BY <1>1 DEF ScanIdle
    <3>2. QED
      BY <1>4, <3>1 DEF ScanFails
  <2>2. QED
    BY <1>4, <2>1, ConstantsAssumption DEF ScanFails, Fault, db, filecoin, chain
<1>5. QED
  BY <1>2, <1>3, <1>4 DEF ScanDeal

LEMMA UnlockPaymentType ==
    ASSUME TypeOK, UnlockPayment
    PROVE  TypeOK'
<1> USE DEF TypeOK
<1> DEFINE Job == [todo : SUBSET Deals, deal : Deals \cup {None}, tx : Nat,
                   stage : {"idle", "sent", "unlocked"}]
           Events == [Deals -> {"none", "opened", "completed"}]
<1>1. CASE UnlockBegin
  <2>1. unlockJob' \in Job
    BY <1>1 DEF UnlockBegin, UnlockIdle, ToUnlock, Recorded
  <2>2. QED
    BY <1>1, <2>1 DEF UnlockBegin, db, filecoin, chain
<1>2. ASSUME NEW d, UnlockDone(d) PROVE unlockJob' \in Job
  BY <1>2 DEF UnlockDone, UnlockIdle
<1>3. ASSUME NEW d \in Deals, UnlockSkip(d) PROVE TypeOK'
  BY <1>2, <1>3 DEF UnlockSkip, UnlockNext, filecoin
<1>4. ASSUME NEW d \in Deals, UnlockSend(d) PROVE TypeOK'
  <2>1. txs' \in Seq(Tx) /\ Len(txs) \in Nat
    BY <1>4, SentType DEF UnlockSend
  <2>2. unlockJob' \in Job
    BY <1>4, <2>1 DEF UnlockSend
  <2>3. event' \in Events
    BY <1>4 DEF UnlockSend
  <2>4. QED
    BY <1>4, <2>1, <2>2, <2>3 DEF UnlockSend, UnlockNext, filecoin
<1>5. ASSUME NEW d \in Deals, UnlockSendFails(d) PROVE TypeOK'
  <2>1. offlineDeal' \in [Deals -> Row]
    BY <1>5, SetUnlockType DEF UnlockSendFails, UnlockStatus
  <2>2. unlockJob' \in Job
    BY <1>2, <1>5 DEF UnlockSendFails
  <2>3. event' \in Events
    <3>1. [event EXCEPT ![d] = "opened"] \in Events
      OBVIOUS
    <3>2. QED
      BY <1>5, <3>1 DEF UnlockSendFails
  <2>4. QED
    BY <1>5, <2>1, <2>2, <2>3, ConstantsAssumption DEF UnlockSendFails, UnlockNext, Fault, filecoin
<1>6. CASE UnlockReceipt
  <2>1. offlineDeal' \in [Deals -> Row]
    BY <1>6, SetUnlockType DEF UnlockReceipt, UnlockStatus
  <2>2. unlockJob' \in Job
    BY <1>2, <1>6 DEF UnlockReceipt
  <2>3. QED
    BY <1>6, <2>1, <2>2 DEF UnlockReceipt, filecoin, chain
<1>7. CASE UnlockReceiptFails
  <2>1. offlineDeal' \in [Deals -> Row]
    BY <1>7, SetUnlockType DEF UnlockReceiptFails, UnlockStatus
  <2>2. unlockJob' \in Job
    BY <1>2, <1>7 DEF UnlockReceiptFails
  <2>3. QED
    BY <1>7, <2>1, <2>2, ConstantsAssumption DEF UnlockReceiptFails, Fault, filecoin, chain
<1>8. CASE UpdateUnlockPayment
  <2>1. event' \in Events /\ unlockJob' \in Job
    BY <1>2, <1>8 DEF UpdateUnlockPayment
  <2>2. QED
    BY <1>8, <2>1 DEF UpdateUnlockPayment, filecoin, chain
<1>9. QED
  BY <1>1, <1>3, <1>4, <1>5, <1>6, <1>7, <1>8 DEF UnlockPayment

LEMMA RefundType ==
    ASSUME TypeOK, RefundFiles
    PROVE  TypeOK'
<1> USE DEF TypeOK
<1> DEFINE Job == [todo : SUBSET Files, file : Files \cup {None},
                   stage : {"idle", "checked", "read",
                            "UnlockRefundSucceeded", "UnlockRefundFailed"}]
<1> DEFINE Good(job) == job \in Job /\ (job.stage # "idle" => job.file \in Files)
<1>1. ASSUME RefundDone PROVE Good(refundJob')
  BY <1>1 DEF RefundDone, RefundIdle
<1>2. CASE RefundBegin
  <2>1. Good(refundJob')
    BY <1>2 DEF RefundBegin, RefundIdle, ToRefund
  <2>2. QED
    BY <1>2, <2>1 DEF RefundBegin, db, filecoin, chain
<1>3. ASSUME NEW f \in Files, RefundCheck(f) PROVE TypeOK'
  <2>1. Good(refundJob')
    BY <1>3 DEF RefundCheck
  <2>2. QED
    BY <1>3, <2>1 DEF RefundCheck, db, filecoin, chain
<1>4. CASE RefundRead
  <2>1. Good(refundJob')
    BY <1>1, <1>4 DEF RefundRead
  <2>2. QED
    BY <1>4, <2>1 DEF RefundRead, db, filecoin, chain
<1>5. CASE RefundSend
  <2>1. txs' \in Seq(Tx)
    <3>1. refundJob.file \in Deals \cup Files
      BY <1>5 DEF RefundSend
    <3>2. QED
      BY <1>5, <3>1, SentType DEF RefundSend
  <2>2. Good(refundJob')
    BY <1>5 DEF RefundSend
  <2>3. QED
    BY <1>5, <2>1, <2>2 DEF RefundSend, db, filecoin
<1>6. CASE RefundSendFails
  <2>1. Good(refundJob')
    <3>1. CASE refundJob' = [refundJob EXCEPT !.stage = "UnlockRefundFailed"]
      BY <1>6, <3>1 DEF RefundSendFails
    <3>2. CASE RefundDone
      BY <1>1, <3>2
    <3>3. QED
      BY <1>6, <3>1, <3>2 DEF RefundSendFails
  <2>2. faults' \in 0 .. MaxFaults
    BY <1>6, ConstantsAssumption DEF RefundSendFails, Fault
  <2>3. QED
    BY <1>6, <2>1, <2>2 DEF RefundSendFails, db, filecoin, chain
<1>7. CASE RefundFinish
  <2>1. Good(refundJob')
    BY <1>1, <1>7 DEF RefundFinish
  <2>2. fileStatus' \in [Files -> FileStatus]
    <3>1. refundJob.stage \in FileStatus
      BY <1>7 DEF RefundFinish, FileStatus
    <3>2. QED
      BY <1>7, <3>1 DEF RefundFinish
  <2>3. faults' \in 0 .. MaxFaults
    BY <1>7, ConstantsAssumption DEF RefundFinish, Fault
  <2>4. QED
    BY <1>7, <2>1, <2>2, <2>3 DEF RefundFinish, filecoin, chain
<1>8. QED
  BY <1>2, <1>3, <1>4, <1>5, <1>6, <1>7 DEF RefundFiles

\* Statuses and what the jobs hold are well typed in every reachable state.
THEOREM TypeCorrect == Spec => []TypeOK
<1>1. TypeOK /\ [Next]_vars => TypeOK'
  <2>1. TypeOK /\ Next => TypeOK'
    BY WorldType, MineType, SendDealType, ScanDealType, UnlockPaymentType, RefundType DEF Next
  <2>2. TypeOK /\ UNCHANGED vars => TypeOK'
    BY DEF TypeOK, vars, db, jobs, filecoin, chain
  <2>3. QED
    BY <2>1, <2>2
<1>2. QED
  BY <1>1, InitType, PTL DEF Spec

(***************************************************************************)
(* Files.  While SendDeal or Refund works on a file nobody else changes    *)
(* the file's status.                                                      *)
(***************************************************************************)
SendOwns ==
    sendJob # SendIdle =>
        /\ sendJob.file \in Files
        /\ fileStatus[sendJob.file] = "TaskCreated"
        /\ sendJob.deals \subseteq DealsOf(sendJob.file)

RefundOwns ==
    /\ \A f \in refundJob.todo : fileStatus[f] = "DealSent"
    /\ refundJob.stage # "idle" =>
          fileStatus[refundJob.file] = "DealSent" /\ refundJob.file \notin refundJob.todo

FileInv == SendOwns /\ RefundOwns

\* deal_file.lock_payment_status only moves forward.
Forward(f) ==
    fileStatus'[f] # fileStatus[f] =>
        \/ fileStatus[f] = "TaskCreated" /\ fileStatus'[f] \in {"DealSent", "DealSentFailed", "DealSendCancelled"}
        \/ fileStatus[f] = "DealSent" /\ fileStatus'[f] \in {"UnlockRefundSucceeded", "UnlockRefundFailed"}

LEMMA FileStep ==
    ASSUME TypeOK, FileInv, [Next]_vars
    PROVE  FileInv' /\ \A f \in Files : Forward(f)
<1> USE DEF TypeOK, FileInv, SendOwns, RefundOwns, Forward
<1> DEFINE Goal == FileInv' /\ \A f \in Files : Forward(f)
<1>1. CASE UNCHANGED <<fileStatus, sendJob, refundJob>>
  BY <1>1
<1>2. CASE Crash
  BY <1>2 DEF Crash, db, SendIdle, RefundIdle
<1>3. ASSUME NEW f \in Files, CancelSend(f) PROVE Goal
  BY <1>3 DEF CancelSend, ToSend, jobs
<1>4. ASSUME NEW f \in Files, NEW batch \in Proposable(f), SendFails(f, batch) PROVE Goal
  BY <1>4 DEF SendFails, ToSend, jobs
<1>5. ASSUME NEW f \in Files, NEW batch \in Proposable(f), SendBids(f, batch) PROVE Goal
  <2>1. batch \subseteq DealsOf(f)
    BY <1>5 DEF Proposable
  <2>2. QED
    BY <1>5, <2>1 DEF SendBids, ToSend, db
<1>6. ASSUME NEW recorded \in SUBSET Deals, RecordDeals(recorded) PROVE Goal
  BY <1>6 DEF RecordDeals
<1>7. CASE RecordFails
  BY <1>7 DEF RecordFails, db
<1>8. CASE RefundBegin
  BY <1>8 DEF RefundBegin, ToRefund, RefundIdle, db
<1>9. ASSUME NEW f \in Files, RefundCheck(f) PROVE Goal
  BY <1>9 DEF RefundCheck, db
<1>10. CASE RefundRead
  BY <1>10 DEF RefundRead, RefundDone, RefundIdle, db
<1>11. CASE RefundSend
  BY <1>11 DEF RefundSend, db
<1>12. CASE RefundSendFails
  BY <1>12 DEF RefundSendFails, RefundDone, RefundIdle, db
<1>13. CASE RefundFinish
  BY <1>13 DEF RefundFinish, RefundDone, RefundIdle
<1>14. QED
  <2>1. CASE Environment
    BY <1>1, <1>2, <2>1 DEF Environment, Age, DealPublished, DealEnds, DaoApproves,
                            PriceFulfilled, db, jobs
  <2>2. CASE Mine
    BY <1>1, <2>2 DEF Mine, MineUnlock, MineRefund, Mines, db, jobs
  <2>3. CASE SendDeal
    BY <1>3, <1>4, <1>5, <1>6, <1>7, <2>3 DEF SendDeal
  <2>4. CASE ScanDeal
    BY <1>1, <2>4 DEF ScanDeal, ScanBegin, ScanOne, ScanFails, db
  <2>5. CASE UnlockPayment
    BY <1>1, <2>5 DEF UnlockPayment, UnlockBegin, UnlockSkip, UnlockSend, UnlockSendFails,
                      UnlockNext, UnlockReceipt, UnlockReceiptFails, UpdateUnlockPayment, db
  <2>6. CASE RefundFiles
    BY <1>8, <1>9, <1>10, <1>11, <1>12, <1>13, <2>6 DEF RefundFiles
  <2>7. CASE UNCHANGED vars
    BY <1>1, <2>7 DEF vars, db, jobs
  <2>8. QED
    BY <2>1, <2>2, <2>3, <2>4, <2>5, <2>6, <2>7 DEF Next

LEMMA FilesOwned == Spec => []FileInv
<1>1. Init => FileInv
  BY DEF Init, FileInv, SendOwns, RefundOwns, RefundIdle
<1>2. QED
  BY <1>1, FileStep, TypeCorrect, PTL DEF Spec

(***************************************************************************)
(* Records.  A row that a job holds is still in the table when it is       *)
(* written back, and rows are never lost, so no write makes a row anew.    *)
(***************************************************************************)
Early == {"TaskCreated", "DealSendCancelled", "DealSentFailed"}

Marketed == \A d \in Deals : d \in Recorded \cup sendJob.deals => market[d].status # "none"

JobsRecorded ==
    /\ \A d \in Deals : scanJob[d] # NoRow => d \in Recorded
    /\ unlockJob.todo \subseteq Recorded
    /\ unlockJob.stage # "idle" => unlockJob.deal \in Recorded

RecordInv == Marketed /\ JobsRecorded /\ RecordedWithFile

\* What a step may do to the set of recorded deals.
RecordsGrow ==
    /\ Recorded \subseteq Recorded'
    /\ Recorded' \subseteq Recorded \cup sendJob.deals
    /\ Recorded' # Recorded => \E recorded \in SUBSET Deals : RecordDeals(recorded)

\* No deal leaves the market.
LEMMA MarketGrows ==
    ASSUME TypeOK, [Next]_vars
    PROVE  \A d \in Deals : market[d].status # "none" => market'[d].status # "none"
<1> USE DEF TypeOK
<1> DEFINE Goal == \A d \in Deals : market[d].status # "none" => market'[d].status # "none"
<1>1. CASE UNCHANGED market
  BY <1>1
<1>2. ASSUME NEW d \in Deals, DealPublished(d) PROVE Goal
  BY <1>2 DEF DealPublished
<1>3. ASSUME NEW d \in Deals, NEW status \in {"active", "error"}, DealEnds(d, status) PROVE Goal
  BY <1>3 DEF DealEnds
<1>4. ASSUME NEW batch, Propose(batch) PROVE Goal
  BY <1>4 DEF Propose
<1>5. QED
  <2>1. CASE Environment
    BY <1>1, <1>2, <1>3, <2>1 DEF Environment, Age, DaoApproves, PriceFulfilled, Crash, filecoin
  <2>2. CASE Mine
    BY <1>1, <2>2 DEF Mine, MineUnlock, MineRefund, Mines, filecoin
  <2>3. CASE SendDeal
    BY <1>1, <1>4, <2>3 DEF SendDeal, CancelSend, SendFails, SendBids, RecordDeals, RecordFails, filecoin
  <2>4. CASE ScanDeal
    BY <1>1, <2>4 DEF ScanDeal, ScanBegin, ScanOne, ScanFails, filecoin
  <2>5. CASE UnlockPayment
    BY <1>1, <2>5 DEF UnlockPayment, UnlockBegin, UnlockSkip, UnlockSend, UnlockSendFails,
                      UnlockNext, UnlockReceipt, UnlockReceiptFails, UpdateUnlockPayment, filecoin
  <2>6. CASE RefundFiles
    BY <1>1, <2>6 DEF RefundFiles, RefundBegin, RefundCheck, RefundRead, RefundSend,
                      RefundSendFails, RefundFinish, filecoin
  <2>7. CASE UNCHANGED vars
    BY <1>1, <2>7 DEF vars, filecoin
  <2>8. QED
    BY <2>1, <2>2, <2>3, <2>4, <2>5, <2>6, <2>7 DEF Next

\* Setting the unlock status of a recorded deal records no other deal and loses none.
LEMMA SetUnlockRecords ==
    ASSUME TypeOK, NEW d \in Recorded, NEW status \in {"Unlocked", "UnlockFailed"},
           SetUnlock(d, status)
    PROVE  Recorded' = Recorded
<1>1. d \in Deals /\ offlineDeal \in [Deals -> Row] /\ status \in UnlockStatus
  BY DEF Recorded, TypeOK, UnlockStatus
<1>2. \A e \in Deals : offlineDeal'[e] =
         IF e = d THEN [offlineDeal[e] EXCEPT !.unlock = status] ELSE offlineDeal[e]
  BY <1>1, SetUnlockType
<1>3. offlineDeal'[d].unlock = status
  BY <1>1, <1>2 DEF Row
<1>4. offlineDeal'[d] # NoRow
  BY <1>3 DEF NoRow
<1>5. QED
  BY <1>2, <1>4 DEF Recorded

LEMMA RecordStep ==
    ASSUME TypeOK, FileInv, RecordInv, [Next]_vars
    PROVE  RecordsGrow
<1> USE DEF TypeOK
<1>1. CASE UNCHANGED offlineDeal
  BY <1>1 DEF RecordsGrow, Recorded
<1>2. ASSUME NEW recorded \in SUBSET Deals, RecordDeals(recorded) PROVE RecordsGrow
  <2>1. \A d \in Deals : offlineDeal'[d] =
           IF d \in recorded
           THEN [status |-> market[d].status, hasId |-> market[d].hasId, unlock |-> "NotUnlocked"]
           ELSE offlineDeal[d]
    BY <1>2 DEF RecordDeals
  <2>2. recorded \subseteq sendJob.deals /\ sendJob # SendIdle
    BY <1>2 DEF RecordDeals
  <2>3. \A d \in recorded : market[d].status # "none"
    BY <2>2 DEF RecordInv, Marketed
  <2>4. \A d \in recorded : offlineDeal'[d] # NoRow
    <3>1. ASSUME NEW d \in recorded PROVE offlineDeal'[d].status = market[d].status
      <4>1. offlineDeal'[d] =
               [status |-> market[d].status, hasId |-> market[d].hasId, unlock |-> "NotUnlocked"]
        BY <2>1
      <4>2. QED
        BY <4>1
    <3>2. NoRow.status = "none"
      BY DEF NoRow
    <3>3. QED
      BY <2>3, <3>1, <3>2
  <2>5. QED
    BY <1>2, <2>1, <2>2, <2>4 DEF RecordsGrow, Recorded
<1>3. ASSUME NEW d \in Deals, ScanOne(d) PROVE RecordsGrow
  <2>1. offlineDeal' = [offlineDeal EXCEPT ![d] = Rescanned(d)] /\ d \in Recorded
    BY <1>3 DEF ScanOne, RecordInv, JobsRecorded
  <2>2. market[d].status # "none"
    BY <2>1 DEF RecordInv, Marketed
  <2>3. Rescanned(d) # NoRow
    <3>1. CASE Rescanned(d) = offlineDeal[d]
      BY <2>1, <3>1 DEF Recorded
    <3>2. CASE Rescanned(d) = [scanJob[d] EXCEPT !.status = market[d].status, !.hasId = market[d].hasId]
      <4>1. Rescanned(d).status = market[d].status
        BY <3>2 DEF Row
      <4>2. QED
        BY <2>2, <4>1 DEF NoRow
    <3>3. QED
      BY <3>1, <3>2 DEF Rescanned
  <2>4. QED
    BY <2>1, <2>3 DEF RecordsGrow, Recorded
<1>4. ASSUME NEW d \in Deals, UnlockSendFails(d) PROVE RecordsGrow
  <2>1. d \in Recorded
    BY <1>4 DEF UnlockSendFails, UnlockNext, RecordInv, JobsRecorded
  <2>2. CASE SetUnlock(d, "UnlockFailed")
    BY <2>1, <2>2, SetUnlockRecords DEF RecordsGrow
  <2>3. QED
    BY <1>1, <1>4, <2>2 DEF UnlockSendFails
<1>5. CASE UnlockReceipt \/ UnlockReceiptFails
  <2>1. unlockJob.deal \in Recorded
    BY <1>5 DEF UnlockReceipt, UnlockReceiptFails, RecordInv, JobsRecorded
  <2>2. ASSUME NEW status \in {"Unlocked", "UnlockFailed"}, SetUnlock(unlockJob.deal, status)
        PROVE RecordsGrow
    BY <2>1, <2>2, SetUnlockRecords DEF RecordsGrow
  <2>3. QED
    BY <1>1, <1>5, <2>2 DEF UnlockReceipt, UnlockReceiptFails
<1>6. QED
  <2>1. CASE Environment
    BY <1>1, <2>1 DEF Environment, Age, DealPublished, DealEnds, DaoApproves,
                      PriceFulfilled, Crash, db
  <2>2. CASE Mine
    BY <1>1, <2>2 DEF Mine, MineUnlock, MineRefund, Mines, db
  <2>3. CASE SendDeal
    BY <1>1, <1>2, <2>3 DEF SendDeal, CancelSend, SendFails, SendBids, RecordFails, db
  <2>4. CASE ScanDeal
    BY <1>1, <1>3, <2>4 DEF ScanDeal, ScanBegin, ScanFails, db
  <2>5. CASE UnlockPayment
    BY <1>1, <1>4, <1>5, <2>5 DEF UnlockPayment, UnlockBegin, UnlockSkip, UnlockSend,
                                  UpdateUnlockPayment, db
  <2>6. CASE RefundFiles
    BY <1>1, <2>6 DEF RefundFiles, RefundBegin, RefundCheck, RefundRead, RefundSend,
                      RefundSendFails, RefundFinish, db
  <2>7. CASE UNCHANGED vars
    BY <1>1, <2>7 DEF vars, db
  <2>8. QED
    BY <2>1, <2>2, <2>3, <2>4, <2>5, <2>6, <2>7 DEF Next

LEMMA RecordInvStep ==
    ASSUME TypeOK, FileInv, RecordInv, [Next]_vars
    PROVE  RecordInv'
<1> USE DEF TypeOK
<1>1. RecordsGrow
  BY RecordStep
<1>2. Marketed'
  <2>1. sendJob'.deals \subseteq sendJob.deals \/ \A d \in sendJob'.deals : market'[d].status # "none"
    <3>1. CASE UNCHANGED sendJob \/ sendJob' = SendIdle
      BY <3>1 DEF SendIdle
    <3>2. ASSUME NEW f \in Files, NEW batch \in Proposable(f), SendBids(f, batch)
          PROVE  \A d \in sendJob'.deals : market'[d].status # "none"
      BY <3>2 DEF SendBids, Propose, Proposable, DealsOf
    <3>3. CASE Environment
      BY <3>1, <3>3 DEF Environment, Age, DealPublished, DealEnds, DaoApproves,
                        PriceFulfilled, Crash, jobs
    <3>4. CASE Mine
      BY <3>1, <3>4 DEF Mine, MineUnlock, MineRefund, Mines, jobs
    <3>5. CASE SendDeal
      BY <3>1, <3>2, <3>5 DEF SendDeal, CancelSend, SendFails, RecordDeals, RecordFails, jobs
    <3>6. CASE ScanDeal
      BY <3>1, <3>6 DEF ScanDeal, ScanBegin, ScanOne, ScanFails
    <3>7. CASE UnlockPayment
      BY <3>1, <3>7 DEF UnlockPayment, UnlockBegin, UnlockSkip, UnlockSend, UnlockSendFails,
                        UnlockNext, UnlockReceipt, UnlockReceiptFails, UpdateUnlockPayment
    <3>8. CASE RefundFiles
      BY <3>1, <3>8 DEF RefundFiles, RefundBegin, RefundCheck, RefundRead, RefundSend,
                        RefundSendFails, RefundFinish
    <3>9. CASE UNCHANGED vars
      BY <3>1, <3>9 DEF vars, jobs
    <3>10. QED
      BY <3>3, <3>4, <3>5, <3>6, <3>7, <3>8, <3>9 DEF Next
  <2>2. QED
    BY <1>1, <2>1, MarketGrows DEF RecordInv, Marketed, RecordsGrow
<1>3. JobsRecorded'
  <2>1. \A d \in Deals : scanJob'[d] # NoRow => scanJob[d] # NoRow \/ d \in Recorded
    <3> DEFINE Goal == \A d \in Deals : scanJob'[d] # NoRow => scanJob[d] # NoRow \/ d \in Recorded
    <3>1. CASE UNCHANGED scanJob \/ scanJob' = ScanIdle
      BY <3>1 DEF ScanIdle
    <3>2. CASE ScanBegin
      BY <3>2 DEF ScanBegin, ToScan
    <3>3. ASSUME NEW d \in Deals, scanJob' = [scanJob EXCEPT ![d] = NoRow] PROVE Goal
      BY <3>3
    <3>4. CASE Environment
      BY <3>1, <3>4 DEF Environment, Age, DealPublished, DealEnds, DaoApproves,
                        PriceFulfilled, Crash, jobs
    <3>5. CASE Mine
      BY <3>1, <3>5 DEF Mine, MineUnlock, MineRefund, Mines, jobs
    <3>6. CASE SendDeal
      BY <3>1, <3>6 DEF SendDeal, CancelSend, SendFails, SendBids, RecordDeals, RecordFails, jobs
    <3>7. CASE ScanDeal
      BY <3>1, <3>2, <3>3, <3>7 DEF ScanDeal, ScanOne, ScanFails
    <3>8. CASE UnlockPayment
      BY <3>1, <3>8 DEF UnlockPayment, UnlockBegin, UnlockSkip, UnlockSend, UnlockSendFails,
                        UnlockNext, UnlockReceipt, UnlockReceiptFails, UpdateUnlockPayment
    <3>9. CASE RefundFiles
      BY <3>1, <3>9 DEF RefundFiles, RefundBegin, RefundCheck, RefundRead, RefundSend,
                        RefundSendFails, RefundFinish
    <3>10. CASE UNCHANGED vars
      BY <3>1, <3>10 DEF vars, jobs
    <3>11. QED
      BY <3>4, <3>5, <3>6, <3>7, <3>8, <3>9, <3>10 DEF Next
  <2>2. unlockJob'.todo \subseteq Recorded
        /\ (unlockJob'.stage # "idle" => unlockJob'.deal \in Recorded)
    <3> DEFINE Goal == unlockJob'.todo \subseteq Recorded
                       /\ (unlockJob'.stage # "idle" => unlockJob'.deal \in Recorded)
    <3>1. CASE UNCHANGED unlockJob \/ unlockJob' = UnlockIdle
      BY <3>1 DEF UnlockIdle, RecordInv, JobsRecorded
    <3>2. ASSUME NEW d, UnlockDone(d) PROVE Goal
      BY <3>2 DEF UnlockDone, UnlockIdle, RecordInv, JobsRecorded
    <3>3. CASE UnlockBegin
      BY <3>3 DEF UnlockBegin, ToUnlock, UnlockIdle
    <3>4. ASSUME NEW d \in Deals, UnlockSend(d) PROVE Goal
      BY <3>4 DEF UnlockSend, UnlockNext, RecordInv, JobsRecorded
    <3>5. CASE UnlockReceipt
      BY <3>2, <3>5 DEF UnlockReceipt, RecordInv, JobsRecorded
    <3>6. CASE Environment
      BY <3>1, <3>6 DEF Environment, Age, DealPublished, DealEnds, DaoApproves,
                        PriceFulfilled, Crash, jobs
    <3>7. CASE Mine
      BY <3>1, <3>7 DEF Mine, MineUnlock, MineRefund, Mines, jobs
    <3>8. CASE SendDeal
      BY <3>1, <3>8 DEF SendDeal, CancelSend, SendFails, SendBids, RecordDeals, RecordFails, jobs
    <3>9. CASE ScanDeal
      BY <3>1, <3>9 DEF ScanDeal, ScanBegin, ScanOne, ScanFails
    <3>10. CASE UnlockPayment
      BY <3>2, <3>3, <3>4, <3>5, <3>10 DEF UnlockPayment, UnlockSkip, UnlockSendFails,
                                           UnlockReceiptFails, UpdateUnlockPayment
    <3>11. CASE RefundFiles
      BY <3>1, <3>11 DEF RefundFiles, RefundBegin, RefundCheck, RefundRead, RefundSend,
                         RefundSendFails, RefundFinish
    <3>12. CASE UNCHANGED vars
      BY <3>1, <3>12 DEF vars, jobs
    <3>13. QED
      BY <3>6, <3>7, <3>8, <3>9, <3>10, <3>11, <3>12 DEF Next
  <2>3. QED
    BY <1>1, <2>1, <2>2 DEF RecordInv, JobsRecorded, RecordsGrow
<1>4. RecordedWithFile'
  <2> SUFFICES ASSUME NEW d \in Deals, d \in Recorded'
               PROVE  fileStatus'[FileOf[d]] \notin Early
    BY DEF RecordedWithFile, Recorded, Early
  <2>1. FileOf[d] \in Files /\ Forward(FileOf[d])
    BY ConstantsAssumption, FileStep
  <2>2. CASE d \in Recorded
    BY <2>1, <2>2 DEF Forward, RecordInv, RecordedWithFile, Early
  <2>3. CASE d \notin Recorded
    <3>1. PICK recorded \in SUBSET Deals : RecordDeals(recorded)
      BY <1>1, <2>3 DEF RecordsGrow
    <3>2. d \in sendJob.deals /\ sendJob # SendIdle
      BY <1>1, <2>3, <3>1 DEF RecordsGrow, RecordDeals
    <3>3. FileOf[d] = sendJob.file
      BY <3>2 DEF FileInv, SendOwns, DealsOf
    <3>4. QED
      BY <2>1, <3>1, <3>3 DEF RecordDeals, Early
  <2>4. QED
    BY <2>2, <2>3
<1>5. QED
  BY <1>2, <1>3, <1>4 DEF RecordInv

LEMMA RecordsKept == Spec => []RecordInv
<1>1. Init => RecordInv
  BY DEF Init, RecordInv, Marketed, JobsRecorded, RecordedWithFile, Recorded, SendIdle,
         ScanIdle, UnlockIdle
<1>2. QED
  BY <1>1, RecordInvStep, FilesOwned, TypeCorrect, PTL DEF Spec

\* Recorded deals belong to a file whose deals were sent.
THEOREM RecordedLate == Spec => []RecordedWithFile
BY RecordsKept, PTL DEF RecordInv

(***************************************************************************)
(* Payments.  What UnlockPayment waits for is the transaction it sent, and *)
(* the row ScanDeal holds is Unlocked only if the deal was paid by then.   *)
(***************************************************************************)
SentByJob ==
    unlockJob.stage # "idle" =>
        /\ unlockJob.tx \in DOMAIN txs
        /\ txs[unlockJob.tx].kind = "unlock"
        /\ txs[unlockJob.tx].target = unlockJob.deal
        /\ unlockJob.stage = "unlocked" => txs[unlockJob.tx].result = "ok"

ScannedIsPaid == \A d \in Deals : scanJob[d].unlock = "Unlocked" => d \in PaidDeals

PaidInv == SentByJob /\ ScannedIsPaid /\ UnlockedIsPaid

\* Transactions are never lost or changed once mined; new ones are pending.
ChainGrows ==
    /\ \A i \in DOMAIN txs :
          /\ i \in DOMAIN txs'
          /\ txs'[i].kind = txs[i].kind /\ txs'[i].target = txs[i].target
          /\ txs[i].result # "pending" => txs'[i].result = txs[i].result
    /\ \A i \in DOMAIN txs' \ DOMAIN txs : txs'[i].kind = "refund" =>
          /\ refundJob.stage = "read"
          /\ txs'[i].target = refundJob.file

LEMMA ChainStep ==
    ASSUME TypeOK, [Next]_vars
    PROVE  ChainGrows
<1> USE DEF TypeOK
<1>1. CASE UNCHANGED txs
  BY <1>1 DEF ChainGrows
<1>2. ASSUME NEW i, Mines(i), NEW result \in {"ok", "reverted"},
             txs' = [txs EXCEPT ![i].result = result]
      PROVE  ChainGrows
  <2>1. i \in DOMAIN txs /\ txs[i].result = "pending"
    BY <1>2 DEF Mines
  <2>2. QED
    BY <1>2, <2>1, MinedType DEF ChainGrows
<1>3. ASSUME NEW d \in Deals, UnlockSend(d) PROVE ChainGrows
  BY <1>3, SentType DEF UnlockSend, ChainGrows
<1>4. CASE RefundSend
  <2>1. refundJob.file \in Deals \cup Files /\ refundJob.stage = "read"
    BY <1>4 DEF RefundSend
  <2>2. QED
    BY <1>4, <2>1, SentType DEF RefundSend, ChainGrows
<1>5. QED
  <2>1. CASE Environment
    BY <1>1, <2>1 DEF Environment, Age, DealPublished, DealEnds, DaoApproves,
                      PriceFulfilled, Crash, chain
  <2>2. CASE Mine
    BY <1>1, <1>2, <2>2 DEF Mine, MineUnlock, MineRefund
  <2>3. CASE SendDeal
    BY <1>1, <2>3 DEF SendDeal, CancelSend, SendFails, SendBids, RecordDeals, RecordFails, chain
  <2>4. CASE ScanDeal
    BY <1>1, <2>4 DEF ScanDeal, ScanBegin, ScanOne, ScanFails, chain
  <2>5. CASE UnlockPayment
    BY <1>1, <1>3, <2>5 DEF UnlockPayment, UnlockBegin, UnlockSkip, UnlockSendFails,
                      UnlockReceipt, UnlockReceiptFails, UpdateUnlockPayment, chain
  <2>6. CASE RefundFiles
    BY <1>1, <1>4, <2>6 DEF RefundFiles, RefundBegin, RefundCheck, RefundRead,
                      RefundSendFails, RefundFinish, chain
  <2>7. CASE UNCHANGED vars
    BY <1>1, <2>7 DEF vars, chain
  <2>8. QED
    BY <2>1, <2>2, <2>3, <2>4, <2>5, <2>6, <2>7 DEF Next

\* A deal that was paid stays paid.
LEMMA PaidGrows ==
    ASSUME TypeOK, [Next]_vars
    PROVE  PaidDeals \subseteq PaidDeals'
BY ChainStep DEF ChainGrows, PaidDeals

LEMMA PaidInvStep ==
    ASSUME TypeOK, PaidInv, [Next]_vars
    PROVE  PaidInv'
<1> USE DEF TypeOK
<1>1. PaidDeals \subseteq PaidDeals' /\ ChainGrows
  BY PaidGrows, ChainStep
<1>2. SentByJob'
  <2>1. CASE UNCHANGED unlockJob
    BY <1>1, <2>1 DEF PaidInv, SentByJob, ChainGrows
  <2>2. CASE unlockJob'.stage = "idle"
    BY <2>2 DEF SentByJob
  <2>3. ASSUME NEW d, UnlockDone(d) PROVE unlockJob'.stage = "idle"
    BY <2>3 DEF UnlockDone, UnlockIdle
  <2>4. ASSUME NEW d \in Deals, UnlockSend(d) PROVE SentByJob'
    BY <2>4, SentType DEF UnlockSend, SentByJob
  <2>5. CASE UnlockReceipt
    <3>1. CASE txs[unlockJob.tx].result = "ok" /\ unlockJob' = [unlockJob EXCEPT !.stage = "unlocked"]
      BY <1>1, <2>5, <3>1 DEF UnlockReceipt, PaidInv, SentByJob, ChainGrows
    <3>2. QED
      BY <2>2, <2>3, <2>5, <3>1 DEF UnlockReceipt
  <2>6. CASE Environment
    BY <2>1, <2>2, <2>6 DEF Environment, Age, DealPublished, DealEnds, DaoApproves,
                            PriceFulfilled, Crash, UnlockIdle, jobs
  <2>7. CASE Mine
    BY <2>1, <2>7 DEF Mine, MineUnlock, MineRefund, Mines, jobs
  <2>8. CASE SendDeal
    BY <2>1, <2>8 DEF SendDeal, CancelSend, SendFails, SendBids, RecordDeals, RecordFails, jobs
  <2>9. CASE ScanDeal
    BY <2>1, <2>9 DEF ScanDeal, ScanBegin, ScanOne, ScanFails
  <2>10. CASE UnlockPayment
    BY <2>2, <2>3, <2>4, <2>5, <2>10 DEF UnlockPayment, UnlockBegin, UnlockIdle, UnlockSkip,
                                    UnlockSendFails, UnlockReceiptFails, UpdateUnlockPayment
  <2>11. CASE RefundFiles
    BY <2>1, <2>11 DEF RefundFiles, RefundBegin, RefundCheck, RefundRead, RefundSend,
                       RefundSendFails, RefundFinish
  <2>12. CASE UNCHANGED vars
    BY <2>1, <2>12 DEF vars, jobs
  <2>13. QED
    BY <2>6, <2>7, <2>8, <2>9, <2>10, <2>11, <2>12 DEF Next
<1>3. ScannedIsPaid'
  <2>1. \A d \in Deals : scanJob'[d].unlock = "Unlocked" => d \in PaidDeals
    <3> DEFINE Goal == \A d \in Deals : scanJob'[d].unlock = "Unlocked" => d \in PaidDeals
    <3>1. CASE UNCHANGED scanJob
      BY <3>1 DEF PaidInv, ScannedIsPaid
    <3>2. CASE scanJob' = ScanIdle
      BY <3>2 DEF ScanIdle, NoRow
    <3>3. CASE ScanBegin
      BY <3>3 DEF ScanBegin, NoRow, PaidInv, UnlockedIsPaid
    <3>4. ASSUME NEW d \in Deals, scanJob' = [scanJob EXCEPT ![d] = NoRow] PROVE Goal
      BY <3>4 DEF NoRow, PaidInv, ScannedIsPaid
    <3>5. CASE Environment
      BY <3>1, <3>2, <3>5 DEF Environment, Age, DealPublished, DealEnds, DaoApproves,
                              PriceFulfilled, Crash, jobs
    <3>6. CASE Mine
      BY <3>1, <3>6 DEF Mine, MineUnlock, MineRefund, Mines, jobs
    <3>7. CASE SendDeal
      BY <3>1, <3>7 DEF SendDeal, CancelSend, SendFails, SendBids, RecordDeals, RecordFails, jobs
    <3>8. CASE ScanDeal
      BY <3>2, <3>3, <3>4, <3>8 DEF ScanDeal, ScanOne, ScanFails
    <3>9. CASE UnlockPayment
      BY <3>1, <3>9 DEF UnlockPayment, UnlockBegin, UnlockSkip, UnlockSend, UnlockSendFails,
                        UnlockNext, UnlockReceipt, UnlockReceiptFails, UpdateUnlockPayment
    <3>10. CASE RefundFiles
      BY <3>1, <3>10 DEF RefundFiles, RefundBegin, RefundCheck, RefundRead, RefundSend,
                         RefundSendFails, RefundFinish
    <3>11. CASE UNCHANGED vars
      BY <3>1, <3>11 DEF vars, jobs
    <3>12. QED
      BY <3>5, <3>6, <3>7, <3>8, <3>9, <3>10, <3>11 DEF Next
  <2>2. QED
    BY <1>1, <2>1 DEF ScannedIsPaid
<1>4. UnlockedIsPaid'
  <2>1. \A d \in Deals : offlineDeal'[d].unlock = "Unlocked" => d \in PaidDeals
    <3> DEFINE Goal == \A d \in Deals : offlineDeal'[d].unlock = "Unlocked" => d \in PaidDeals
    <3>1. CASE UNCHANGED offlineDeal
      BY <3>1 DEF PaidInv, UnlockedIsPaid
    <3>2. ASSUME NEW recorded \in SUBSET Deals, RecordDeals(recorded) PROVE Goal
      BY <3>2 DEF RecordDeals, PaidInv, UnlockedIsPaid
    <3>3. ASSUME NEW d \in Deals, ScanOne(d) PROVE Goal
      <4>1. offlineDeal' = [offlineDeal EXCEPT ![d] = Rescanned(d)]
        BY <3>3 DEF ScanOne
      <4>2. Rescanned(d).unlock \in {offlineDeal[d].unlock, scanJob[d].unlock}
        BY DEF Rescanned, Row
      <4>3. QED
        BY <4>1, <4>2 DEF PaidInv, ScannedIsPaid, UnlockedIsPaid
    <3>4. ASSUME NEW d, SetUnlock(d, "UnlockFailed") PROVE Goal
      <4>1. "UnlockFailed" \in UnlockStatus
        BY DEF UnlockStatus
      <4>2. \A e \in Deals : offlineDeal'[e] =
               IF e = d THEN [offlineDeal[e] EXCEPT !.unlock = "UnlockFailed"] ELSE offlineDeal[e]
        BY <3>4, <4>1, SetUnlockType
      <4>3. \A e \in Deals : [offlineDeal[e] EXCEPT !.unlock = "UnlockFailed"].unlock = "UnlockFailed"
        BY DEF Row
      <4>4. QED
        BY <4>2, <4>3 DEF PaidInv, UnlockedIsPaid
    <3>5. CASE UnlockReceipt
      <4>1. CASE txs[unlockJob.tx].result = "ok" /\ SetUnlock(unlockJob.deal, "Unlocked")
        <5>1. \A d \in Deals : d = unlockJob.deal => d \in PaidDeals
          BY <3>5, <4>1 DEF UnlockReceipt, PaidInv, SentByJob, PaidDeals
        <5>2. \A d \in Deals : d # unlockJob.deal => offlineDeal'[d] = offlineDeal[d]
          <6>1. "Unlocked" \in UnlockStatus
            BY DEF UnlockStatus
          <6>2. /\ offlineDeal \in [Deals -> Row]
                /\ SetUnlock(unlockJob.deal, "Unlocked")
            BY <4>1
          <6>3. \A e \in Deals : offlineDeal'[e] =
                   IF e = unlockJob.deal THEN [offlineDeal[e] EXCEPT !.unlock = "Unlocked"] ELSE offlineDeal[e]
            BY <6>1, <6>2, SetUnlockType
          <6>4. QED
            BY <6>3
        <5>3. QED
          BY <5>1, <5>2 DEF PaidInv, UnlockedIsPaid
      <4>2. QED
        BY <3>4, <3>5, <4>1 DEF UnlockReceipt
    <3>6. CASE Environment
      BY <3>1, <3>6 DEF Environment, Age, DealPublished, DealEnds, DaoApproves,
                        PriceFulfilled, Crash, db
    <3>7. CASE Mine
      BY <3>1, <3>7 DEF Mine, MineUnlock, MineRefund, Mines, db
    <3>8. CASE SendDeal
      BY <3>1, <3>2, <3>8 DEF SendDeal, CancelSend, SendFails, SendBids, RecordFails, db
    <3>9. CASE ScanDeal
      BY <3>1, <3>3, <3>9 DEF ScanDeal, ScanBegin, ScanFails, db
    <3>10. CASE UnlockPayment
      BY <3>1, <3>4, <3>5, <3>10 DEF UnlockPayment, UnlockBegin, UnlockSkip, UnlockSend,
                        UnlockSendFails, UnlockReceiptFails, UpdateUnlockPayment, db
    <3>11. CASE RefundFiles
      BY <3>1, <3>11 DEF RefundFiles, RefundBegin, RefundCheck, RefundRead, RefundSend,
                         RefundSendFails, RefundFinish, db
    <3>12. CASE UNCHANGED vars
      BY <3>1, <3>12 DEF vars, db
    <3>13. QED
      BY <3>6, <3>7, <3>8, <3>9, <3>10, <3>11, <3>12 DEF Next
  <2>2. QED
    BY <1>1, <2>1 DEF UnlockedIsPaid
<1>5. QED
  BY <1>2, <1>3, <1>4 DEF PaidInv

LEMMA PaymentsKept == Spec => []PaidInv
<1>1. Init => PaidInv
  BY DEF Init, PaidInv, SentByJob, ScannedIsPaid, UnlockedIsPaid, UnlockIdle, ScanIdle, NoRow
<1>2. QED
  BY <1>1, PaidInvStep, TypeCorrect, PTL DEF Spec

\* A deal is Unlocked only if an unlock transaction for it succeeded.
THEOREM UnlockedPaid == Spec => []UnlockedIsPaid
BY PaymentsKept, PTL DEF PaidInv

(***************************************************************************)
(* Refunds.  The deals Refund found Unlocked are all there will ever be.   *)
(***************************************************************************)
RefundChecked ==
    refundJob.stage # "idle" => DealsOf(refundJob.file) \cap Recorded \subseteq PaidDeals

RefundsLate ==
    \A i \in DOMAIN txs : txs[i].kind = "refund" =>
        txs[i].target \in Files /\ fileStatus[txs[i].target] \notin Early

RefundInv == RefundChecked /\ RefundsLate /\ RefundAfterRecordedDeals

\* No deal is recorded for a file beyond the early statuses.
LEMMA NoLateRecord ==
    ASSUME TypeOK, FileInv, RecordInv, [Next]_vars, NEW f \in Files, fileStatus[f] \notin Early
    PROVE  DealsOf(f) \cap Recorded' = DealsOf(f) \cap Recorded
<1>1. RecordsGrow
  BY RecordStep
<1>2. ASSUME Recorded' # Recorded PROVE DealsOf(f) \cap sendJob.deals = {}
  <2>1. PICK recorded \in SUBSET Deals : RecordDeals(recorded)
    BY <1>1, <1>2 DEF RecordsGrow
  <2>2. fileStatus[sendJob.file] = "TaskCreated" /\ sendJob.deals \subseteq DealsOf(sendJob.file)
    BY <2>1 DEF RecordDeals, FileInv, SendOwns
  <2>3. QED
    BY <2>2 DEF DealsOf, Early
<1>3. QED
  BY <1>1, <1>2 DEF RecordsGrow

LEMMA RefundInvStep ==
    ASSUME TypeOK, FileInv, RecordInv, PaidInv, RefundInv, [Next]_vars
    PROVE  RefundInv'
<1> USE DEF TypeOK
<1>1. PaidDeals \subseteq PaidDeals' /\ ChainGrows
  BY PaidGrows, ChainStep
<1>2. RefundChecked'
  <2>1. CASE refundJob'.stage = "idle"
    BY <2>1 DEF RefundChecked
  <2>2. CASE refundJob.stage # "idle" /\ refundJob'.file = refundJob.file
    <3>1. DealsOf(refundJob.file) \cap Recorded \subseteq PaidDeals
      BY <2>2 DEF RefundInv, RefundChecked
    <3>2. refundJob.file \in Files /\ fileStatus[refundJob.file] \notin Early
      BY <2>2 DEF FileInv, RefundOwns, Early
    <3>3. DealsOf(refundJob.file) \cap Recorded' = DealsOf(refundJob.file) \cap Recorded
      BY <3>2, NoLateRecord
    <3>4. QED
      BY <1>1, <2>2, <3>1, <3>3 DEF RefundChecked, DealsOf
  <2>3. CASE UNCHANGED refundJob
    BY <2>1, <2>2, <2>3
  <2>4. ASSUME NEW f \in Files, RefundCheck(f) PROVE RefundChecked'
    <3>1. CASE NothingToUnlock(f)
      <4>1. DealsOf(f) \cap Recorded \subseteq PaidDeals
        BY <3>1 DEF NothingToUnlock, PaidInv, UnlockedIsPaid, DealsOf
      <4>2. refundJob'.file = f
        BY <2>4, <3>1 DEF RefundCheck
      <4>3. UNCHANGED Recorded
        BY <2>4 DEF RefundCheck, Recorded, db
      <4>4. QED
        BY <1>1, <4>1, <4>2, <4>3 DEF RefundChecked, DealsOf
    <3>2. CASE ~NothingToUnlock(f)
      BY <2>1, <2>4, <3>2 DEF RefundCheck
    <3>3. QED
      BY <3>1, <3>2
  <2>5. CASE RefundDone
    BY <2>1, <2>5 DEF RefundDone, RefundIdle
  <2>6. CASE Environment
    BY <2>1, <2>3, <2>6 DEF Environment, Age, DealPublished, DealEnds, DaoApproves,
                            PriceFulfilled, Crash, RefundIdle, jobs
  <2>7. CASE Mine
    BY <2>3, <2>7 DEF Mine, MineUnlock, MineRefund, Mines, jobs
  <2>8. CASE SendDeal
    BY <2>3, <2>8 DEF SendDeal, CancelSend, SendFails, SendBids, RecordDeals, RecordFails, jobs
  <2>9. CASE ScanDeal
    BY <2>3, <2>9 DEF ScanDeal, ScanBegin, ScanOne, ScanFails
  <2>10. CASE UnlockPayment
    BY <2>3, <2>10 DEF UnlockPayment, UnlockBegin, UnlockSkip, UnlockSend, UnlockSendFails,
                       UnlockNext, UnlockReceipt, UnlockReceiptFails, UpdateUnlockPayment
  <2>11. CASE RefundFiles
    <3>1. CASE RefundBegin
      BY <2>1, <3>1 DEF RefundBegin, RefundIdle
    <3>2. CASE RefundRead \/ RefundSend \/ RefundSendFails
      BY <2>2, <2>5, <3>2 DEF RefundRead, RefundSend, RefundSendFails
    <3>3. QED
      BY <2>4, <2>5, <2>11, <3>1, <3>2 DEF RefundFiles, RefundFinish
  <2>12. CASE UNCHANGED vars
    BY <2>3, <2>12 DEF vars, jobs
  <2>13. QED
    BY <2>6, <2>7, <2>8, <2>9, <2>10, <2>11, <2>12 DEF Next
<1>3. ASSUME NEW i \in DOMAIN txs', txs'[i].kind = "refund"
      PROVE  /\ txs'[i].target \in Files
             /\ fileStatus[txs'[i].target] \notin Early
             /\ DealsOf(txs'[i].target) \cap Recorded \subseteq PaidDeals
  <2>1. CASE i \in DOMAIN txs
    BY <1>1, <1>3, <2>1 DEF ChainGrows, RefundInv, RefundsLate, RefundAfterRecordedDeals
  <2>2. CASE i \notin DOMAIN txs
    <3>1. refundJob.stage = "read" /\ txs'[i].target = refundJob.file
      BY <1>1, <1>3, <2>2 DEF ChainGrows
    <3>2. QED
      BY <3>1 DEF RefundInv, RefundChecked, FileInv, RefundOwns, Early
  <2>3. QED
    BY <2>1, <2>2
<1>4. RefundsLate'
  <2> SUFFICES ASSUME NEW i \in DOMAIN txs', txs'[i].kind = "refund"
               PROVE  txs'[i].target \in Files /\ fileStatus'[txs'[i].target] \notin Early
    BY DEF RefundsLate
  <2>1. Forward(txs'[i].target)
    BY <1>3, FileStep
  <2>2. QED
    BY <1>3, <2>1 DEF Forward, Early
<1>5. RefundAfterRecordedDeals'
  <2> SUFFICES ASSUME NEW i \in DOMAIN txs', txs'[i].kind = "refund"
               PROVE  DealsOf(txs'[i].target) \cap Recorded' \subseteq PaidDeals'
    BY DEF RefundAfterRecordedDeals, DealsOf
  <2>1. QED
    BY <1>1, <1>3, NoLateRecord
<1>6. QED
  BY <1>2, <1>4, <1>5 DEF RefundInv

(***************************************************************************)
(* As long as no call fails, no deal is proposed and then forgotten.       *)
(***************************************************************************)
NothingLost ==
    faults = 0 => \A d \in Deals : market[d].status # "none" => d \in Recorded \cup sendJob.deals

\* Without a failure only two steps propose deals or let go of those proposed.
LEMMA NoFaultStep ==
    ASSUME TypeOK, [Next]_vars
    PROVE  \/ faults' = faults + 1
           \/ /\ faults' = faults /\ sendJob' = sendJob
              /\ \A d \in Deals : market[d].status = "none" => market'[d].status = "none"
           \/ faults' = faults /\ \E f \in Files : \E batch \in Proposable(f) : SendBids(f, batch)
           \/ faults' = faults /\ RecordDeals(sendJob.deals)
<1> USE DEF TypeOK
<1> DEFINE Quiet == /\ faults' = faults /\ sendJob' = sendJob
                    /\ \A d \in Deals : market[d].status = "none" => market'[d].status = "none"
<1>1. ASSUME NEW d \in Deals, DealPublished(d) PROVE Quiet
  BY <1>1 DEF DealPublished, jobs
<1>2. ASSUME NEW d \in Deals, NEW status \in {"active", "error"}, DealEnds(d, status) PROVE Quiet
  BY <1>2 DEF DealEnds, jobs
<1>3. CASE Environment
  BY <1>1, <1>2, <1>3 DEF Environment, Age, DaoApproves, PriceFulfilled, Crash, Fault, filecoin, jobs
<1>4. CASE Mine
  BY <1>4 DEF Mine, MineUnlock, MineRefund, Mines, Fault, filecoin, jobs
<1>5. CASE SendDeal
  <2>1. ASSUME NEW recorded \in SUBSET Deals, RecordDeals(recorded)
        PROVE  faults' = faults + 1 \/ (faults' = faults /\ RecordDeals(sendJob.deals))
    BY <2>1 DEF RecordDeals, Fault
  <2>2. QED
    BY <1>5, <2>1 DEF SendDeal, CancelSend, SendFails, SendBids, RecordFails, Fault, filecoin, jobs
<1>6. CASE ScanDeal
  BY <1>6 DEF ScanDeal, ScanBegin, ScanOne, ScanFails, Fault, filecoin
<1>7. CASE UnlockPayment
  BY <1>7 DEF UnlockPayment, UnlockBegin, UnlockSkip, UnlockSend, UnlockSendFails, UnlockNext,
              UnlockReceipt, UnlockReceiptFails, UpdateUnlockPayment, Fault, filecoin
<1>8. CASE RefundFiles
  BY <1>8 DEF RefundFiles, RefundBegin, RefundCheck, RefundRead, RefundSend, RefundSendFails,
              RefundFinish, Fault, filecoin
<1>9. CASE UNCHANGED vars
  BY <1>9 DEF vars, filecoin, jobs
<1>10. QED
  BY <1>3, <1>4, <1>5, <1>6, <1>7, <1>8, <1>9 DEF Next

LEMMA NothingLostStep ==
    ASSUME TypeOK, FileInv, RecordInv, NothingLost, [Next]_vars
    PROVE  NothingLost'
<1>1. Recorded \subseteq Recorded' /\ faults \in Nat
  BY RecordStep DEF RecordsGrow, TypeOK
<1>2. SUFFICES ASSUME faults' = 0, NEW d \in Deals, market'[d].status # "none"
               PROVE  d \in Recorded' \cup sendJob'.deals
  BY DEF NothingLost
<1>3. faults' # faults + 1
  BY <1>1, <1>2
<1>4. market[d].status # "none" /\ faults' = faults => d \in Recorded \cup sendJob.deals
  BY <1>2 DEF NothingLost
<1>5. CASE /\ faults' = faults /\ sendJob' = sendJob
           /\ \A e \in Deals : market[e].status = "none" => market'[e].status = "none"
  BY <1>1, <1>2, <1>4, <1>5
<1>6. ASSUME NEW f \in Files, NEW batch \in Proposable(f), SendBids(f, batch), faults' = faults
      PROVE  d \in Recorded' \cup sendJob'.deals
  <2>1. sendJob.deals = {} /\ sendJob'.deals = batch
    BY <1>6 DEF SendBids, ToSend, SendIdle
  <2>2. d \notin batch => market'[d] = market[d]
    BY <1>6 DEF SendBids, Propose
  <2>3. QED
    BY <1>1, <1>2, <1>4, <1>6, <2>1, <2>2
<1>7. CASE faults' = faults /\ RecordDeals(sendJob.deals)
  <2>1. market' = market
    BY <1>7 DEF RecordDeals, filecoin
  <2>2. CASE d \in Recorded
    BY <1>1, <2>2
  <2>3. CASE d \in sendJob.deals
    <3>1. offlineDeal'[d] = [status |-> market[d].status, hasId |-> market[d].hasId, unlock |-> "NotUnlocked"]
      BY <1>7, <2>3 DEF RecordDeals
    <3>2. offlineDeal'[d].status # NoRow.status
      BY <1>2, <2>1, <3>1 DEF NoRow
    <3>3. QED
      BY <3>2 DEF Recorded
  <2>4. QED
    BY <1>2, <1>4, <1>7, <2>1, <2>2, <2>3
<1>8. QED
  BY <1>3, <1>5, <1>6, <1>7, NoFaultStep

LEMMA NothingForgotten == Spec => []NothingLost
<1>1. Init => NothingLost
  BY DEF Init, NothingLost
<1>2. QED
  BY <1>1, NothingLostStep, TypeCorrect, FilesOwned, RecordsKept, PTL DEF Spec

\* Refunds are for the files of RefundInv, and recorded deals of these were paid.
LEMMA RefundsKept == Spec => []RefundInv
<1>1. Init => RefundInv
  BY DEF Init, RefundInv, RefundChecked, RefundsLate, RefundAfterRecordedDeals, RefundIdle
<1>2. QED
  BY <1>1, RefundInvStep, TypeCorrect, FilesOwned, RecordsKept, PaymentsKept, PTL DEF Spec

\* The refund of a car file is sent only after every recorded deal of it was paid.
THEOREM RefundAfterDeals == Spec => []RefundAfterRecordedDeals
BY RefundsKept, PTL DEF RefundInv

\* As long as no call has failed it is sent after every deal of it on Filecoin was paid:
\* Refund only looks at recorded deals, and those SendDeal still has to record are not of
\* a file whose refund was sent.
THEOREM RefundAfterEveryDeal == Spec => []RefundAfterAllDeals
<1>1. ASSUME TypeOK, FileInv, NothingLost, RefundInv PROVE RefundAfterAllDeals
  <2>1. SUFFICES ASSUME faults = 0, NEW i \in DOMAIN txs, txs[i].kind = "refund",
                        NEW d \in DealsOf(txs[i].target), market[d].status # "none"
                 PROVE  d \in PaidDeals
    BY DEF RefundAfterAllDeals
  <2>2. /\ txs[i].target \in Files /\ fileStatus[txs[i].target] \notin Early
        /\ DealsOf(txs[i].target) \cap Recorded \subseteq PaidDeals
    BY <1>1, <2>1 DEF RefundInv, RefundsLate, RefundAfterRecordedDeals
  <2>3. d \in Deals /\ FileOf[d] = txs[i].target
    BY <2>1 DEF DealsOf
  <2>4. d \in Recorded \cup sendJob.deals
    BY <1>1, <2>1, <2>3 DEF NothingLost
  <2>5. d \notin sendJob.deals
    BY <1>1, <2>2, <2>3 DEF FileInv, SendOwns, SendIdle, DealsOf, Early
  <2>6. QED
    BY <2>1, <2>2, <2>4, <2>5
<1>2. QED
  BY <1>1, TypeCorrect, FilesOwned, NothingForgotten, RefundsKept, PTL

(***************************************************************************)
(* The settlement.  A step of a job or of the chain is a step of what MCS  *)
(* promises, or changes nothing in it.                                     *)
(***************************************************************************)
SentIsDue ==
    \A i \in DOMAIN txs : txs[i].kind = "unlock" => txs[i].target \in Recorded \cap approved

RefundSent == refundJob.stage = "UnlockRefundSucceeded" => refundJob.file \in AskedFor

DueInv == SentIsDue /\ RefundSent

\* A transaction is appended, or keeps its kind and target.
TxsGrow ==
    /\ \A i \in DOMAIN txs : /\ i \in DOMAIN txs'
                              /\ txs'[i].kind = txs[i].kind /\ txs'[i].target = txs[i].target
    /\ \A i \in DOMAIN txs' \ DOMAIN txs : txs'[i].kind = "unlock" =>
          \E d \in Deals : txs'[i].target = d /\ d \in unlockJob.todo /\ d \in approved

LEMMA TxsStep ==
    ASSUME TypeOK, [Next]_vars
    PROVE  TxsGrow
<1> USE DEF TypeOK
<1>0. ChainGrows
  BY ChainStep
<1>1. CASE UNCHANGED txs
  BY <1>1 DEF TxsGrow
<1>2. ASSUME NEW i, Mines(i), NEW result \in {"ok", "reverted"},
             txs' = [txs EXCEPT ![i].result = result]
      PROVE  TxsGrow
  <2>1. i \in DOMAIN txs
    BY <1>2 DEF Mines
  <2>2. QED
    BY <1>2, <2>1, MinedType DEF TxsGrow
<1>3. ASSUME NEW d \in Deals, UnlockSend(d) PROVE TxsGrow
  BY <1>3, SentType DEF UnlockSend, UnlockNext, TxsGrow
<1>4. CASE RefundSend
  <2>1. refundJob.file \in Deals \cup Files
    BY <1>4 DEF RefundSend
  <2>2. QED
    BY <1>4, <2>1, SentType DEF RefundSend, TxsGrow
<1>5. QED
  <2>1. CASE Environment
    BY <1>1, <2>1 DEF Environment, Age, DealPublished, DealEnds, DaoApproves,
                      PriceFulfilled, Crash, chain
  <2>2. CASE Mine
    BY <1>1, <1>2, <2>2 DEF Mine, MineUnlock, MineRefund
  <2>3. CASE SendDeal
    BY <1>1, <2>3 DEF SendDeal, CancelSend, SendFails, SendBids, RecordDeals, RecordFails, chain
  <2>4. CASE ScanDeal
    BY <1>1, <2>4 DEF ScanDeal, ScanBegin, ScanOne, ScanFails, chain
  <2>5. CASE UnlockPayment
    BY <1>1, <1>3, <2>5 DEF UnlockPayment, UnlockBegin, UnlockSkip, UnlockSendFails,
                      UnlockReceipt, UnlockReceiptFails, UpdateUnlockPayment, chain
  <2>6. CASE RefundFiles
    BY <1>1, <1>4, <2>6 DEF RefundFiles, RefundBegin, RefundCheck, RefundRead,
                      RefundSendFails, RefundFinish, chain
  <2>7. CASE UNCHANGED vars
    BY <1>1, <2>7 DEF vars, chain
  <2>8. QED
    BY <2>1, <2>2, <2>3, <2>4, <2>5, <2>6, <2>7 DEF Next

LEMMA DueInvStep ==
    ASSUME TypeOK, FileInv, RecordInv, DueInv, [Next]_vars
    PROVE  DueInv'
<1> USE DEF TypeOK
<1>1. TxsGrow /\ Recorded \subseteq Recorded'
  BY TxsStep, RecordStep DEF RecordsGrow
<1>2. approved \subseteq approved'
  BY DEF Next, Environment, Mine, SendDeal, ScanDeal, UnlockPayment, RefundFiles, Age, DealPublished,
         DealEnds, DaoApproves, PriceFulfilled, Crash, MineUnlock, MineRefund, Mines, CancelSend,
         SendFails, SendBids, RecordDeals, RecordFails, ScanBegin, ScanOne, ScanFails, UnlockBegin,
         UnlockSkip, UnlockSend, UnlockSendFails, UnlockNext, UnlockReceipt, UnlockReceiptFails,
         UpdateUnlockPayment, RefundBegin, RefundCheck, RefundRead, RefundSend, RefundSendFails,
         RefundFinish, vars, filecoin
<1>3. SentIsDue'
  <2> SUFFICES ASSUME NEW i \in DOMAIN txs', txs'[i].kind = "unlock"
               PROVE  txs'[i].target \in Recorded' \cap approved'
    BY DEF SentIsDue
  <2>1. CASE i \in DOMAIN txs
    BY <1>1, <1>2, <2>1 DEF DueInv, SentIsDue, TxsGrow
  <2>2. CASE i \notin DOMAIN txs
    BY <1>1, <1>2, <2>2 DEF TxsGrow, RecordInv, JobsRecorded
  <2>3. QED
    BY <2>1, <2>2
<1>4. AskedFor \subseteq AskedFor'
  BY <1>1 DEF AskedFor, TxsGrow
<1>5. RefundSent'
  <2>1. CASE refundJob'.stage # "UnlockRefundSucceeded"
    BY <2>1 DEF RefundSent
  <2>2. CASE UNCHANGED refundJob
    BY <1>4, <2>2 DEF DueInv, RefundSent
  <2>3. CASE RefundSend
    <3>1. refundJob.file \in Files /\ refundJob'.file = refundJob.file
      BY <2>3 DEF RefundSend
    <3>2. PICK i \in DOMAIN txs' : txs'[i].kind = "refund" /\ txs'[i].target = refundJob.file
      BY <2>3, <3>1, SentType DEF RefundSend
    <3>3. QED
      BY <3>1, <3>2 DEF RefundSent, AskedFor
  <2>4. CASE Environment
    BY <2>1, <2>2, <2>4 DEF Environment, Age, DealPublished, DealEnds, DaoApproves,
                            PriceFulfilled, Crash, RefundIdle, jobs
  <2>5. CASE Mine
    BY <2>2, <2>5 DEF Mine, MineUnlock, MineRefund, Mines, jobs
  <2>6. CASE SendDeal
    BY <2>2, <2>6 DEF SendDeal, CancelSend, SendFails, SendBids, RecordDeals, RecordFails, jobs
  <2>7. CASE ScanDeal
    BY <2>2, <2>7 DEF ScanDeal, ScanBegin, ScanOne, ScanFails
  <2>8. CASE UnlockPayment
    BY <2>2, <2>8 DEF UnlockPayment, UnlockBegin, UnlockSkip, UnlockSend, UnlockSendFails,
                      UnlockNext, UnlockReceipt, UnlockReceiptFails, UpdateUnlockPayment
  <2>9. CASE RefundFiles
    <3>1. CASE RefundDone \/ RefundBegin
      BY <2>1, <3>1 DEF RefundDone, RefundBegin, RefundIdle
    <3>2. ASSUME NEW f \in Files, RefundCheck(f) PROVE RefundSent'
      BY <2>1, <3>2 DEF RefundCheck
    <3>3. CASE RefundRead
      BY <2>1, <3>1, <3>3 DEF RefundRead
    <3>4. CASE RefundSendFails
      BY <2>1, <3>1, <3>4 DEF RefundSendFails
    <3>5. QED
      BY <2>3, <2>9, <3>1, <3>2, <3>3, <3>4 DEF RefundFiles, RefundFinish
  <2>10. CASE UNCHANGED vars
    BY <2>2, <2>10 DEF vars, jobs
  <2>11. QED
    BY <2>4, <2>5, <2>6, <2>7, <2>8, <2>9, <2>10 DEF Next
<1>6. QED
  BY <1>3, <1>5 DEF DueInv

\* Unlock transactions are for recorded deals the DAO agreed to, and a refund that is
\* about to be recorded as succeeded was sent.
LEMMA DueKept == Spec => []DueInv
<1>1. Init => DueInv
  BY DEF Init, DueInv, SentIsDue, RefundSent, RefundIdle
<1>2. QED
  BY <1>1, DueInvStep, TypeCorrect, FilesOwned, RecordsKept, PTL DEF Spec

\* A step that changes nothing the promise speaks of.
LEMMA QuietStep ==
    ASSUME UNCHANGED <<fileStatus, Recorded, approved, PaidDeals, AskedFor, Rest, exists>>
    PROVE  UNCHANGED Promise!vars
BY DEF Promise!vars, Promise!file, Promise!money

LEMMA QuietChain ==
    ASSUME UNCHANGED <<txs, locked, exists>>
    PROVE  UNCHANGED <<PaidDeals, AskedFor, Rest, exists>>
BY DEF PaidDeals, AskedFor, Rest

\* Only RecordDeals, which ends the work of SendDeal, changes which deals are recorded.
LEMMA QuietRecords ==
    ASSUME TypeOK, FileInv, RecordInv, [Next]_vars, UNCHANGED sendJob
    PROVE  UNCHANGED Recorded
<1>1. ASSUME NEW recorded \in SUBSET Deals, RecordDeals(recorded) PROVE FALSE
  BY <1>1 DEF RecordDeals
<1>2. QED
  BY <1>1, RecordStep DEF RecordsGrow

PromiseStep == Promise!Next \/ UNCHANGED Promise!vars

\* The database writes of SendDeal.
LEMMA PromiseSend ==
    ASSUME TypeOK, FileInv, RecordInv, [Next]_vars, SendDeal
    PROVE  PromiseStep
<1> USE DEF PromiseStep
<1>1. ASSUME UNCHANGED <<fileStatus, offlineDeal, approved, chain>> PROVE PromiseStep
  BY <1>1, QuietStep, QuietChain DEF Recorded, chain
<1>2. ASSUME NEW f \in Files, NEW why \in {"DealSentFailed", "DealSendCancelled"},
             fileStatus[f] = "TaskCreated", fileStatus' = [fileStatus EXCEPT ![f] = why],
             UNCHANGED <<offlineDeal, approved, chain>>
      PROVE  PromiseStep
  <2>1. UNCHANGED <<Recorded, approved, PaidDeals, AskedFor, Rest, exists>>
    BY <1>2, QuietChain DEF Recorded, chain
  <2>2. Promise!Stop(f, why)
    BY <1>2, <2>1 DEF Promise!Stop, Promise!money
  <2>3. QED
    BY <2>2 DEF Promise!Next
<1>3. ASSUME NEW recorded \in SUBSET Deals, RecordDeals(recorded) PROVE PromiseStep
  <2> DEFINE f == sendJob.file
             deals == Recorded' \cap sendJob.deals
  <2>1. f \in Files /\ fileStatus[f] = "TaskCreated" /\ sendJob.deals \subseteq DealsOf(f)
    BY <1>3 DEF RecordDeals, FileInv, SendOwns
  <2>2. deals \in SUBSET {d \in Deals : FileOf[d] = f}
    BY <2>1 DEF DealsOf
  <2>3. Recorded' = Recorded \cup deals
    BY RecordStep DEF RecordsGrow
  <2>4. UNCHANGED <<approved, PaidDeals, AskedFor, Rest, exists>>
    BY <1>3, QuietChain DEF RecordDeals, chain, filecoin
  <2>5. fileStatus' = [fileStatus EXCEPT ![f] = "DealSent"]
    BY <1>3 DEF RecordDeals
  <2> HIDE DEF f, deals
  <2>6. Promise!Record(f, deals)
    BY <2>1, <2>3, <2>4, <2>5 DEF Promise!Record, Promise!money
  <2>7. QED
    BY <2>1, <2>2, <2>6 DEF Promise!Next
<1>4. ASSUME NEW f \in Files, CancelSend(f) PROVE PromiseStep
  BY <1>2, <1>4 DEF CancelSend, ToSend, filecoin
<1>5. ASSUME NEW f \in Files, NEW batch \in Proposable(f), SendFails(f, batch) PROVE PromiseStep
  BY <1>2, <1>5 DEF SendFails, ToSend
<1>6. ASSUME NEW f \in Files, NEW batch \in Proposable(f), SendBids(f, batch) PROVE PromiseStep
  BY <1>1, <1>6 DEF SendBids, db
<1>7. CASE RecordFails
  BY <1>1, <1>7 DEF RecordFails, db, filecoin
<1>8. QED
  BY <1>3, <1>4, <1>5, <1>6, <1>7 DEF SendDeal

\* Mining changes who was paid and what is returned.
LEMMA PromiseMine ==
    ASSUME TypeOK, RefundInv, DueInv, Mine
    PROVE  PromiseStep
<1> USE DEF PromiseStep
<1>1. ASSUME NEW i, Mines(i), NEW result \in {"ok", "reverted"},
             txs' = [txs EXCEPT ![i].result = result]
      PROVE  /\ i \in DOMAIN txs
             /\ UNCHANGED <<fileStatus, Recorded, approved, AskedFor>>
             /\ PaidDeals' = PaidDeals \cup
                   {d \in Deals : result = "ok" /\ txs[i].kind = "unlock" /\ txs[i].target = d}
  <2>1. i \in DOMAIN txs /\ txs[i].result = "pending" /\ txs \in Seq(Tx)
    BY <1>1 DEF Mines, TypeOK
  <2>2. /\ DOMAIN txs' = DOMAIN txs
        /\ \A j \in DOMAIN txs : /\ txs'[j].kind = txs[j].kind
                                 /\ txs'[j].target = txs[j].target
                                 /\ txs'[j].result = IF j = i THEN result ELSE txs[j].result
    BY <1>1, <2>1, MinedType
  <2>3. UNCHANGED AskedFor
    BY <2>2 DEF AskedFor
  <2>4. PaidDeals' = PaidDeals \cup
           {d \in Deals : result = "ok" /\ txs[i].kind = "unlock" /\ txs[i].target = d}
    BY <2>1, <2>2 DEF PaidDeals
  <2>5. UNCHANGED <<fileStatus, Recorded, approved>>
    BY <1>1 DEF Mines, Recorded, db, filecoin
  <2>6. QED
    BY <2>1, <2>3, <2>4, <2>5
<1>2. ASSUME NEW i, MineUnlock(i), txs' = [txs EXCEPT ![i].result = "ok"],
             NEW price \in {0, DealCost}, NEW d \in Deals, d = txs[i].target,
             UNCHANGED exists,
             Rest' = [Rest EXCEPT ![FileOf[d]] = @ - price],
             price # 0 => FileOf[d] \in exists /\ locked[FileOf[d]] >= price
      PROVE  PromiseStep
  <2>1. Mines(i) /\ txs[i].kind = "unlock"
    BY <1>2 DEF MineUnlock
  <2>2. /\ i \in DOMAIN txs
        /\ UNCHANGED <<fileStatus, Recorded, approved, AskedFor>>
        /\ PaidDeals' = PaidDeals \cup {d}
    BY <1>1, <1>2, <2>1
  <2>3. d \in Recorded \cap approved
    BY <1>2, <2>1, <2>2 DEF DueInv, SentIsDue
  <2>4. FileOf[d] \in Files
    BY ConstantsAssumption
  <2>5. price # 0 => FileOf[d] \notin Files \ exists /\ Rest[FileOf[d]] >= price
    BY <1>2, <2>4 DEF Rest
  <2>6. Promise!Pay(d, price)
    BY <1>2, <2>2, <2>3, <2>5 DEF Promise!Pay, Promise!file
  <2>7. QED
    BY <2>6 DEF Promise!Next
<1>3. ASSUME NEW i, MineUnlock(i) PROVE PromiseStep
  <2>1. Mines(i) /\ txs[i].kind = "unlock" /\ UNCHANGED exists
    BY <1>3 DEF MineUnlock
  <2>2. i \in DOMAIN txs
    BY <2>1 DEF Mines
  <2>3. PICK d \in Deals : d = txs[i].target
    BY <2>1, <2>2 DEF DueInv, SentIsDue, Recorded
  <2>4. FileOf[d] \in Files /\ locked \in [Files -> Nat] /\ exists \subseteq Files
    BY ConstantsAssumption DEF TypeOK
  <2>5. CASE /\ txs' = [txs EXCEPT ![i].result = "ok"] /\ UNCHANGED locked
    <3>1. Rest' = Rest /\ Rest = [Rest EXCEPT ![FileOf[d]] = @ - 0]
      BY <2>1, <2>4, <2>5 DEF Rest
    <3>2. QED
      BY <1>2, <1>3, <2>1, <2>3, <2>5, <3>1
  <2>6. CASE /\ FileOf[d] \in exists /\ locked[FileOf[d]] >= DealCost
             /\ txs' = [txs EXCEPT ![i].result = "ok"]
             /\ locked' = [locked EXCEPT ![FileOf[d]] = @ - DealCost]
    <3>1. Rest' = [Rest EXCEPT ![FileOf[d]] = @ - DealCost]
      BY <2>1, <2>4, <2>6 DEF Rest
    <3>2. QED
      BY <1>2, <1>3, <2>1, <2>3, <2>6, <3>1
  <2>7. CASE txs' = [txs EXCEPT ![i].result = "reverted"] /\ UNCHANGED locked
    <3>1. UNCHANGED <<fileStatus, Recorded, approved, AskedFor>> /\ PaidDeals' = PaidDeals
      BY <1>1, <2>1, <2>7
    <3>2. UNCHANGED Rest
      BY <2>1, <2>7 DEF Rest
    <3>3. QED
      BY <2>1, <3>1, <3>2, QuietStep
  <2>8. QED
    BY <1>3, <2>3, <2>5, <2>6, <2>7 DEF MineUnlock
<1>4. ASSUME NEW i, MineRefund(i) PROVE PromiseStep
  <2>1. Mines(i) /\ txs[i].kind = "refund" /\ UNCHANGED locked
    BY <1>4 DEF MineRefund
  <2>2. PICK result \in {"ok", "reverted"} :
           /\ txs' = [txs EXCEPT ![i].result = result]
           /\ result = "ok" => exists' = exists \ {txs[i].target}
           /\ result = "reverted" => UNCHANGED exists
    BY <1>4 DEF MineRefund
  <2>3. /\ i \in DOMAIN txs
        /\ UNCHANGED <<fileStatus, Recorded, approved, AskedFor>> /\ PaidDeals' = PaidDeals
    <3>1. /\ i \in DOMAIN txs
          /\ UNCHANGED <<fileStatus, Recorded, approved, AskedFor>>
          /\ PaidDeals' = PaidDeals \cup
                {d \in Deals : result = "ok" /\ txs[i].kind = "unlock" /\ txs[i].target = d}
      BY <1>1, <2>1, <2>2
    <3>2. txs[i].kind # "unlock"
      BY <2>1
    <3>3. QED
      BY <3>1, <3>2
  <2>4. CASE UNCHANGED exists
    BY <2>1, <2>3, <2>4, QuietStep DEF Rest
  <2>5. CASE ~ UNCHANGED exists
    <3>1. PICK f \in Files : f = txs[i].target
      BY <2>1, <2>3 DEF RefundInv, RefundsLate
    <3>2. exists' = exists \ {f} /\ f \in exists
      BY <2>2, <2>5, <3>1
    <3>3. f \in AskedFor
      BY <2>1, <2>3, <3>1 DEF AskedFor
    <3>4. Files \ exists' = (Files \ exists) \cup {f}
      BY <3>2
    <3>5. Rest' = [Rest EXCEPT ![f] = 0]
      BY <2>1, <3>2 DEF Rest
    <3>6. Promise!Return(f)
      BY <2>3, <3>2, <3>3, <3>4, <3>5 DEF Promise!Return, Promise!file
    <3>7. QED
      BY <3>6 DEF Promise!Next
  <2>6. QED
    BY <2>4, <2>5
<1>5. QED
  BY <1>3, <1>4 DEF Mine

\* Unlock transactions change the promise when they are mined, not when they are sent.
LEMMA PromiseUnlock ==
    ASSUME TypeOK, FileInv, RecordInv, [Next]_vars, UnlockPayment
    PROVE  PromiseStep
<1>1. UNCHANGED <<fileStatus, sendJob, approved, locked, exists>>
  BY DEF UnlockPayment, UnlockBegin, UnlockSkip, UnlockSend, UnlockSendFails, UnlockNext,
         UnlockReceipt, UnlockReceiptFails, UpdateUnlockPayment, db, filecoin, chain
<1>2. UNCHANGED <<PaidDeals, AskedFor>>
  <2>1. CASE UNCHANGED txs
    BY <2>1 DEF PaidDeals, AskedFor
  <2>2. ASSUME NEW d \in Deals, UnlockSend(d) PROVE UNCHANGED <<PaidDeals, AskedFor>>
    <3>1. /\ DOMAIN txs' = DOMAIN txs \cup {Len(txs) + 1}
          /\ \A j \in DOMAIN txs : txs'[j] = txs[j]
          /\ txs'[Len(txs) + 1] = [kind |-> "unlock", target |-> d, result |-> "pending"]
      BY <2>2, SentType DEF UnlockSend, TypeOK
    <3>2. \A j \in DOMAIN txs' \ DOMAIN txs : txs'[j].result = "pending" /\ txs'[j].kind = "unlock"
      BY <3>1
    <3>3. QED
      BY <3>1, <3>2 DEF PaidDeals, AskedFor
  <2>3. QED
    BY <2>1, <2>2 DEF UnlockPayment, UnlockBegin, UnlockSkip, UnlockSendFails,
                      UnlockReceipt, UnlockReceiptFails, UpdateUnlockPayment, chain
<1>3. UNCHANGED Rest
  BY <1>1 DEF Rest
<1>4. QED
  BY <1>1, <1>2, <1>3, QuietRecords, QuietStep DEF PromiseStep

\* Refund asks for the rest and records that it did.
LEMMA PromiseRefund ==
    ASSUME TypeOK, FileInv, RecordInv, RefundInv, DueInv, [Next]_vars, RefundFiles
    PROVE  PromiseStep
<1> USE DEF PromiseStep
<1>1. UNCHANGED <<sendJob, approved, locked, exists>>
  BY DEF RefundFiles, RefundBegin, RefundCheck, RefundRead, RefundSend, RefundSendFails,
         RefundFinish, filecoin, chain
<1>2. UNCHANGED <<Recorded, Rest>>
  BY <1>1, QuietRecords DEF Rest
<1>3. CASE UNCHANGED <<fileStatus, txs>>
  BY <1>1, <1>2, <1>3, QuietStep, QuietChain
<1>4. CASE RefundSend
  <2>1. PICK f \in Files : f = refundJob.file
    BY <1>4 DEF RefundSend, TypeOK
  <2>2. fileStatus[f] = "DealSent" /\ DealsOf(f) \cap Recorded \subseteq PaidDeals
    BY <1>4, <2>1 DEF RefundSend, FileInv, RefundOwns, RefundInv, RefundChecked
  <2>3. UNCHANGED fileStatus
    BY <1>4 DEF RefundSend, db
  <2>4. /\ DOMAIN txs' = DOMAIN txs \cup {Len(txs) + 1}
        /\ \A j \in DOMAIN txs : txs'[j] = txs[j]
        /\ txs'[Len(txs) + 1] = [kind |-> "refund", target |-> f, result |-> "pending"]
    BY <1>4, <2>1, SentType DEF RefundSend, TypeOK
  <2>5. \A j \in DOMAIN txs' \ DOMAIN txs : txs'[j].kind = "refund" /\ txs'[j].target = f
    BY <2>4
  <2>6. UNCHANGED PaidDeals
    BY <2>4, <2>5 DEF PaidDeals
  <2>7. AskedFor' = AskedFor \cup {f}
    BY <2>4, <2>5 DEF AskedFor
  <2>8. Promise!KnownOf(f) \subseteq PaidDeals
    BY <2>2 DEF Promise!KnownOf, DealsOf, Recorded
  <2>9. Promise!Ask(f)
    BY <1>1, <1>2, <2>2, <2>3, <2>6, <2>7, <2>8 DEF Promise!Ask, Promise!file
  <2>10. QED
    BY <2>9 DEF Promise!Next
<1>5. CASE RefundFinish /\ fileStatus' = [fileStatus EXCEPT ![refundJob.file] = refundJob.stage]
  <2>1. PICK f \in Files : f = refundJob.file
    BY <1>5 DEF RefundFinish, TypeOK
  <2>2. fileStatus[f] = "DealSent" /\ refundJob.stage \in {"UnlockRefundSucceeded", "UnlockRefundFailed"}
    BY <1>5, <2>1 DEF RefundFinish, FileInv, RefundOwns
  <2>3. refundJob.stage = "UnlockRefundSucceeded" => f \in AskedFor
    BY <2>1 DEF DueInv, RefundSent
  <2>4. UNCHANGED <<PaidDeals, AskedFor>>
    BY <1>5, QuietChain DEF RefundFinish, chain
  <2>5. Promise!Finish(f)
    BY <1>1, <1>2, <1>5, <2>1, <2>2, <2>3, <2>4 DEF Promise!Finish, Promise!money
  <2>6. QED
    BY <2>5 DEF Promise!Next
<1>6. QED
  BY <1>3, <1>4, <1>5 DEF RefundFiles, RefundBegin, RefundCheck, RefundRead, RefundSendFails,
                          RefundFinish, db, chain

\* The jobs, interleaved and crashing, settle car files as README.md promises.
THEOREM Settles == Spec => SettlesAsPromised
<1>1. Init => Promise!Init
  BY ConstantsAssumption
     DEF Init, Promise!Init, Recorded, PaidDeals, AskedFor, Rest
<1>2. ASSUME TypeOK, FileInv, RecordInv, RefundInv, DueInv, [Next]_vars PROVE PromiseStep
  <2>1. CASE Environment
    <3>1. ASSUME UNCHANGED <<fileStatus, offlineDeal, approved, chain>> PROVE PromiseStep
      BY <3>1, QuietStep, QuietChain DEF PromiseStep, Recorded, chain
    <3>2. ASSUME NEW d \in Deals, DaoApproves(d) PROVE PromiseStep
      <4>1. UNCHANGED <<fileStatus, Recorded, PaidDeals, AskedFor, Rest, exists>>
        BY <3>2, QuietChain DEF DaoApproves, Recorded, db, chain
      <4>2. Promise!Agree(d)
        BY <3>2, <4>1 DEF DaoApproves, Promise!Agree, Promise!file, Promise!money
      <4>3. QED
        BY <4>2 DEF PromiseStep, Promise!Next
    <3>3. QED
      BY <2>1, <3>1, <3>2 DEF Environment, Age, DealPublished, DealEnds, PriceFulfilled, Crash,
                              db, filecoin
  <2>2. CASE Mine
    BY <1>2, <2>2, PromiseMine
  <2>3. CASE SendDeal
    BY <1>2, <2>3, PromiseSend
  <2>4. CASE ScanDeal
    <3>1. UNCHANGED <<fileStatus, sendJob, approved, chain>>
      BY <2>4 DEF ScanDeal, ScanBegin, ScanOne, ScanFails, db, filecoin
    <3>2. QED
      BY <1>2, <3>1, QuietRecords, QuietStep, QuietChain DEF PromiseStep, chain
  <2>5. CASE UnlockPayment
    BY <1>2, <2>5, PromiseUnlock
  <2>6. CASE RefundFiles
    BY <1>2, <2>6, PromiseRefund
  <2>7. CASE UNCHANGED vars
    BY <2>7, QuietStep, QuietChain DEF PromiseStep, Recorded, vars, db, filecoin, chain
  <2>8. QED
    BY <1>2, <2>1, <2>2, <2>3, <2>4, <2>5, <2>6, <2>7 DEF Next
<1>3. QED
  BY <1>1, <1>2, TypeCorrect, FilesOwned, RecordsKept, RefundsKept, DueKept, PTL
     DEF Spec, PromiseStep, SettlesAsPromised, Promise!Spec
=============================================================================
