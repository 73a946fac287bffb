-------------------------- MODULE WebPaymentProofs --------------------------
(***************************************************************************)
(* Proofs about WebPayment: whatever the user clicks while callbacks run,  *)
(* only uploaded files are locked, for a price that was shown, and the     *)
(* backend is told of a payment after it was mined, once: the pages        *)
(* implement PaymentNotices.                                               *)
(*                                                                         *)
(* The invariant says what a flow carries along, by its kind and by how    *)
(* far it got, what of the page its callbacks still read, and where its    *)
(* transaction is.                                                         *)
(***************************************************************************)
EXTENDS WebPayment, TLAPS

FlowType == [kind : Kinds, live : BOOLEAN, cid : Cids \cup {None}, amount : Nat,
             min : Nat, said : Cids \cup {None}, stage : Stages]

AfterUpload == {"allowance", "sent", "mined", "reverted", "checking", "finishing", "completed", "untold"}

\* What a flow carries along, by its kind and by how far it got.
FlowFits(r, up, cars) ==
    /\ r.kind # "upload" => r.cid \in up
    /\ r.kind = "upload" /\ r.stage = "upload" => r.cid \in Cids
    /\ r.kind = "upload" /\ r.stage \in AfterUpload => r.cid \in up
    /\ r.kind = "files" => \E price \in {0, Cost[r.cid]}, plan \in Plans : r.amount = PlanPrice(price, plan)
    /\ r.kind = "unlock" => r.stage \in {"sent", "reverted", "done"}
    /\ r.stage = "info" => r.kind = "files"
    /\ r.stage \in MinedStages => cars[r.cid]._isExisted
    /\ r.stage = "checking" => r.said \in Cids
    /\ r.stage = "checking" /\ r.kind = "upload" => r.said = r.cid
FlowOK(r) == FlowFits(r, uploaded, txCarMap)

FlowsInv == Len(flows) <= MaxFlows /\ \A f \in DOMAIN flows : FlowOK(flows[f])

\* The contract holds car payments only, of files that were uploaded.
ChainInv == \A c \in Cids : ~txMap[c]._isExisted /\ (txCarMap[c]._isExisted => c \in uploaded)

\* What My Files shows was uploaded and has the price it shows, or none when the FIL price
\* did not come.
PageInv ==
    /\ pending \subseteq uploaded
    /\ row.dialog => page = "files" /\ row.cid \in uploaded /\ row.price \in {0, Cost[row.cid]}
    /\ \A f \in DOMAIN flows : flows[f].kind = "files" => page = "files" /\ row.cid \in Cids

\* The upload page has a file as long as a callback still reads it from the form.
FormInv ==
    /\ form.file # None => form.body # None
    /\ \A f \in DOMAIN flows : NeedsForm(f) => form.body # None

\* The transaction of a flow is shown or sent once, while the flow waits for it.
EntryOK(p) ==
    /\ p[2] = "unlock" <=> flows[p[1]].kind = "unlock"
    /\ p[2] # "approve" => flows[p[1]].stage = "sent"
WalletInv ==
    /\ \A p \in popups : EntryOK(p)
    /\ \A k \in DOMAIN pool : EntryOK(pool[k])
    /\ \A k \in DOMAIN pool : pool[k][2] # "approve" => pool[k] \notin popups
    /\ \A j, k \in DOMAIN pool : pool[j] = pool[k] /\ pool[k][2] # "approve" => j = k

\* A notice is of a flow that has told of it, and there is one for each.
NoticesInv ==
    /\ \A n \in notices :
          /\ flows[n.flow].stage \in {"finishing", "completed"} /\ flows[n.flow].kind # "unlock"
          /\ flows[n.flow].kind = "upload" => txCarMap[n.cid]._isExisted
    /\ \A m, n \in notices : m.flow = n.flow => m = n

IInv == TypeOK /\ FlowsInv /\ ChainInv /\ PageInv /\ FormInv /\ WalletInv /\ NoticesInv /\ CompletedWasMined

(***************************************************************************)
(* The contract, as far as the pages use it.                               *)
(***************************************************************************)
LEMMA ChainConstants == /\ User # This /\ User # Mcs /\ Mcs # This /\ Chain!Accounts = {User, Mcs, This}
                        /\ \A c \in Cids : Cost[c] \in Nat \ {0}
BY ConstantsAssumption DEF Chain!Accounts

LEMMA ChainTypes ==
    ASSUME Chain!TypeOK
    PROVE  /\ txMap \in [Cids -> Chain!TxInfo] /\ txCarMap \in [Cids -> Chain!TxInfo]
           /\ balance \in [Chain!Accounts -> Nat] /\ allowance \in [{User} -> Nat]
           /\ timestamp \in Nat /\ dust \in Nat
BY DEF Chain!TypeOK

LEMMA ApproveMined ==
    ASSUME Chain!TypeOK, NEW amount \in Nat, Chain!Approve(User, amount)
    PROVE  Chain!TypeOK' /\ UNCHANGED <<txMap, txCarMap>>
BY DEF Chain!TypeOK, Chain!Approve

LEMMA LockMined ==
    ASSUME Chain!TypeOK, NEW c \in Cids, NEW amount \in Nat, NEW min \in Nat,
           Chain!LockTokenPayment(User, c, amount, min, 0, 1)
    PROVE  /\ Chain!TypeOK' /\ txMap' = txMap
           /\ txCarMap'[c]._isExisted
           /\ \A d \in Cids : d # c => txCarMap'[d] = txCarMap[d]
<1> DEFINE locked == [_isExisted |-> TRUE, owner |-> User, lockedFee |-> amount,
                      deadline |-> timestamp + 0, size |-> 1]
<1>1. txMap' = txMap /\ txCarMap' = [txCarMap EXCEPT ![c] = locked] /\ timestamp' = timestamp /\ dust' = dust
  BY DEF Chain!LockTokenPayment
<1>2. locked \in Chain!TxInfo /\ locked._isExisted
  BY ChainTypes DEF Chain!TxInfo
<1> HIDE DEF locked
<1>3. txCarMap' \in [Cids -> Chain!TxInfo] /\ txCarMap'[c] = locked
      /\ \A d \in Cids : d # c => txCarMap'[d] = txCarMap[d]
  BY <1>1, <1>2, ChainTypes
<1>4. /\ allowance[User] >= amount /\ balance[User] >= amount
      /\ allowance' = [allowance EXCEPT ![User] = @ - amount]
      /\ balance' = [balance EXCEPT ![User] = @ - amount, ![This] = @ + amount]
  BY DEF Chain!LockTokenPayment, Chain!TransferFrom
<1>5. balance' \in [Chain!Accounts -> Nat] /\ allowance' \in [{User} -> Nat]
  BY <1>4, ChainTypes, ChainConstants
<1>6. QED
  BY <1>1, <1>2, <1>3, <1>5, ChainTypes DEF Chain!TypeOK

LEMMA UnlockNeedsTokenPayment ==
    ASSUME NEW c, Chain!UnlockTokenPayment(User, c)
    PROVE  txMap[c]._isExisted
BY DEF Chain!UnlockTokenPayment

LEMMA Steps ==
    ASSUME Next
    PROVE  \/ StorageAnswers
           \/ PriceAnswers
           \/ CommonParam
           \/ CommonParamFails
           \/ StatsAnswer
           \/ StatsFail
           \/ HandleRemove
           \/ SubmitForm
           \/ OpenMyFiles
           \/ \E c \in Cids : ChooseFile(c)
           \/ \E plan \in Plans : AgreeChange(plan)
           \/ SearchValue
           \/ CloseDia
           \/ \E c \in Cids : PayClick(c)
           \/ \E c \in Cids : RefundClick(c)
           \/ \E plan \in Plans : PayStartClick(plan)
           \/ CloseFinish
           \/ CloseTips
           \/ \E p \in popups : ConfirmPopup(p)
           \/ \E p \in popups : RejectPopup(p)
           \/ \E f \in DOMAIN flows : UploadFails(f)
           \/ \E f \in DOMAIN flows : InfoFails(f)
           \/ \E f \in DOMAIN flows : CallFails(f)
           \/ \E n \in notices : NoticeLost(n)
           \/ \E n \in notices : NoticeArrives(n)
           \/ MineNext
           \/ RevertNext
           \/ TableLoaded
           \/ Expire
           \/ \E f \in DOMAIN flows : UploadBalance(f)
           \/ \E f \in DOMAIN flows : UploadAnswers(f)
           \/ \E f \in DOMAIN flows : InfoUnpaid(f)
           \/ \E f \in DOMAIN flows : InfoPaid(f)
           \/ \E f \in DOMAIN flows : FilesBalance(f)
           \/ \E f \in DOMAIN flows : AllowanceAnswers(f)
           \/ \E f \in DOMAIN flows : ErrorEvent(f)
           \/ \E f \in DOMAIN flows : Receipt(f)
           \/ \E f \in DOMAIN flows : CheckTransaction(f)
           \/ \E f \in DOMAIN flows : Finish(f)
BY DEF Next, Callback, Mine, Deliver, OpenPage, ClickUpload, ClickMyFiles, ClickBoth, Fails

LEMMA Writers ==
    ASSUME [Next]_vars
    PROVE  /\ chain' = chain \/ MineNext \/ Expire
           /\ uploaded' = uploaded \/ (\E f \in DOMAIN flows : UploadAnswers(f)) \/ (\E f \in DOMAIN flows : UploadFails(f))
           /\ recorded' = recorded \/ (\E n \in notices : NoticeArrives(n))
           /\ page' = page \/ OpenMyFiles
           /\ form' = form \/ HandleRemove \/ OpenMyFiles \/ (\E c \in Cids : ChooseFile(c)) \/ (\E plan \in Plans : AgreeChange(plan))
           /\ row' = row \/ OpenMyFiles \/ (\E c \in Cids : PayClick(c)) \/ (\E plan \in Plans : PayStartClick(plan)) \/ CloseDia
           /\ pending' = pending \/ TableLoaded
           /\ start' = start \/ CommonParam \/ CommonParamFails \/ StorageAnswers \/ PriceAnswers \/ StatsAnswer \/ StatsFail \/ OpenMyFiles
           /\ popups' = popups \/ (\E c \in Cids : RefundClick(c)) \/ (\E f \in DOMAIN flows : AllowanceAnswers(f)) \/ (\E p \in popups : ConfirmPopup(p)) \/ (\E p \in popups : RejectPopup(p))
           /\ pool' = pool \/ (\E p \in popups : ConfirmPopup(p)) \/ MineNext \/ RevertNext
           /\ flows' = flows \/ SubmitForm \/ OpenMyFiles \/ (\E c \in Cids : RefundClick(c)) \/ (\E plan \in Plans : PayStartClick(plan)) \/ (\E p \in popups : RejectPopup(p)) \/ (\E f \in DOMAIN flows : UploadFails(f)) \/ (\E f \in DOMAIN flows : InfoFails(f)) \/ (\E f \in DOMAIN flows : CallFails(f)) \/ MineNext \/ RevertNext \/ (\E f \in DOMAIN flows : UploadBalance(f)) \/ (\E f \in DOMAIN flows : UploadAnswers(f)) \/ (\E f \in DOMAIN flows : InfoUnpaid(f)) \/ (\E f \in DOMAIN flows : InfoPaid(f)) \/ (\E f \in DOMAIN flows : FilesBalance(f)) \/ (\E f \in DOMAIN flows : AllowanceAnswers(f)) \/ (\E f \in DOMAIN flows : ErrorEvent(f)) \/ (\E f \in DOMAIN flows : Receipt(f)) \/ (\E f \in DOMAIN flows : CheckTransaction(f)) \/ (\E f \in DOMAIN flows : Finish(f))
           /\ ui' = ui \/ StorageAnswers \/ StatsAnswer \/ (\E f \in DOMAIN flows : UploadBalance(f)) \/ (\E f \in DOMAIN flows : UploadAnswers(f)) \/ (\E f \in DOMAIN flows : UploadFails(f)) \/ OpenMyFiles \/ TableLoaded \/ SearchValue \/ (\E plan \in Plans : PayStartClick(plan)) \/ (\E f \in DOMAIN flows : InfoPaid(f)) \/ (\E f \in DOMAIN flows : InfoFails(f)) \/ (\E c \in Cids : RefundClick(c)) \/ (\E p \in popups : ConfirmPopup(p)) \/ (\E p \in popups : RejectPopup(p)) \/ (\E f \in DOMAIN flows : ErrorEvent(f)) \/ (\E f \in DOMAIN flows : Finish(f)) \/ CloseFinish \/ CloseTips
           /\ loads' = loads \/ StatsAnswer \/ TableLoaded \/ SearchValue \/ (\E f \in DOMAIN flows : InfoPaid(f)) \/ CloseFinish
           /\ searches' = searches \/ SearchValue
           /\ faults' = faults \/ CommonParamFails \/ StatsFail \/ (\E f \in DOMAIN flows : UploadFails(f)) \/ (\E f \in DOMAIN flows : InfoFails(f)) \/ (\E f \in DOMAIN flows : CallFails(f)) \/ (\E n \in notices : NoticeLost(n))
           /\ notices' = notices \/ (\E f \in DOMAIN flows : CheckTransaction(f))
           /\ arrived' = arrived \/ (\E n \in notices : NoticeArrives(n)) \/ (\E n \in notices : NoticeLost(n))
<1> USE DEF chain, backend, view, data, wallet, vars
<1>1. CASE UNCHANGED vars
  BY <1>1
<1>2. CASE StorageAnswers
  BY <1>2 DEF StorageAnswers
<1>3. CASE PriceAnswers
  BY <1>3 DEF PriceAnswers
<1>4. CASE HandleRemove
  BY <1>4 DEF HandleRemove
<1>5. CASE SubmitForm
  BY <1>5 DEF SubmitForm
<1>6. CASE OpenMyFiles
  BY <1>6 DEF OpenMyFiles
<1>7. CASE \E c \in Cids : ChooseFile(c)
  BY <1>7 DEF ChooseFile
<1>8. CASE \E plan \in Plans : AgreeChange(plan)
  BY <1>8 DEF AgreeChange
<1>9. CASE SearchValue
  BY <1>9 DEF SearchValue
<1>10. CASE CloseDia
  BY <1>10 DEF CloseDia
<1>11. CASE \E c \in Cids : PayClick(c)
  BY <1>11 DEF PayClick
<1>12. CASE \E c \in Cids : RefundClick(c)
  BY <1>12 DEF RefundClick
<1>13. CASE \E plan \in Plans : PayStartClick(plan)
  BY <1>13 DEF PayStartClick
<1>14. CASE CloseFinish
  BY <1>14 DEF CloseFinish
<1>15. CASE CloseTips
  BY <1>15 DEF CloseTips
<1>16. CASE \E p \in popups : ConfirmPopup(p)
  BY <1>16 DEF ConfirmPopup
<1>17. CASE \E p \in popups : RejectPopup(p)
  BY <1>17 DEF RejectPopup
<1>18. CASE \E f \in DOMAIN flows : UploadFails(f)
  BY <1>18 DEF UploadFails
<1>19. CASE \E f \in DOMAIN flows : InfoFails(f)
  BY <1>19 DEF InfoFails
<1>20. CASE \E f \in DOMAIN flows : CallFails(f)
  BY <1>20 DEF CallFails
<1>21. CASE \E n \in notices : NoticeLost(n)
  BY <1>21 DEF NoticeLost
<1>22. CASE \E n \in notices : NoticeArrives(n)
  BY <1>22 DEF NoticeArrives
<1>23. CASE MineNext
  BY <1>23 DEF MineNext
<1>24. CASE RevertNext
  BY <1>24 DEF RevertNext
<1>25. CASE TableLoaded
  BY <1>25 DEF TableLoaded
<1>26. CASE Expire
  BY <1>26 DEF Expire
<1>27. CASE \E f \in DOMAIN flows : UploadBalance(f)
  BY <1>27 DEF UploadBalance
<1>28. CASE \E f \in DOMAIN flows : UploadAnswers(f)
  BY <1>28 DEF UploadAnswers
<1>29. CASE \E f \in DOMAIN flows : InfoUnpaid(f)
  BY <1>29 DEF InfoUnpaid
<1>30. CASE \E f \in DOMAIN flows : InfoPaid(f)
  BY <1>30 DEF InfoPaid
<1>31. CASE \E f \in DOMAIN flows : FilesBalance(f)
  BY <1>31 DEF FilesBalance
<1>32. CASE \E f \in DOMAIN flows : AllowanceAnswers(f)
  BY <1>32 DEF AllowanceAnswers
<1>33. CASE \E f \in DOMAIN flows : ErrorEvent(f)
  BY <1>33 DEF ErrorEvent
<1>34. CASE \E f \in DOMAIN flows : Receipt(f)
  BY <1>34 DEF Receipt
<1>35. CASE \E f \in DOMAIN flows : CheckTransaction(f)
  BY <1>35 DEF CheckTransaction
<1>36. CASE \E f \in DOMAIN flows : Finish(f)
  BY <1>36 DEF Finish
<1>37. CASE CommonParam
  BY <1>37 DEF CommonParam
<1>38. CASE CommonParamFails
  BY <1>38 DEF CommonParamFails
<1>39. CASE StatsAnswer
  BY <1>39 DEF StatsAnswer
<1>40. CASE StatsFail
  BY <1>40 DEF StatsFail
<1>41. QED
  BY <1>1, <1>2, <1>3, <1>4, <1>5, <1>6, <1>7, <1>8, <1>9, <1>10, <1>11, <1>12, <1>13, <1>14, <1>15, <1>16, <1>17, <1>18, <1>19, <1>20, <1>21, <1>22, <1>23, <1>24, <1>25, <1>26, <1>27, <1>28, <1>29, <1>30, <1>31, <1>32, <1>33, <1>34, <1>35, <1>36, <1>37, <1>38, <1>39, <1>40, Steps

(***************************************************************************)
(* What the types say of flows and transactions.                           *)
(***************************************************************************)
Acts == {"approve", "lock", "unlock"}
StartType == [params : {"asked", "known", "failed"}, stats : {"waiting", "answered", "failed"},
              price : BOOLEAN]

LEMMA FlowTypes ==
    ASSUME TypeOK
    PROVE  /\ flows \in Seq(FlowType) /\ DOMAIN flows = 1 .. Len(flows) /\ Len(flows) \in Nat
           /\ \A f \in DOMAIN flows : flows[f] \in FlowType
<1>1. flows \in Seq(FlowType)
  BY Zenon DEF TypeOK, FlowType
<1>2. QED
  BY <1>1

LEMMA FlowFields ==
    ASSUME NEW r \in FlowType
    PROVE  /\ r.kind \in Kinds /\ r.live \in BOOLEAN /\ r.cid \in Cids \cup {None} /\ r.amount \in Nat
           /\ r.min \in Nat /\ r.said \in Cids \cup {None} /\ r.stage \in Stages
BY DEF FlowType

LEMMA WalletTypes ==
    ASSUME TypeOK
    PROVE  /\ popups \subseteq (DOMAIN flows) \X Acts /\ pool \in Seq((DOMAIN flows) \X Acts)
           /\ DOMAIN pool = 1 .. Len(pool) /\ Len(pool) \in Nat
           /\ \A k \in DOMAIN pool : pool[k] \in (DOMAIN flows) \X Acts
<1>1. popups \subseteq (DOMAIN flows) \X Acts /\ pool \in Seq((DOMAIN flows) \X Acts)
  BY Zenon DEF TypeOK, Acts
<1>2. QED
  BY <1>1

LEMMA OtherTypes ==
    ASSUME TypeOK
    PROVE  /\ Chain!TypeOK /\ uploaded \subseteq Cids /\ recorded \subseteq Cids /\ pending \subseteq Cids
           /\ page \in PageNames /\ start \in StartType /\ ui \in [DOMAIN Lit -> BOOLEAN]
           /\ form \in [file : Cids \cup {None}, body : Cids \cup {None}, plan : 0 .. 3,
                        amount : Nat, price : Nat \cup {NotCalculated}]
           /\ row \in [cid : Cids \cup {None}, price : Nat \cup {NotCalculated}, dialog : BOOLEAN]
           /\ loads \in Nat /\ searches \in 0 .. MaxSearches
           /\ notices \subseteq [flow : DOMAIN flows, cid : Cids]
           /\ arrived \subseteq notices /\ faults \in 0 .. MaxFaults
BY Zenon DEF TypeOK, StartType

\* The transaction next in the order of nonces.
LEMMA HeadOf ==
    ASSUME TypeOK, WalletInv, pool # <<>>
    PROVE  LET p == Head(pool)
           IN  /\ p = pool[1] /\ 1 \in DOMAIN pool /\ p[1] \in DOMAIN flows /\ p[2] \in Acts
               /\ p = <<p[1], p[2]>> /\ EntryOK(p)
<1> DEFINE p == pool[1]
<1>1. Head(pool) = p /\ 1 \in DOMAIN pool
  BY WalletTypes
<1>2. p \in (DOMAIN flows) \X Acts
  BY <1>1, WalletTypes
<1>3. EntryOK(p)
  BY <1>1 DEF WalletInv
<1> HIDE DEF p
<1>4. p[1] \in DOMAIN flows /\ p[2] \in Acts /\ p = <<p[1], p[2]>>
  BY <1>2
<1>5. QED
  BY <1>1, <1>3, <1>4

\* A flow that waits for its transaction is of an uploaded file.
LEMMA SentFile ==
    ASSUME TypeOK, FlowsInv, NEW f \in DOMAIN flows, flows[f].stage \in AfterUpload
    PROVE  flows[f].cid \in uploaded /\ flows[f].cid \in Cids
<1>1. flows[f].kind = "upload" \/ flows[f].kind # "upload"
  OBVIOUS
<1>2. flows[f].cid \in uploaded
  BY <1>1 DEF FlowsInv, FlowOK, FlowFits
<1>3. QED
  BY <1>2, OtherTypes

(***************************************************************************)
(* Payments and source files only come.                                    *)
(***************************************************************************)
Grow ==
    /\ uploaded \subseteq uploaded'
    /\ \A c \in Cids : txCarMap[c]._isExisted => txCarMap'[c]._isExisted

LEMMA UploadedStep ==
    ASSUME TypeOK, FlowsInv, [Next]_vars
    PROVE  uploaded \subseteq uploaded' /\ uploaded' \subseteq Cids
<1>1. CASE uploaded' = uploaded
  BY <1>1, OtherTypes
<1>2. CASE \E f \in DOMAIN flows : UploadAnswers(f) \/ UploadFails(f)
  <2>1. PICK f \in DOMAIN flows : UploadAnswers(f) \/ UploadFails(f)
    BY <1>2
  <2>2. flows[f].stage = "upload"
    BY <2>1 DEF UploadAnswers, UploadFails, At
  <2>3. uploaded' \in {uploaded, uploaded \cup {flows[f].cid}}
    BY <2>1 DEF UploadAnswers, UploadFails
  <2>4. flows[f].cid \in Cids
    BY <2>2, OtherTypes DEF FlowsInv, FlowOK, FlowFits
  <2>5. QED
    BY <2>3, <2>4, OtherTypes
<1>3. QED
  BY <1>1, <1>2, Writers

\* What the next transaction of the pool does to the contract and to its flow.
LEMMA Mined ==
    ASSUME TypeOK, FlowsInv, ChainInv, WalletInv, MineNext
    PROVE  LET f == Head(pool)[1]
           IN  \/ /\ Head(pool)[2] = "approve" /\ flows' = flows
                  /\ Chain!TypeOK' /\ UNCHANGED <<txMap, txCarMap>>
               \/ /\ Head(pool)[2] = "lock" /\ Move(f, "mined")
                  /\ f \in DOMAIN flows /\ flows[f].stage = "sent" /\ flows[f].kind # "unlock"
                  /\ flows[f].cid \in uploaded /\ flows[f].cid \in Cids
                  /\ Chain!TypeOK' /\ txMap' = txMap /\ txCarMap'[flows[f].cid]._isExisted
                  /\ \A d \in Cids : d # flows[f].cid => txCarMap'[d] = txCarMap[d]
<1> DEFINE p == Head(pool)
           f == p[1]
<1>1. pool # <<>> /\ Execute(p[1], p[2])
  BY DEF MineNext
<1>2. p[1] \in DOMAIN flows /\ p[2] \in Acts /\ EntryOK(p)
  BY <1>1, HeadOf
<1> HIDE DEF p
<1>3. flows[f] \in FlowType /\ flows[f].amount \in Nat /\ flows[f].min \in Nat
  BY <1>2, FlowTypes, FlowFields
<1>4. CASE p[2] = "approve"
  <2>1. Chain!Approve(User, flows[f].amount) /\ UNCHANGED flows
    BY <1>1, <1>4 DEF Execute
  <2>2. QED
    BY <1>3, <1>4, <2>1, ApproveMined, OtherTypes DEF p
<1>5. CASE p[2] = "lock"
  <2>1. Chain!LockTokenPayment(User, flows[f].cid, flows[f].amount, flows[f].min, 0, 1) /\ Move(f, "mined")
    BY <1>1, <1>5 DEF Execute
  <2>2. flows[f].stage = "sent" /\ flows[f].kind # "unlock"
    BY <1>2, <1>5 DEF EntryOK
  <2>3. flows[f].cid \in uploaded /\ flows[f].cid \in Cids
    BY <1>2, <2>2, SentFile DEF AfterUpload
  <2>4. /\ Chain!TypeOK' /\ txMap' = txMap /\ txCarMap'[flows[f].cid]._isExisted
        /\ \A d \in Cids : d # flows[f].cid => txCarMap'[d] = txCarMap[d]
    BY <1>3, <2>1, <2>3, LockMined, OtherTypes
  <2>5. QED
    BY <1>2, <1>5, <2>1, <2>2, <2>3, <2>4 DEF p
<1>6. CASE p[2] = "unlock"
  <2>1. Chain!UnlockTokenPayment(User, flows[f].cid)
    BY <1>1, <1>6 DEF Execute
  <2>2. flows[f].kind = "unlock" /\ flows[f].stage = "sent"
    BY <1>2, <1>6 DEF EntryOK
  <2>3. flows[f].cid \in Cids
    BY <1>2, <2>2, SentFile DEF AfterUpload
  <2>4. QED
    BY <2>1, <2>3, UnlockNeedsTokenPayment DEF ChainInv
<1>7. QED
  BY <1>2, <1>4, <1>5, <1>6 DEF Acts

LEMMA ChainStep ==
    ASSUME TypeOK, FlowsInv, ChainInv, WalletInv, [Next]_vars
    PROVE  Chain!TypeOK' /\ ChainInv' /\ Grow
<1>1. uploaded \subseteq uploaded'
  BY UploadedStep
<1>2. CASE UNCHANGED chain \/ Expire
  <2>1. UNCHANGED <<txMap, txCarMap, balance, allowance, dust>> /\ timestamp' \in Nat
    BY <1>2, OtherTypes, ChainTypes DEF chain, Expire, Chain!Tick
  <2>2. Chain!TypeOK'
    BY <2>1, OtherTypes DEF Chain!TypeOK
  <2>3. QED
    BY <1>1, <2>1, <2>2 DEF ChainInv, Grow
<1>3. CASE MineNext
  <2>1. CASE Chain!TypeOK' /\ UNCHANGED <<txMap, txCarMap>>
    BY <1>1, <2>1 DEF ChainInv, Grow
  <2>2. ASSUME NEW c \in uploaded, c \in Cids, Chain!TypeOK', txMap' = txMap, txCarMap'[c]._isExisted,
               \A d \in Cids : d # c => txCarMap'[d] = txCarMap[d]
        PROVE  Chain!TypeOK' /\ ChainInv' /\ Grow
    BY <1>1, <2>2 DEF ChainInv, Grow
  <2>3. QED
    BY <1>3, <2>1, <2>2, Mined
<1>4. QED
  BY <1>2, <1>3, Writers

(***************************************************************************)
(* How a flow moves on.                                                    *)
(***************************************************************************)
PlainEdges == {<<"balance", "done">>, <<"balance", "stuck">>, <<"balance", "lost">>, <<"upload", "done">>,
               <<"info", "balance">>, <<"info", "done">>, <<"allowance", "lost">>,
               <<"sent", "done">>, <<"sent", "reverted">>, <<"reverted", "done">>,
               <<"checking", "finishing">>, <<"checking", "untold">>, <<"finishing", "completed">>}
Edges == PlainEdges \cup {<<"balance", "upload">>, <<"balance", "allowance">>, <<"upload", "allowance">>,
                          <<"allowance", "sent">>, <<"sent", "mined">>, <<"mined", "checking">>}

FlowMoves(f, r) ==
    /\ f \in DOMAIN flows /\ r \in FlowType /\ flows' = [flows EXCEPT ![f] = r]
    /\ r.kind = flows[f].kind /\ r.live = flows[f].live
    /\ <<flows[f].stage, r.stage>> \in Edges
    /\ FlowFits(r, uploaded', txCarMap')

FlowBegins(r) ==
    /\ r \in FlowType /\ flows' = Append(flows, r) /\ Len(flows) < MaxFlows
    /\ <<r.kind, r.stage>> \in {<<"upload", "balance">>, <<"files", "info">>, <<"unlock", "sent">>}
    /\ FlowFits(r, uploaded', txCarMap')
    /\ r.kind = "upload" => SubmitForm
    /\ r.kind = "files" => \E plan \in Plans : PayStartClick(plan)
    /\ r.kind = "unlock" => \E c \in Cids : RefundClick(c)

Before == TypeOK /\ FlowsInv /\ ChainInv /\ PageInv /\ FormInv /\ WalletInv

LEMMA Fits ==
    ASSUME Before, [Next]_vars, NEW q \in FlowType, FlowOK(q)
    PROVE  FlowFits(q, uploaded', txCarMap')
<1>1. Grow
  BY ChainStep DEF Before
<1>2. q.stage \in MinedStages => q.cid \in Cids
  <2>1. q.stage \in MinedStages => q.stage \in AfterUpload
    BY DEF MinedStages, AfterUpload
  <2>2. q.stage \in MinedStages => q.cid \in uploaded
    BY <2>1 DEF FlowOK, FlowFits
  <2>3. QED
    BY <2>2, OtherTypes DEF Before
<1>3. QED
  BY <1>1, <1>2 DEF FlowOK, FlowFits, Grow

LEMMA PlainFits ==
    ASSUME Before, [Next]_vars, NEW q \in FlowType, FlowOK(q), NEW r \in FlowType,
           r.kind = q.kind, r.cid = q.cid, r.amount = q.amount, <<q.stage, r.stage>> \in PlainEdges
    PROVE  FlowFits(r, uploaded', txCarMap')
<1>1. FlowFits(q, uploaded', txCarMap')
  BY Fits
<1>2. QED
  BY <1>1 DEF FlowFits, PlainEdges, AfterUpload, MinedStages

LEMMA MoveIs ==
    ASSUME TypeOK, NEW f \in DOMAIN flows, NEW s \in Stages, Move(f, s)
    PROVE  LET r == [flows[f] EXCEPT !.stage = s]
           IN  /\ r \in FlowType /\ flows' = [flows EXCEPT ![f] = r]
               /\ r.kind = flows[f].kind /\ r.live = flows[f].live /\ r.cid = flows[f].cid
               /\ r.amount = flows[f].amount /\ r.said = flows[f].said /\ r.stage = s
<1>1. flows[f] \in FlowType
  BY FlowTypes
<1>2. flows' = [flows EXCEPT ![f] = [flows[f] EXCEPT !.stage = s]]
  BY DEF Move
<1>3. QED
  BY <1>1, <1>2 DEF FlowType

LEMMA PlainMove ==
    ASSUME Before, [Next]_vars, NEW f \in DOMAIN flows, NEW s \in Stages, Move(f, s),
           <<flows[f].stage, s>> \in PlainEdges
    PROVE  \E r : FlowMoves(f, r)
<1> DEFINE r == [flows[f] EXCEPT !.stage = s]
<1>1. /\ r \in FlowType /\ flows' = [flows EXCEPT ![f] = r]
      /\ r.kind = flows[f].kind /\ r.live = flows[f].live /\ r.cid = flows[f].cid
      /\ r.amount = flows[f].amount /\ r.said = flows[f].said /\ r.stage = s
  BY MoveIs DEF Before
<1>2. flows[f] \in FlowType /\ FlowOK(flows[f])
  BY FlowTypes DEF Before, FlowsInv
<1> HIDE DEF r
<1>3. FlowFits(r, uploaded', txCarMap')
  BY <1>1, <1>2, PlainFits
<1>4. FlowMoves(f, r)
  BY <1>1, <1>3 DEF FlowMoves, Edges
<1>5. QED
  BY <1>4

\* Moves that do more than follow an edge.
LEMMA BalanceMove ==
    ASSUME Before, [Next]_vars, NEW f \in DOMAIN flows, UploadBalance(f) \/ FilesBalance(f)
    PROVE  \E r : FlowMoves(f, r)
<1>1. flows[f].stage = "balance"
  BY DEF UploadBalance, FilesBalance, At
<1>2. flows[f] \in FlowType /\ FlowFits(flows[f], uploaded', txCarMap')
  BY FlowTypes, Fits DEF Before, FlowsInv
<1>3. CASE Move(f, "done") \/ Move(f, "stuck")
  BY <1>1, <1>3, PlainMove DEF PlainEdges, Stages
<1>4. CASE flows[f].kind = "files" /\ Move(f, "allowance")
  <2> DEFINE r == [flows[f] EXCEPT !.stage = "allowance"]
  <2>1. /\ r \in FlowType /\ flows' = [flows EXCEPT ![f] = r]
        /\ r.kind = flows[f].kind /\ r.live = flows[f].live /\ r.cid = flows[f].cid
        /\ r.amount = flows[f].amount /\ r.said = flows[f].said /\ r.stage = "allowance"
    BY <1>4, MoveIs DEF Before, Stages
  <2> HIDE DEF r
  <2>2. FlowFits(r, uploaded', txCarMap')
    BY <1>2, <1>4, <2>1 DEF FlowFits, AfterUpload, MinedStages
  <2>3. FlowMoves(f, r)
    BY <1>1, <2>1, <2>2 DEF FlowMoves, Edges
  <2>4. QED
    BY <2>3
<1>5. CASE /\ flows[f].kind = "upload"
           /\ flows' = [flows EXCEPT ![f].stage = "upload", ![f].cid = form.body]
  <2> DEFINE r == [flows[f] EXCEPT !.stage = "upload", !.cid = form.body]
  <2>1. form.body \in Cids
    BY <1>1, <1>5, OtherTypes DEF Before, FormInv, NeedsForm
  <2>2. flows' = [flows EXCEPT ![f] = r]
    BY <1>5
  <2>3. /\ r \in FlowType /\ r.kind = "upload" /\ r.live = flows[f].live /\ r.cid \in Cids
        /\ r.stage = "upload"
    BY <1>2, <1>5, <2>1 DEF FlowType, Stages
  <2> HIDE DEF r
  <2>4. FlowFits(r, uploaded', txCarMap')
    BY <2>3 DEF FlowFits, AfterUpload, MinedStages
  <2>5. FlowMoves(f, r)
    BY <1>1, <1>5, <2>2, <2>3, <2>4 DEF FlowMoves, Edges
  <2>6. QED
    BY <2>5
<1>6. QED
  BY <1>3, <1>4, <1>5 DEF UploadBalance, FilesBalance

LEMMA UploadAnswersMove ==
    ASSUME Before, [Next]_vars, NEW f \in DOMAIN flows, UploadAnswers(f)
    PROVE  \E r : FlowMoves(f, r)
<1>1. flows[f].stage = "upload" /\ uploaded' = uploaded \cup {flows[f].cid}
  BY DEF UploadAnswers, At
<1>2. flows[f] \in FlowType /\ FlowFits(flows[f], uploaded', txCarMap')
  BY FlowTypes, Fits DEF Before, FlowsInv
<1>3. CASE Move(f, "done")
  BY <1>1, <1>3, PlainMove DEF PlainEdges, Stages
<1>4. CASE Move(f, "allowance")
  <2> DEFINE r == [flows[f] EXCEPT !.stage = "allowance"]
  <2>1. /\ r \in FlowType /\ flows' = [flows EXCEPT ![f] = r]
        /\ r.kind = flows[f].kind /\ r.live = flows[f].live /\ r.cid = flows[f].cid
        /\ r.amount = flows[f].amount /\ r.said = flows[f].said /\ r.stage = "allowance"
    BY <1>4, MoveIs DEF Before, Stages
  <2> HIDE DEF r
  <2>2. FlowFits(r, uploaded', txCarMap')
    BY <1>1, <1>2, <2>1 DEF FlowFits, AfterUpload, MinedStages
  <2>3. FlowMoves(f, r)
    BY <1>1, <2>1, <2>2 DEF FlowMoves, Edges
  <2>4. QED
    BY <2>3
<1>5. QED
  BY <1>3, <1>4 DEF UploadAnswers

LEMMA PriceNat ==
    ASSUME NEW price \in Nat \cup {NotCalculated}
    PROVE  MinPrice(price) \in Nat /\ \A plan \in 1 .. 3 : PlanPrice(price, plan) \in Nat
<1>1. MinPrice(price) \in Nat
  BY DEF MinPrice, NotCalculated
<1>2. \A plan \in 1 .. 3 : Multiplier[plan] \in Nat
  BY DEF Multiplier
<1>3. ASSUME NEW plan \in 1 .. 3 PROVE PlanPrice(price, plan) \in Nat
  <2>1. CASE price = NotCalculated
    BY <2>1 DEF PlanPrice
  <2>2. CASE price = 0
    BY <2>2 DEF PlanPrice, NotCalculated
  <2>3. CASE price # NotCalculated /\ price # 0
    <3> DEFINE m == Multiplier[plan]
    <3>1. PlanPrice(price, plan) = m * price
      BY <2>3 DEF PlanPrice
    <3>2. m \in Nat /\ price \in Nat
      BY <1>2, <2>3
    <3> HIDE DEF m
    <3>3. QED
      BY <3>1, <3>2
  <2>4. QED
    BY <2>1, <2>2, <2>3
<1>4. QED
  BY <1>1, <1>3

LEMMA AllowanceMove ==
    ASSUME Before, [Next]_vars, NEW f \in DOMAIN flows, AllowanceAnswers(f)
    PROVE  \E r : FlowMoves(f, r)
<1> DEFINE amount == IF flows[f].kind = "upload" THEN form.amount ELSE flows[f].amount
           min == MinPrice(IF flows[f].kind = "upload" THEN form.price ELSE row.price)
           r == [flows[f] EXCEPT !.stage = "sent", !.amount = amount, !.min = min]
<1>1. flows[f].stage = "allowance"
  BY DEF AllowanceAnswers, At
<1>2. flows[f] \in FlowType /\ FlowFits(flows[f], uploaded', txCarMap')
  BY FlowTypes, Fits DEF Before, FlowsInv
<1>3. amount \in Nat /\ min \in Nat
  <2>1. form.amount \in Nat /\ form.price \in Nat \cup {NotCalculated} /\ row.price \in Nat \cup {NotCalculated}
    BY OtherTypes DEF Before
  <2>2. flows[f].amount \in Nat
    BY <1>2, FlowFields
  <2>3. QED
    BY <2>1, <2>2, PriceNat
<1>4. flows' = [flows EXCEPT ![f] = r]
  BY DEF AllowanceAnswers
<1> HIDE DEF amount, min
<1>5. /\ r \in FlowType /\ r.kind = flows[f].kind /\ r.live = flows[f].live /\ r.cid = flows[f].cid
      /\ r.stage = "sent" /\ r.amount = amount
  BY <1>2, <1>3 DEF FlowType, Stages
<1>6. r.kind = "files" => r.amount = flows[f].amount
  BY <1>5 DEF amount
<1> HIDE DEF r
<1>7. FlowFits(r, uploaded', txCarMap')
  BY <1>1, <1>2, <1>5, <1>6 DEF FlowFits, AfterUpload, MinedStages
<1>8. FlowMoves(f, r)
  BY <1>1, <1>4, <1>5, <1>7 DEF FlowMoves, Edges
<1>9. QED
  BY <1>8

LEMMA ReceiptMove ==
    ASSUME Before, [Next]_vars, NEW f \in DOMAIN flows, Receipt(f)
    PROVE  \E r : FlowMoves(f, r)
<1> DEFINE said == IF flows[f].kind = "files" THEN row.cid ELSE flows[f].cid
           r == [flows[f] EXCEPT !.stage = "checking", !.said = said]
<1>1. flows[f].stage = "mined"
  BY DEF Receipt, At
<1>2. flows[f] \in FlowType /\ FlowFits(flows[f], uploaded', txCarMap')
  BY FlowTypes, Fits DEF Before, FlowsInv
<1>3. flows[f].cid \in Cids
  BY <1>1, SentFile DEF Before, AfterUpload
<1>4. said \in Cids
  BY <1>3 DEF Before, PageInv
<1>5. flows' = [flows EXCEPT ![f] = r]
  BY DEF Receipt
<1>6. flows[f].kind = "upload" => said = flows[f].cid
  OBVIOUS
<1> HIDE DEF said
<1>7. /\ r \in FlowType /\ r.kind = flows[f].kind /\ r.live = flows[f].live /\ r.cid = flows[f].cid
      /\ r.stage = "checking" /\ r.amount = flows[f].amount /\ r.said = said
  BY <1>2, <1>4 DEF FlowType, Stages
<1> HIDE DEF r
<1>8. FlowFits(r, uploaded', txCarMap')
  BY <1>1, <1>2, <1>4, <1>6, <1>7 DEF FlowFits, AfterUpload, MinedStages
<1>9. FlowMoves(f, r)
  BY <1>1, <1>5, <1>7, <1>8 DEF FlowMoves, Edges
<1>10. QED
  BY <1>9

LEMMA MineMove ==
    ASSUME Before, [Next]_vars, MineNext
    PROVE  flows' = flows \/ \E f, r : FlowMoves(f, r)
<1> DEFINE f == Head(pool)[1]
           r == [flows[f] EXCEPT !.stage = "mined"]
<1>1. SUFFICES ASSUME /\ Move(f, "mined") /\ f \in DOMAIN flows /\ flows[f].stage = "sent"
                      /\ flows[f].kind # "unlock" /\ txCarMap'[flows[f].cid]._isExisted
               PROVE  \E g, q : FlowMoves(g, q)
  BY Mined DEF Before
<1> HIDE DEF f
<1>2. /\ r \in FlowType /\ flows' = [flows EXCEPT ![f] = r]
      /\ r.kind = flows[f].kind /\ r.live = flows[f].live /\ r.cid = flows[f].cid
      /\ r.amount = flows[f].amount /\ r.said = flows[f].said /\ r.stage = "mined"
  BY <1>1, MoveIs DEF Before, Stages
<1>3. FlowFits(flows[f], uploaded', txCarMap')
  BY <1>1, FlowTypes, Fits DEF Before, FlowsInv
<1> HIDE DEF r
<1>4. FlowFits(r, uploaded', txCarMap')
  BY <1>1, <1>2, <1>3 DEF FlowFits, AfterUpload, MinedStages
<1>5. FlowMoves(f, r)
  BY <1>1, <1>2, <1>4 DEF FlowMoves, Edges
<1>6. QED
  BY <1>5

LEMMA StartIs ==
    ASSUME Before, [Next]_vars, NEW cid \in Cids \cup {None}, NEW amount \in Nat, NEW kind \in Kinds,
           Start(kind, cid, amount)
    PROVE  \E r \in FlowType :
              /\ flows' = Append(flows, r) /\ Len(flows) < MaxFlows
              /\ r.kind = kind /\ r.cid = cid /\ r.amount = amount
              /\ <<r.kind, r.stage>> \in {<<"upload", "balance">>, <<"files", "info">>, <<"unlock", "sent">>}
<1> DEFINE stage == CASE kind = "upload" -> "balance" [] kind = "files" -> "info" [] OTHER -> "sent"
           r == [kind |-> kind, live |-> TRUE, cid |-> cid, amount |-> amount, min |-> 0, said |-> None,
                 stage |-> stage]
<1>1. <<kind, stage>> \in {<<"upload", "balance">>, <<"files", "info">>, <<"unlock", "sent">>}
  BY DEF Kinds
<1>2. flows' = Append(flows, r) /\ Len(flows) < MaxFlows
  BY DEF Start
<1>3. stage \in Stages
  BY <1>1 DEF Stages
<1> HIDE DEF stage
<1>4. r \in FlowType /\ r.kind = kind /\ r.cid = cid /\ r.amount = amount /\ r.live = TRUE /\ r.stage = stage
  BY <1>3 DEF FlowType
<1>5. QED
  BY <1>1, <1>2, <1>4

LEMMA Begins ==
    ASSUME Before, [Next]_vars,
           SubmitForm \/ (\E plan \in Plans : PayStartClick(plan)) \/ (\E c \in Cids : RefundClick(c))
    PROVE  \E r : FlowBegins(r)
<1>1. Grow
  BY ChainStep DEF Before
<1>2. CASE SubmitForm
  <2>1. Start("upload", None, 0)
    BY <1>2 DEF SubmitForm
  <2>2. PICK r \in FlowType :
           /\ flows' = Append(flows, r) /\ Len(flows) < MaxFlows /\ r.kind = "upload"
           /\ <<r.kind, r.stage>> \in {<<"upload", "balance">>, <<"files", "info">>, <<"unlock", "sent">>}
    BY <2>1, StartIs DEF Kinds
  <2>3. FlowFits(r, uploaded', txCarMap')
    BY <2>2 DEF FlowFits, AfterUpload, MinedStages
  <2>4. QED
    BY <1>2, <2>2, <2>3 DEF FlowBegins
<1>3. ASSUME NEW plan \in Plans, PayStartClick(plan) PROVE \E r : FlowBegins(r)
  <2> DEFINE amount == PlanPrice(row.price, plan)
  <2>1. Start("files", row.cid, amount) /\ row.dialog
    BY <1>3 DEF PayStartClick
  <2>2. row.cid \in uploaded /\ row.price \in {0, Cost[row.cid]} /\ row.cid \in Cids
    BY <2>1, OtherTypes DEF Before, PageInv
  <2>3. amount \in Nat
    BY PriceNat, OtherTypes, ConstantsAssumption DEF Before
  <2>4. \E price \in {0, Cost[row.cid]} : amount = PlanPrice(price, plan)
    BY <2>2
  <2> HIDE DEF amount
  <2>5. PICK r \in FlowType :
           /\ flows' = Append(flows, r) /\ Len(flows) < MaxFlows /\ r.kind = "files"
           /\ r.cid = row.cid /\ r.amount = amount
           /\ <<r.kind, r.stage>> \in {<<"upload", "balance">>, <<"files", "info">>, <<"unlock", "sent">>}
    BY <2>1, <2>2, <2>3, StartIs DEF Kinds
  <2>6. \E price \in {0, Cost[r.cid]}, one \in Plans : r.amount = PlanPrice(price, one)
    BY <2>4, <2>5
  <2>7. FlowFits(r, uploaded', txCarMap')
    BY <1>1, <2>2, <2>5, <2>6 DEF FlowFits, AfterUpload, MinedStages, Grow
  <2>8. QED
    BY <1>3, <2>5, <2>7 DEF FlowBegins
<1>4. ASSUME NEW c \in Cids, RefundClick(c) PROVE \E r : FlowBegins(r)
  <2>1. Start("unlock", c, 0) /\ Locked(c)
    BY <1>4 DEF RefundClick
  <2>2. c \in uploaded
    BY <2>1 DEF Before, ChainInv, Locked
  <2>3. PICK r \in FlowType :
           /\ flows' = Append(flows, r) /\ Len(flows) < MaxFlows /\ r.kind = "unlock" /\ r.cid = c
           /\ <<r.kind, r.stage>> \in {<<"upload", "balance">>, <<"files", "info">>, <<"unlock", "sent">>}
    BY <2>1, StartIs DEF Kinds
  <2>4. FlowFits(r, uploaded', txCarMap')
    BY <1>1, <2>2, <2>3 DEF FlowFits, AfterUpload, MinedStages, Grow
  <2>5. QED
    BY <1>4, <2>3, <2>4 DEF FlowBegins
<1>5. QED
  BY <1>2, <1>3, <1>4

LEMMA FlowSteps ==
    ASSUME Before, [Next]_vars
    PROVE  \/ flows' = flows
           \/ \E f, r : FlowMoves(f, r)
           \/ \E r : FlowBegins(r)
           \/ OpenMyFiles
<1>1. CASE SubmitForm \/ (\E plan \in Plans : PayStartClick(plan)) \/ (\E c \in Cids : RefundClick(c))
  BY <1>1, Begins
<1>2. ASSUME NEW p \in popups, RejectPopup(p) PROVE flows' = flows \/ \E f, r : FlowMoves(f, r)
  <2>1. p[1] \in DOMAIN flows /\ EntryOK(p)
    BY WalletTypes DEF Before, WalletInv
  <2>2. CASE p[2] = "approve"
    BY <1>2, <2>2 DEF RejectPopup
  <2>3. CASE p[2] # "approve"
    <3>1. Move(p[1], "done") /\ flows[p[1]].stage = "sent"
      BY <1>2, <2>1, <2>3 DEF RejectPopup, EntryOK
    <3>2. QED
      BY <2>1, <3>1, PlainMove DEF PlainEdges, Stages
  <2>4. QED
    BY <2>2, <2>3
<1>3. ASSUME NEW f \in DOMAIN flows,
             UploadFails(f) \/ InfoFails(f) \/ InfoPaid(f) \/ ErrorEvent(f)
      PROVE  \E r : FlowMoves(f, r)
  <2>1. Move(f, "done") /\ flows[f].stage \in {"upload", "info", "reverted"}
    BY <1>3 DEF UploadFails, InfoFails, InfoPaid, ErrorEvent, At
  <2>2. QED
    BY <2>1, PlainMove DEF PlainEdges, Stages
<1>4. ASSUME NEW f \in DOMAIN flows, CallFails(f) PROVE \E r : FlowMoves(f, r)
  <2>1. Move(f, IF flows[f].stage = "checking" THEN "untold" ELSE "lost")
        /\ flows[f].stage \in {"balance", "allowance", "checking"}
    BY <1>4 DEF CallFails, At
  <2>2. QED
    BY <2>1, PlainMove DEF PlainEdges, Stages
<1>5. ASSUME NEW f \in DOMAIN flows, InfoUnpaid(f) \/ CheckTransaction(f) \/ Finish(f)
      PROVE  \E r : FlowMoves(f, r)
  <2>1. CASE InfoUnpaid(f)
    BY <2>1, PlainMove DEF PlainEdges, Stages, InfoUnpaid, At
  <2>2. CASE CheckTransaction(f)
    BY <2>2, PlainMove DEF PlainEdges, Stages, CheckTransaction, At
  <2>3. CASE Finish(f)
    BY <2>3, PlainMove DEF PlainEdges, Stages, Finish, At
  <2>4. QED
    BY <1>5, <2>1, <2>2, <2>3
<1>6. CASE RevertNext
  <2> DEFINE f == Head(pool)[1]
  <2>1. Move(f, "reverted") /\ Head(pool)[2] # "approve" /\ pool # <<>>
    BY <1>6 DEF RevertNext
  <2>2. f \in DOMAIN flows /\ flows[f].stage = "sent"
    BY <2>1, HeadOf DEF Before, EntryOK
  <2> HIDE DEF f
  <2>3. \E r : FlowMoves(f, r)
    BY <2>1, <2>2, PlainMove DEF PlainEdges, Stages
  <2>4. QED
    BY <2>3
<1>7. QED
  BY <1>1, <1>2, <1>3, <1>4, <1>5, <1>6, Writers, BalanceMove, UploadAnswersMove, AllowanceMove,
     ReceiptMove, MineMove

(***************************************************************************)
(* What every change of flows keeps.                                       *)
(***************************************************************************)
LEMMA MovedFlow ==
    ASSUME TypeOK, NEW f, NEW r, FlowMoves(f, r)
    PROVE  /\ flows' \in Seq(FlowType) /\ DOMAIN flows' = DOMAIN flows /\ Len(flows') = Len(flows)
           /\ f \in DOMAIN flows /\ flows'[f] = r /\ \A g \in DOMAIN flows : g # f => flows'[g] = flows[g]
BY FlowTypes DEF FlowMoves

LEMMA BegunFlow ==
    ASSUME TypeOK, NEW r, FlowBegins(r)
    PROVE  /\ flows' \in Seq(FlowType) /\ Len(flows') = Len(flows) + 1
           /\ DOMAIN flows' = DOMAIN flows \cup {Len(flows) + 1} /\ Len(flows) + 1 \notin DOMAIN flows
           /\ flows'[Len(flows) + 1] = r /\ \A g \in DOMAIN flows : flows'[g] = flows[g]
BY FlowTypes DEF FlowBegins

LEMMA LeftFlows ==
    ASSUME TypeOK, OpenMyFiles
    PROVE  /\ flows' \in Seq(FlowType) /\ DOMAIN flows' = DOMAIN flows /\ Len(flows') = Len(flows)
           /\ \A f \in DOMAIN flows :
                 /\ flows'[f].kind = flows[f].kind /\ flows'[f].stage = flows[f].stage
                 /\ flows'[f].cid = flows[f].cid /\ flows'[f].amount = flows[f].amount
                 /\ flows'[f].said = flows[f].said /\ flows'[f].live = FALSE
<1> DEFINE r == [f \in DOMAIN flows |-> [flows[f] EXCEPT !.live = FALSE]]
<1>1. flows' = r
  BY DEF OpenMyFiles
<1>2. \A f \in DOMAIN flows :
         /\ r[f] \in FlowType /\ r[f].kind = flows[f].kind /\ r[f].stage = flows[f].stage
         /\ r[f].cid = flows[f].cid /\ r[f].amount = flows[f].amount /\ r[f].said = flows[f].said
         /\ r[f].live = FALSE
  BY FlowTypes DEF FlowType
<1>3. r \in [1 .. Len(flows) -> FlowType] /\ DOMAIN r = DOMAIN flows
  BY <1>2, FlowTypes
<1> HIDE DEF r
<1>4. r \in Seq(FlowType) /\ Len(r) = Len(flows)
  BY <1>3, FlowTypes
<1>5. QED
  BY <1>1, <1>2, <1>3, <1>4

\* Flows keep their kind; a stage only changes along an edge.
LEMMA FlowKept ==
    ASSUME Before, [Next]_vars, NEW f \in DOMAIN flows
    PROVE  /\ f \in DOMAIN flows' /\ flows'[f].kind = flows[f].kind
           /\ flows'[f].stage = flows[f].stage \/ <<flows[f].stage, flows'[f].stage>> \in Edges
<1>1. TypeOK
  BY DEF Before
<1>2. ASSUME NEW g, NEW r, FlowMoves(g, r)
      PROVE  /\ f \in DOMAIN flows' /\ flows'[f].kind = flows[f].kind
             /\ flows'[f].stage = flows[f].stage \/ <<flows[f].stage, flows'[f].stage>> \in Edges
  BY <1>1, <1>2, MovedFlow DEF FlowMoves
<1>3. QED
  BY <1>1, <1>2, FlowSteps, BegunFlow, LeftFlows

LEMMA SameFits ==
    ASSUME NEW q, NEW r, NEW up, NEW cars, FlowFits(q, up, cars), r.kind = q.kind, r.stage = q.stage,
           r.cid = q.cid, r.amount = q.amount, r.said = q.said
    PROVE  FlowFits(r, up, cars)
BY DEF FlowFits

LEMMA FlowsStep ==
    ASSUME Before, [Next]_vars
    PROVE  FlowsInv' /\ flows' \in Seq(FlowType) /\ DOMAIN flows \subseteq DOMAIN flows'
<1>1. TypeOK /\ \A g \in DOMAIN flows : FlowFits(flows[g], uploaded', txCarMap')
  BY FlowTypes, Fits DEF Before, FlowsInv
<1>2. Len(flows) <= MaxFlows /\ Len(flows) \in Nat /\ MaxFlows \in Nat
  BY FlowTypes, ConstantsAssumption DEF Before, FlowsInv
<1>3. SUFFICES /\ Len(flows') <= MaxFlows /\ flows' \in Seq(FlowType) /\ DOMAIN flows \subseteq DOMAIN flows'
               /\ \A g \in DOMAIN flows' : FlowFits(flows'[g], uploaded', txCarMap')
  BY DEF FlowsInv, FlowOK
<1>4. CASE flows' = flows
  BY <1>1, <1>2, <1>4, FlowTypes
<1>5. ASSUME NEW f, NEW r, FlowMoves(f, r)
      PROVE  /\ Len(flows') <= MaxFlows /\ flows' \in Seq(FlowType) /\ DOMAIN flows \subseteq DOMAIN flows'
             /\ \A g \in DOMAIN flows' : FlowFits(flows'[g], uploaded', txCarMap')
  <2>1. FlowFits(r, uploaded', txCarMap')
    BY <1>5 DEF FlowMoves
  <2>2. QED
    BY <1>1, <1>2, <1>5, <2>1, MovedFlow
<1>6. ASSUME NEW r, FlowBegins(r)
      PROVE  /\ Len(flows') <= MaxFlows /\ flows' \in Seq(FlowType) /\ DOMAIN flows \subseteq DOMAIN flows'
             /\ \A g \in DOMAIN flows' : FlowFits(flows'[g], uploaded', txCarMap')
  <2>1. FlowFits(r, uploaded', txCarMap') /\ Len(flows) < MaxFlows
    BY <1>6 DEF FlowBegins
  <2>2. QED
    BY <1>1, <1>2, <1>6, <2>1, BegunFlow
<1>7. CASE OpenMyFiles
  <2>1. \A g \in DOMAIN flows : FlowFits(flows'[g], uploaded', txCarMap')
    BY <1>1, <1>7, LeftFlows, SameFits
  <2>2. QED
    BY <1>1, <1>2, <1>7, <2>1, LeftFlows
<1>8. QED
  BY <1>4, <1>5, <1>6, <1>7, FlowSteps

(***************************************************************************)
(* My Files and the form.                                                  *)
(***************************************************************************)
\* Once My Files is shown it stays, and so does a row that was clicked.
LEMMA FilesStay ==
    ASSUME Before, [Next]_vars, page = "files", row.cid \in Cids
    PROVE  page' = "files" /\ row'.cid \in Cids
<1>1. ~OpenMyFiles
  BY DEF OpenMyFiles
<1>2. page' = "files"
  BY <1>1, Writers
<1>3. ASSUME NEW c \in Cids, PayClick(c) PROVE row'.cid \in Cids
  BY <1>3 DEF PayClick
<1>4. CASE (\E plan \in Plans : PayStartClick(plan)) \/ CloseDia
  <2>1. row' = [row EXCEPT !.dialog = FALSE]
    BY <1>4 DEF PayStartClick, CloseDia
  <2>2. row'.cid = row.cid
    BY <2>1, OtherTypes DEF Before
  <2>3. QED
    BY <1>2, <2>2
<1>5. QED
  BY <1>1, <1>2, <1>3, <1>4, Writers

LEMMA PageStep ==
    ASSUME Before, [Next]_vars
    PROVE  PageInv'
<1>1. uploaded \subseteq uploaded'
  BY UploadedStep DEF Before
<1>2. pending' \subseteq uploaded'
  <2>1. pending \subseteq uploaded
    BY DEF Before, PageInv
  <2>2. pending' = pending \/ pending' = uploaded \ recorded
    BY Writers DEF TableLoaded
  <2>3. QED
    BY <1>1, <2>1, <2>2
<1>4. ASSUME row'.dialog
      PROVE  page' = "files" /\ row'.cid \in uploaded' /\ row'.price \in {0, Cost[row'.cid]}
  <2>1. CASE OpenMyFiles
    BY <1>4, <2>1 DEF OpenMyFiles, EmptyRow
  <2>2. CASE (\E plan \in Plans : PayStartClick(plan)) \/ CloseDia
    <3>1. row' = [row EXCEPT !.dialog = FALSE]
      BY <2>2 DEF PayStartClick, CloseDia
    <3>2. QED
      BY <1>4, <3>1, OtherTypes DEF Before
  <2>3. ASSUME NEW c \in Cids, PayClick(c)
        PROVE  page' = "files" /\ row'.cid \in uploaded' /\ row'.price \in {0, Cost[row'.cid]}
    <3>1. page = "files" /\ page' = page /\ c \in pending /\ uploaded' = uploaded
      BY <2>3 DEF PayClick, backend
    <3>2. row' = [cid |-> c, price |-> PriceOf(c), dialog |-> TRUE]
      BY <2>3 DEF PayClick
    <3>3. PriceOf(c) \in {0, Cost[c]} /\ c \in uploaded
      BY <3>1 DEF PriceOf, Before, PageInv
    <3>4. QED
      BY <3>1, <3>2, <3>3
  <2>4. CASE row' = row /\ ~OpenMyFiles
    BY <1>1, <1>4, <2>4, Writers DEF Before, PageInv
  <2>5. QED
    BY <2>1, <2>2, <2>3, <2>4, Writers
<1>5. ASSUME NEW f \in DOMAIN flows', flows'[f].kind = "files"
      PROVE  page' = "files" /\ row'.cid \in Cids
  <2>1. CASE f \in DOMAIN flows
    <3>1. flows[f].kind = "files"
      BY <1>5, <2>1, FlowKept
    <3>2. QED
      BY <2>1, <3>1, FilesStay DEF Before, PageInv
  <2>2. CASE f \notin DOMAIN flows
    <3>1. PICK r : FlowBegins(r) /\ flows'[f] = r
      BY <1>5, <2>2, FlowSteps, MovedFlow, BegunFlow, LeftFlows DEF Before
    <3>2. row.dialog
      BY <1>5, <3>1 DEF FlowBegins, PayStartClick
    <3>3. page = "files" /\ row.cid \in Cids
      BY <3>2, OtherTypes DEF Before, PageInv
    <3>4. QED
      BY <3>3, FilesStay
  <2>3. QED
    BY <2>1, <2>2
<1>6. QED
  BY <1>2, <1>4, <1>5 DEF PageInv

LEMMA FormStep ==
    ASSUME Before, [Next]_vars
    PROVE  FormInv'
<1>1. form.file # None => form.body # None
  BY DEF Before, FormInv
<1>2. ASSUME form'.file # None PROVE form'.body # None
  <2>1. CASE OpenMyFiles
    BY <1>1, <1>2, <2>1 DEF OpenMyFiles, EmptyForm
  <2>2. CASE \E c \in Cids : ChooseFile(c)
    <3>1. PICK c \in Cids : form' = [form EXCEPT !.file = c, !.body = c, !.plan = 0, !.price = PriceOf(c)]
      BY <2>2 DEF ChooseFile
    <3>2. form'.body = c
      BY <3>1, OtherTypes DEF Before
    <3>3. QED
      BY <3>2, ConstantsAssumption
  <2>3. CASE HandleRemove \/ \E plan \in Plans : AgreeChange(plan)
    <3>1. form'.body = form.body /\ form'.file \in {form.file, None}
      BY <2>3, OtherTypes DEF Before, HandleRemove, AgreeChange
    <3>2. QED
      BY <1>1, <1>2, <3>1
  <2>4. QED
    BY <1>1, <1>2, <2>1, <2>2, <2>3, Writers
<1>3. ASSUME NEW g \in DOMAIN flows, NeedsForm(g), form.body # None
      PROVE  form'.body # None
  <2>1. CASE OpenMyFiles
    BY <1>3, <2>1 DEF OpenMyFiles
  <2>2. CASE \E c \in Cids : ChooseFile(c)
    <3>1. PICK c \in Cids : form' = [form EXCEPT !.file = c, !.body = c, !.plan = 0, !.price = PriceOf(c)]
      BY <2>2 DEF ChooseFile
    <3>2. form'.body = c
      BY <3>1, OtherTypes DEF Before
    <3>3. QED
      BY <3>2, ConstantsAssumption
  <2>3. CASE HandleRemove \/ \E plan \in Plans : AgreeChange(plan)
    <3>1. form'.body = form.body
      BY <2>3, OtherTypes DEF Before, HandleRemove, AgreeChange
    <3>2. QED
      BY <1>3, <3>1
  <2>4. QED
    BY <1>3, <2>1, <2>2, <2>3, Writers
<1>4. ASSUME NEW f \in DOMAIN flows', flows'[f].kind = "upload", flows'[f].stage \in {"balance", "upload", "allowance"}
      PROVE  form'.body # None
  <2>1. CASE f \in DOMAIN flows
    <3>1. flows[f].kind = "upload" /\ flows[f].stage \in {"balance", "upload", "allowance", "info"}
      BY <1>4, <2>1, FlowKept DEF Edges, PlainEdges
    <3>2. flows[f].stage # "info"
      BY <2>1, <3>1 DEF Before, FlowsInv, FlowOK, FlowFits
    <3>3. NeedsForm(f)
      BY <3>1, <3>2 DEF NeedsForm
    <3>4. QED
      BY <1>3, <2>1, <3>3 DEF Before, FormInv
  <2>2. CASE f \notin DOMAIN flows
    <3>1. PICK r : FlowBegins(r) /\ flows'[f] = r
      BY <1>4, <2>2, FlowSteps, MovedFlow, BegunFlow, LeftFlows DEF Before
    <3>2. form.file # None /\ form' = form
      BY <1>4, <3>1 DEF FlowBegins, SubmitForm, view
    <3>3. QED
      BY <1>1, <3>2
  <2>3. QED
    BY <2>1, <2>2
<1>5. QED
  BY <1>2, <1>4 DEF FormInv, NeedsForm

(***************************************************************************)
(* The transactions.                                                       *)
(***************************************************************************)
\* A flow has one transaction that decides on it.
LEMMA OneEntry ==
    ASSUME TypeOK, NEW p \in (DOMAIN flows) \X Acts, NEW q \in (DOMAIN flows) \X Acts,
           EntryOK(p), EntryOK(q), p[1] = q[1], p[2] # "approve", q[2] # "approve"
    PROVE  p = q
BY DEF EntryOK, Acts

\* The steps that end the wait of a flow for its transaction.
Decides(f) ==
    \/ \E p \in popups : RejectPopup(p) /\ p[1] = f /\ p[2] # "approve"
    \/ (MineNext \/ RevertNext) /\ Head(pool)[1] = f /\ Head(pool)[2] # "approve"

LEMMA SentKept ==
    ASSUME Before, [Next]_vars, NEW f \in DOMAIN flows, flows[f].stage = "sent", ~Decides(f)
    PROVE  flows'[f].stage = "sent"
<1>1. ASSUME NEW g \in DOMAIN flows, NEW s, Move(g, s), g # f PROVE flows'[f] = flows[f]
  BY <1>1, FlowTypes DEF Move, Before
<1>2. CASE \E g \in DOMAIN flows : UploadFails(g) \/ InfoFails(g) \/ CallFails(g) \/ InfoUnpaid(g)
             \/ InfoPaid(g) \/ FilesBalance(g) \/ ErrorEvent(g) \/ CheckTransaction(g) \/ Finish(g)
             \/ UploadAnswers(g)
  <2>1. \E g \in DOMAIN flows : \E s : Move(g, s) /\ flows[g].stage # "sent"
    BY <1>2 DEF UploadFails, InfoFails, CallFails, InfoUnpaid, InfoPaid, FilesBalance, ErrorEvent,
       CheckTransaction, Finish, UploadAnswers, At
  <2>2. QED
    BY <1>1, <2>1
<1>3. CASE \E g \in DOMAIN flows : UploadBalance(g) \/ AllowanceAnswers(g) \/ Receipt(g)
  <2>1. PICK g \in DOMAIN flows : UploadBalance(g) \/ AllowanceAnswers(g) \/ Receipt(g)
    BY <1>3
  <2>2. g # f
    BY <2>1 DEF UploadBalance, AllowanceAnswers, Receipt, At
  <2>3. flows'[f] = flows[f]
    BY <2>1, <2>2, FlowTypes DEF Before, UploadBalance, AllowanceAnswers, Receipt, Move
  <2>4. QED
    BY <2>3
<1>4. ASSUME NEW p \in popups, RejectPopup(p) PROVE flows'[f].stage = "sent"
  <2>1. CASE p[2] = "approve"
    BY <1>4, <2>1 DEF RejectPopup
  <2>2. CASE p[2] # "approve"
    <3>1. Move(p[1], "done") /\ p[1] # f /\ p[1] \in DOMAIN flows
      BY <1>4, <2>2, WalletTypes DEF Before, RejectPopup, Decides
    <3>2. QED
      BY <1>1, <3>1
  <2>3. QED
    BY <2>1, <2>2
<1>5. CASE MineNext \/ RevertNext
  <2> DEFINE g == Head(pool)[1]
  <2>1. pool # <<>>
    BY <1>5 DEF MineNext, RevertNext
  <2>2. g \in DOMAIN flows
    BY <2>1, HeadOf DEF Before
  <2>3. CASE MineNext
    <3>1. flows' = flows \/ (Move(g, "mined") /\ g # f)
      BY <2>3, Mined DEF Before, Decides
    <3> HIDE DEF g
    <3>2. QED
      BY <1>1, <2>2, <3>1
  <2>4. CASE RevertNext
    <3>1. Move(g, "reverted") /\ g # f
      BY <2>4 DEF RevertNext, Decides
    <3> HIDE DEF g
    <3>2. QED
      BY <1>1, <2>2, <3>1
  <2>5. QED
    BY <1>5, <2>3, <2>4
<1>6. CASE SubmitForm \/ (\E c \in Cids : RefundClick(c)) \/ (\E plan \in Plans : PayStartClick(plan))
  BY <1>6, Begins, BegunFlow DEF Before
<1>7. CASE OpenMyFiles
  BY <1>7, LeftFlows DEF Before
<1>8. QED
  BY <1>2, <1>3, <1>4, <1>5, <1>6, <1>7, Writers

LEMMA EntryKept ==
    ASSUME Before, [Next]_vars, NEW p \in (DOMAIN flows) \X Acts, EntryOK(p),
           p[2] = "approve" \/ ~Decides(p[1])
    PROVE  p \in (DOMAIN flows') \X Acts /\ EntryOK(p)'
<1>1. p[1] \in DOMAIN flows /\ p[2] \in Acts
  OBVIOUS
<1>2. p[1] \in DOMAIN flows' /\ flows'[p[1]].kind = flows[p[1]].kind
  BY <1>1, FlowKept
<1>3. p[2] # "approve" => flows'[p[1]].stage = "sent"
  BY <1>1, SentKept DEF EntryOK
<1>4. QED
  BY <1>1, <1>2, <1>3 DEF EntryOK

\* A flow is decided by taking its transaction out of the wallet.
LEMMA DecidedBy ==
    ASSUME Before, NEW f, Decides(f)
    PROVE  \/ \E p \in popups : popups' = popups \ {p} /\ pool' = pool /\ p[1] = f /\ p[2] # "approve"
           \/ /\ pool # <<>> /\ pool' = Tail(pool) /\ popups' = popups
              /\ Head(pool)[1] = f /\ Head(pool)[2] # "approve"
BY DEF Decides, RejectPopup, MineNext, RevertNext

\* Nothing is decided as long as no transaction leaves the wallet.
LEMMA Undecided ==
    ASSUME Before, popups \subseteq popups', pool' = pool, NEW f
    PROVE  ~Decides(f)
<1>1. pool # <<>> => Tail(pool) # pool
  <2>1. pool # <<>> => Len(Tail(pool)) = Len(pool) - 1 /\ Len(pool) \in Nat
    BY WalletTypes DEF Before
  <2>2. QED
    BY <2>1
<1>2. QED
  BY <1>1, DecidedBy

LEMMA WalletKept ==
    ASSUME Before, [Next]_vars, popups \subseteq popups', pool' = pool,
           \A p \in popups' \ popups : EntryOK(p)',
           \A p \in popups' \ popups : \A k \in DOMAIN pool : pool[k] # p \/ p[2] = "approve"
    PROVE  WalletInv'
<1>1. TypeOK /\ WalletInv
  BY DEF Before
<1>2. \A f : ~Decides(f)
  BY Undecided
<1>3. \A p \in popups : EntryOK(p)'
  BY <1>1, <1>2, EntryKept, WalletTypes DEF WalletInv
<1>4. \A k \in DOMAIN pool : EntryOK(pool[k])'
  <2>1. ASSUME NEW k \in DOMAIN pool, NEW p, p = pool[k] PROVE EntryOK(p)'
    BY <1>1, <1>2, <2>1, EntryKept, WalletTypes DEF WalletInv
  <2>2. QED
    BY <2>1 DEF EntryOK
<1>5. QED
  BY <1>1, <1>3, <1>4 DEF WalletInv, EntryOK

LEMMA RefundWallet ==
    ASSUME Before, [Next]_vars, NEW c \in Cids, RefundClick(c)
    PROVE  WalletInv'
<1> DEFINE g == Len(flows) + 1
<1>1. popups' = popups \cup {<<g, "unlock">>} /\ pool' = pool /\ Start("unlock", c, 0)
  BY DEF RefundClick
<1>2. PICK r \in FlowType :
         /\ flows' = Append(flows, r) /\ r.kind = "unlock"
         /\ <<r.kind, r.stage>> \in {<<"upload", "balance">>, <<"files", "info">>, <<"unlock", "sent">>}
  BY <1>1, StartIs DEF Kinds
<1>3. flows'[g] = r /\ g \notin DOMAIN flows
  BY <1>2, FlowTypes DEF Before
<1> HIDE DEF g
<1>4. ASSUME NEW p, p = <<g, "unlock">> PROVE EntryOK(p)'
  BY <1>2, <1>3, <1>4 DEF EntryOK
<1>5. \A k \in DOMAIN pool : pool[k] # <<g, "unlock">>
  BY <1>3, WalletTypes DEF Before
<1>6. QED
  BY <1>1, <1>4, <1>5, WalletKept

LEMMA AllowanceWallet ==
    ASSUME Before, [Next]_vars, NEW f \in DOMAIN flows, AllowanceAnswers(f)
    PROVE  WalletInv'
<1>1. popups' = popups \cup {<<f, "approve">>, <<f, "lock">>} /\ pool' = pool /\ flows[f].stage = "allowance"
  BY DEF AllowanceAnswers, view, wallet, At
<1>2. flows[f].kind # "unlock"
  BY <1>1 DEF Before, FlowsInv, FlowOK, FlowFits
<1>3. flows'[f].kind # "unlock"
  BY <1>2, FlowKept
<1>4. flows'[f].stage = "sent"
  BY FlowTypes DEF AllowanceAnswers, Before, FlowType
<1>5. ASSUME NEW p, p \in {<<f, "approve">>, <<f, "lock">>} PROVE EntryOK(p)'
  BY <1>3, <1>4, <1>5 DEF EntryOK
<1>6. \A k \in DOMAIN pool : pool[k] # <<f, "lock">>
  BY <1>1 DEF Before, WalletInv, EntryOK
<1>7. QED
  BY <1>1, <1>5, <1>6, WalletKept

LEMMA ConfirmWallet ==
    ASSUME Before, NEW p \in popups, ConfirmPopup(p)
    PROVE  WalletInv'
<1>1. popups' = popups \ {p} /\ pool' = Append(pool, p) /\ flows' = flows
  BY DEF ConfirmPopup
<1>2. TypeOK /\ WalletInv
  BY DEF Before
<1>3. /\ DOMAIN pool' = DOMAIN pool \cup {Len(pool) + 1} /\ pool'[Len(pool) + 1] = p
      /\ \A k \in DOMAIN pool : pool'[k] = pool[k] /\ k # Len(pool) + 1
  BY <1>1, <1>2, WalletTypes
<1>4. \A q : EntryOK(q) => EntryOK(q)'
  BY <1>1 DEF EntryOK
<1>5. \A q \in popups' : EntryOK(q)'
  BY <1>1, <1>2, <1>4 DEF WalletInv
<1>6. \A k \in DOMAIN pool' : EntryOK(pool'[k])
  BY <1>1, <1>2, <1>3 DEF WalletInv
<1>7. \A k \in DOMAIN pool' : pool'[k][2] # "approve" => pool'[k] \notin popups'
  BY <1>1, <1>2, <1>3 DEF WalletInv
<1>8. \A j, k \in DOMAIN pool' : pool'[j] = pool'[k] /\ pool'[k][2] # "approve" => j = k
  BY <1>2, <1>3 DEF WalletInv
<1>9. QED
  BY <1>1, <1>5, <1>6, <1>7, <1>8 DEF WalletInv, EntryOK

LEMMA RejectWallet ==
    ASSUME Before, [Next]_vars, NEW p \in popups, RejectPopup(p)
    PROVE  WalletInv'
<1>1. popups' = popups \ {p} /\ pool' = pool
  BY DEF RejectPopup
<1>2. TypeOK /\ WalletInv /\ p \in (DOMAIN flows) \X Acts /\ EntryOK(p)
  BY WalletTypes DEF Before, WalletInv
<1>3. ASSUME NEW q \in (DOMAIN flows) \X Acts, EntryOK(q), q[2] # "approve", Decides(q[1])
      PROVE  q = p
  <2>1. popups' # popups
    BY <1>1
  <2>2. PICK o \in popups : popups' = popups \ {o} /\ o[1] = q[1] /\ o[2] # "approve"
    BY <1>3, <2>1, DecidedBy
  <2>3. o = p
    BY <1>1, <2>2
  <2>4. QED
    BY <1>2, <1>3, <2>2, <2>3, OneEntry
<1>4. ASSUME NEW q \in popups' PROVE EntryOK(q)'
  BY <1>1, <1>2, <1>3, EntryKept, WalletTypes DEF WalletInv
<1>5. ASSUME NEW k \in DOMAIN pool, NEW q, q = pool[k] PROVE EntryOK(q)'
  <2>1. q \in (DOMAIN flows) \X Acts /\ EntryOK(q)
    BY <1>2, <1>5, WalletTypes DEF WalletInv
  <2>2. q[2] # "approve" => q \notin popups
    BY <1>2, <1>5 DEF WalletInv
  <2>3. q[2] = "approve" \/ ~Decides(q[1])
    BY <1>3, <2>1, <2>2
  <2>4. QED
    BY <2>1, <2>3, EntryKept
<1>6. \A k \in DOMAIN pool' : EntryOK(pool[k])'
  BY <1>1, <1>5 DEF EntryOK
<1>7. QED
  BY <1>1, <1>2, <1>4, <1>6 DEF WalletInv, EntryOK

LEMMA MinedWallet ==
    ASSUME Before, [Next]_vars, MineNext \/ RevertNext
    PROVE  WalletInv'
<1> DEFINE p == Head(pool)
<1>1. pool # <<>> /\ pool' = Tail(pool) /\ popups' = popups
  BY DEF MineNext, RevertNext
<1>2. TypeOK /\ WalletInv /\ p = pool[1] /\ 1 \in DOMAIN pool /\ EntryOK(p) /\ p \in (DOMAIN flows) \X Acts
  BY <1>1, HeadOf, WalletTypes DEF Before
<1> HIDE DEF p
<1>3. ASSUME NEW q \in (DOMAIN flows) \X Acts, EntryOK(q), q[2] # "approve", Decides(q[1])
      PROVE  q = p
  <2>1. p[1] = q[1] /\ p[2] # "approve"
    BY <1>1, <1>3, DecidedBy DEF p
  <2>2. QED
    BY <1>2, <1>3, <2>1, OneEntry
<1>4. ASSUME NEW q \in popups' PROVE EntryOK(q)'
  <2>1. q[2] # "approve" => q # p
    BY <1>1, <1>2, <1>4 DEF WalletInv
  <2>2. QED
    BY <1>1, <1>2, <1>3, <2>1, EntryKept, WalletTypes DEF WalletInv
<1>5. /\ DOMAIN pool' = 1 .. (Len(pool) - 1) /\ \A k \in DOMAIN pool' : pool'[k] = pool[k + 1]
      /\ \A k \in DOMAIN pool' : k + 1 \in DOMAIN pool /\ k + 1 # 1
  BY <1>1, <1>2, WalletTypes
<1>6. ASSUME NEW k \in DOMAIN pool, k # 1, NEW q, q = pool[k] PROVE EntryOK(q)'
  <2>1. q \in (DOMAIN flows) \X Acts /\ EntryOK(q)
    BY <1>2, <1>6, WalletTypes DEF WalletInv
  <2>2. q[2] # "approve" => q # p
    BY <1>2, <1>6 DEF WalletInv
  <2>3. QED
    BY <1>3, <2>1, <2>2, EntryKept
<1>7. \A k \in DOMAIN pool' : EntryOK(pool[k])'
  <2>1. ASSUME NEW k \in DOMAIN pool', NEW q, q = pool'[k] PROVE EntryOK(q)'
    BY <1>5, <1>6, <2>1
  <2>2. QED
    BY <2>1 DEF EntryOK
<1>8. \A k \in DOMAIN pool' : pool'[k][2] # "approve" => pool'[k] \notin popups'
  BY <1>1, <1>2, <1>5 DEF WalletInv
<1>9. ASSUME NEW j \in DOMAIN pool', NEW k \in DOMAIN pool', pool'[j] = pool'[k], pool'[k][2] # "approve"
      PROVE  j = k
  <2>1. j + 1 = k + 1 /\ j \in Int /\ k \in Int
    BY <1>2, <1>5, <1>9, WalletTypes DEF WalletInv
  <2>2. QED
    BY <2>1
<1>10. QED
  BY <1>4, <1>7, <1>8, <1>9 DEF WalletInv, EntryOK

LEMMA WalletStep ==
    ASSUME Before, [Next]_vars
    PROVE  WalletInv'
<1>1. CASE popups' = popups /\ pool' = pool
  BY <1>1, WalletKept
<1>2. QED
  BY <1>1, Writers, RefundWallet, AllowanceWallet, ConfirmWallet, RejectWallet, MinedWallet

(***************************************************************************)
(* The notices and the dialog COMPLETED.                                   *)
(***************************************************************************)
LEMMA NoticesStep ==
    ASSUME Before, NoticesInv, [Next]_vars
    PROVE  NoticesInv' /\ notices' \subseteq [flow : DOMAIN flows', cid : Cids]
<1>1. /\ Grow /\ notices \subseteq [flow : DOMAIN flows, cid : Cids]
      /\ flows' \in Seq(FlowType) /\ DOMAIN flows \subseteq DOMAIN flows'
  BY ChainStep, FlowsStep, OtherTypes DEF Before
<1>2. ASSUME NEW n \in notices
      PROVE  /\ flows'[n.flow].stage \in {"finishing", "completed"} /\ flows'[n.flow].kind # "unlock"
             /\ flows'[n.flow].kind = "upload" => txCarMap'[n.cid]._isExisted
  <2>1. n.flow \in DOMAIN flows /\ n.cid \in Cids
    BY <1>1
  <2>2. /\ flows[n.flow].stage \in {"finishing", "completed"} /\ flows[n.flow].kind # "unlock"
        /\ flows[n.flow].kind = "upload" => txCarMap[n.cid]._isExisted
    BY DEF NoticesInv
  <2>3. /\ flows'[n.flow].kind = flows[n.flow].kind
        /\ \/ flows'[n.flow].stage = flows[n.flow].stage
           \/ <<flows[n.flow].stage, flows'[n.flow].stage>> \in Edges
    BY <2>1, FlowKept
  <2>4. flows'[n.flow].stage \in {"finishing", "completed"}
    BY <2>2, <2>3 DEF Edges, PlainEdges
  <2>5. QED
    BY <1>1, <2>1, <2>2, <2>3, <2>4 DEF Grow
<1>3. CASE notices' = notices
  <2>1. NoticesInv'
    BY <1>2, <1>3 DEF NoticesInv
  <2>2. notices' \subseteq [flow : DOMAIN flows', cid : Cids]
    BY <1>1, <1>3
  <2>3. QED
    BY <2>1, <2>2
<1>4. ASSUME NEW f \in DOMAIN flows, CheckTransaction(f)
      PROVE  NoticesInv' /\ notices' \subseteq [flow : DOMAIN flows', cid : Cids]
  <2> DEFINE new == [flow |-> f, cid |-> flows[f].said]
  <2>1. flows[f].stage = "checking" /\ notices' = IF flows[f].kind = "unlock" THEN notices ELSE notices \cup {new}
    BY <1>4 DEF CheckTransaction, At
  <2>2. CASE flows[f].kind = "unlock"
    BY <1>3, <2>1, <2>2
  <2>3. CASE flows[f].kind # "unlock"
    <3>1. /\ flows[f].said \in Cids
          /\ flows[f].kind = "upload" => flows[f].said = flows[f].cid /\ txCarMap[flows[f].cid]._isExisted
      BY <2>1 DEF Before, FlowsInv, FlowOK, FlowFits, MinedStages
    <3>2. new.flow = f /\ new.cid = flows[f].said /\ notices' = notices \cup {new}
      BY <2>1, <2>3
    <3>3. new \in [flow : DOMAIN flows', cid : Cids]
      BY <1>1, <3>1
    <3> HIDE DEF new
    <3>4. \A n \in notices : n.flow # f
      BY <2>1 DEF NoticesInv
    <3>5. flows'[f].stage = "finishing" /\ flows'[f].kind = flows[f].kind
      BY <1>4, FlowTypes, FlowKept DEF CheckTransaction, Move, Before, FlowType
    <3>6. flows'[f].kind = "upload" => txCarMap'[new.cid]._isExisted
      BY <1>1, <3>1, <3>2, <3>5 DEF Grow
    <3>7. NoticesInv'
      BY <1>2, <2>3, <3>2, <3>4, <3>5, <3>6 DEF NoticesInv
    <3>8. QED
      BY <1>1, <3>2, <3>3, <3>7
  <2>4. QED
    BY <2>2, <2>3
<1>5. QED
  BY <1>3, <1>4, Writers

Looks == [loading : BOOLEAN, uploading : BOOLEAN, overlay : BOOLEAN, finished : BOOLEAN,
          failed : BOOLEAN, tip : BOOLEAN]
LookNames == {"loading", "uploading", "overlay", "finished", "failed", "tip"}

\* The two ways of saying what the page's masks and dialogs are.
LEMMA LooksAre == Looks = [DOMAIN Lit -> BOOLEAN] /\ Lit \in Looks /\ ~Lit.finished
<1>1. DOMAIN Lit = LookNames /\ Lit \in Looks /\ ~Lit.finished
  BY DEF Lit, LookNames, Looks
<1>2. ASSUME NEW r \in Looks PROVE r \in [LookNames -> BOOLEAN]
  <2>1. r = [loading |-> r.loading, uploading |-> r.uploading, overlay |-> r.overlay,
             finished |-> r.finished, failed |-> r.failed, tip |-> r.tip]
    BY DEF Looks
  <2>2. DOMAIN r = LookNames /\ r = [x \in DOMAIN r |-> r[x]]
    BY <2>1 DEF LookNames
  <2>3. \A x \in LookNames : r[x] \in BOOLEAN
    BY <2>2 DEF Looks, LookNames
  <2>4. QED
    BY <2>2, <2>3
<1>3. ASSUME NEW r \in [LookNames -> BOOLEAN] PROVE r \in Looks
  <2> DEFINE q == [loading |-> r.loading, uploading |-> r.uploading, overlay |-> r.overlay,
                   finished |-> r.finished, failed |-> r.failed, tip |-> r.tip]
  <2>1. r = [x \in LookNames |-> r[x]]
    OBVIOUS
  <2>2. DOMAIN q = LookNames /\ q = [x \in DOMAIN q |-> q[x]] /\ \A x \in LookNames : q[x] = r[x]
    BY DEF LookNames
  <2>3. q = r
    BY <2>1, <2>2
  <2>4. q \in Looks
    BY DEF LookNames, Looks
  <2>5. QED
    BY <2>3, <2>4
<1>4. QED
  BY <1>1, <1>2, <1>3

\* COMPLETED appears when the page's own flow finishes, and goes with the page.
LEMMA UiStep ==
    ASSUME TypeOK, [Next]_vars
    PROVE  /\ ui' \in Looks
           /\ ui'.finished => (ui.finished /\ ~OpenMyFiles) \/ \E f \in DOMAIN flows : Finish(f) /\ flows[f].live
<1>1. ui \in Looks
  BY OtherTypes, LooksAre
<1>2. \A f \in DOMAIN flows : flows[f].live \in BOOLEAN
  BY FlowTypes, FlowFields
<1>3. CASE OpenMyFiles
  BY <1>3, LooksAre DEF OpenMyFiles
<1>4. CASE ~OpenMyFiles /\ ui' = ui
  BY <1>1, <1>4
<1>5. CASE ~OpenMyFiles /\ (StorageAnswers \/ StatsAnswer \/ TableLoaded \/ SearchValue \/ CloseFinish \/ CloseTips)
  BY <1>1, <1>5 DEF StorageAnswers, StatsAnswer, TableLoaded, SearchValue, CloseFinish, CloseTips, Looks
<1>6. CASE ~OpenMyFiles /\ \E f \in DOMAIN flows : UploadBalance(f) \/ UploadAnswers(f) \/ UploadFails(f)
  BY <1>1, <1>6 DEF UploadBalance, UploadAnswers, UploadFails, Shown, Looks
<1>7. CASE ~OpenMyFiles /\ \E f \in DOMAIN flows : InfoPaid(f) \/ InfoFails(f)
  BY <1>1, <1>7 DEF InfoPaid, InfoFails, Looks
<1>8. CASE ~OpenMyFiles /\ ((\E plan \in Plans : PayStartClick(plan)) \/ (\E c \in Cids : RefundClick(c)))
  BY <1>1, <1>8 DEF PayStartClick, RefundClick, Looks
<1>9. ASSUME NEW p \in popups, ConfirmPopup(p), ~OpenMyFiles
       PROVE  ui' \in Looks /\ ui'.finished = ui.finished
  BY <1>1, <1>9 DEF ConfirmPopup, Shown, Looks
<1>10. ASSUME NEW f, ShowError(f), ~OpenMyFiles
       PROVE  ui' \in Looks /\ ui'.finished = ui.finished
  <2>1. (ui.overlay /\ flows[f].kind = "unlock") \in BOOLEAN
    OBVIOUS
  <2>2. QED
    BY <1>1, <1>10, <2>1 DEF ShowError, Shown, Looks
<1>11. CASE ~OpenMyFiles /\ ((\E f \in DOMAIN flows : ErrorEvent(f)) \/ (\E p \in popups : RejectPopup(p)))
  <2>1. ui' = ui \/ \E f : ShowError(f)
    BY <1>11 DEF ErrorEvent, RejectPopup
  <2>2. QED
    BY <1>4, <1>10, <1>11, <2>1
<1>12. ASSUME NEW f \in DOMAIN flows, Finish(f), ~OpenMyFiles
       PROVE  /\ ui' \in Looks
              /\ flows[f].live \/ ui'.finished = ui.finished
  BY <1>1, <1>2, <1>12 DEF Finish, Shown, Looks
<1>13. QED
  BY <1>3, <1>4, <1>5, <1>6, <1>7, <1>8, <1>9, <1>10, <1>11, <1>12, Writers

LEMMA CompletedStep ==
    ASSUME Before, CompletedWasMined, [Next]_vars
    PROVE  CompletedWasMined'
<1>1. SUFFICES ASSUME ui'.finished
               PROVE  \E f \in DOMAIN flows' : flows'[f].live /\ flows'[f].stage = "completed"
  BY DEF CompletedWasMined
<1>2. TypeOK
  BY DEF Before
<1>3. CASE ui.finished /\ ~OpenMyFiles
  <2>1. PICK f \in DOMAIN flows : flows[f].live /\ flows[f].stage = "completed"
    BY <1>3 DEF CompletedWasMined
  <2>2. f \in DOMAIN flows' /\ flows'[f].stage = "completed"
    BY <2>1, FlowKept DEF Edges, PlainEdges
  <2>3. flows'[f].live
    BY <1>2, <1>3, <2>1, FlowSteps, MovedFlow, BegunFlow DEF FlowMoves
  <2>4. QED
    BY <2>2, <2>3
<1>4. ASSUME NEW f \in DOMAIN flows, Finish(f), flows[f].live
      PROVE  \E g \in DOMAIN flows' : flows'[g].live /\ flows'[g].stage = "completed"
  <2>1. flows' = [flows EXCEPT ![f].stage = "completed"]
    BY <1>4 DEF Finish, Move
  <2>2. f \in DOMAIN flows' /\ flows'[f].live /\ flows'[f].stage = "completed"
    BY <1>2, <1>4, <2>1, FlowTypes DEF FlowType
  <2>3. QED
    BY <2>2
<1>5. QED
  BY <1>1, <1>2, <1>3, <1>4, UiStep

(***************************************************************************)
(* The types.                                                              *)
(***************************************************************************)
LEMMA DataTypeStep ==
    ASSUME Before, [Next]_vars
    PROVE  /\ recorded' \subseteq Cids /\ pending' \subseteq Cids /\ page' \in PageNames /\ start' \in StartType
           /\ loads' \in Nat /\ searches' \in 0 .. MaxSearches /\ faults' \in 0 .. MaxFaults
<1>1. TypeOK /\ MaxSearches \in Nat /\ MaxFaults \in Nat
  BY ConstantsAssumption DEF Before
<1>2. recorded' \subseteq Cids
  <2>1. ASSUME NEW n \in notices, NoticeArrives(n) PROVE recorded' \subseteq Cids
    BY <1>1, <2>1, OtherTypes DEF NoticeArrives
  <2>2. QED
    BY <1>1, <2>1, OtherTypes, Writers
<1>3. pending' \subseteq Cids
  BY <1>1, OtherTypes, Writers DEF TableLoaded
<1>4. page' \in PageNames
  BY <1>1, OtherTypes, Writers DEF OpenMyFiles
<1>5. start' \in StartType
  <2>1. start \in StartType
    BY <1>1, OtherTypes
  <2>2. CASE start' = start \/ CommonParam \/ CommonParamFails \/ StorageAnswers
    BY <2>1, <2>2 DEF CommonParam, CommonParamFails, StorageAnswers, StartType
  <2>3. CASE PriceAnswers \/ StatsAnswer \/ StatsFail
    BY <2>1, <2>3 DEF PriceAnswers, StatsAnswer, StatsFail, StartType
  <2>4. CASE OpenMyFiles
    BY <2>1, <2>4 DEF OpenMyFiles, Opened, StartType
  <2>5. QED
    BY <2>2, <2>3, <2>4, Writers
<1>6. loads' \in {loads, loads + 1} \/ (loads > 0 /\ loads' = loads - 1)
  BY Writers DEF StatsAnswer, TableLoaded, SearchValue, InfoPaid, CloseFinish, GetData
<1>7. searches' = searches \/ (searches < MaxSearches /\ searches' = searches + 1)
  BY Writers DEF SearchValue
<1>8. faults' = faults \/ (faults < MaxFaults /\ faults' = faults + 1)
  BY Writers DEF CommonParamFails, StatsFail, UploadFails, InfoFails, CallFails, NoticeLost, Fault
<1>9. loads' \in Nat /\ searches' \in 0 .. MaxSearches /\ faults' \in 0 .. MaxFaults
  BY <1>1, <1>6, <1>7, <1>8, OtherTypes
<1>10. QED
  BY <1>2, <1>3, <1>4, <1>5, <1>9

FormType == [file : Cids \cup {None}, body : Cids \cup {None}, plan : 0 .. 3,
             amount : Nat, price : Nat \cup {NotCalculated}]
RowType == [cid : Cids \cup {None}, price : Nat \cup {NotCalculated}, dialog : BOOLEAN]

LEMMA FormWith ==
    ASSUME NEW A, NEW B, NEW c \in A, NEW b \in B, NEW amount \in Nat, NEW plan \in 0 .. 3,
           NEW r \in [file : A, body : A, plan : 0 .. 3, amount : Nat, price : B]
    PROVE  /\ [r EXCEPT !.file = c, !.body = c, !.plan = plan, !.price = b] \in
                 [file : A, body : A, plan : 0 .. 3, amount : Nat, price : B]
           /\ [r EXCEPT !.file = c, !.plan = plan] \in [file : A, body : A, plan : 0 .. 3, amount : Nat, price : B]
           /\ [r EXCEPT !.plan = plan, !.amount = amount] \in
                 [file : A, body : A, plan : 0 .. 3, amount : Nat, price : B]
<1>1. [r EXCEPT !.file = c, !.body = c, !.plan = plan, !.price = b] \in
         [file : A, body : A, plan : 0 .. 3, amount : Nat, price : B]
  OBVIOUS
<1>2. [r EXCEPT !.file = c, !.plan = plan] \in [file : A, body : A, plan : 0 .. 3, amount : Nat, price : B]
  OBVIOUS
<1>3. [r EXCEPT !.plan = plan, !.amount = amount] \in
         [file : A, body : A, plan : 0 .. 3, amount : Nat, price : B]
  OBVIOUS
<1>4. QED
  BY <1>1, <1>2, <1>3

LEMMA RowWith == \A r \in RowType : [r EXCEPT !.dialog = FALSE] \in RowType
BY DEF RowType

LEMMA FormTypeStep ==
    ASSUME Before, [Next]_vars
    PROVE  form' \in FormType /\ row' \in RowType
<1>1. form \in FormType /\ row \in RowType /\ EmptyForm \in FormType /\ EmptyRow \in RowType
  BY OtherTypes DEF Before, FormType, RowType, EmptyForm, EmptyRow
<1>2. \A c \in Cids : PriceOf(c) \in Nat
  BY ConstantsAssumption DEF PriceOf
<1>3. CASE OpenMyFiles
  BY <1>1, <1>3 DEF OpenMyFiles
<1>4. ASSUME NEW c \in Cids, ChooseFile(c) PROVE form' \in FormType
  <2>1. form' = [form EXCEPT !.file = c, !.body = c, !.plan = 0, !.price = PriceOf(c)]
    BY <1>4 DEF ChooseFile
  <2>2. PriceOf(c) \in Nat \cup {NotCalculated} /\ c \in Cids \cup {None} /\ 0 \in 0 .. 3 /\ 0 \in Nat
    BY <1>2
  <2>3. QED
    BY <1>1, <2>1, <2>2, FormWith, Zenon DEF FormType
<1>5. ASSUME HandleRemove PROVE form' \in FormType
  <2>1. form' = [form EXCEPT !.file = None, !.plan = 0]
    BY <1>5 DEF HandleRemove
  <2>2. None \in Cids \cup {None} /\ 0 \in 0 .. 3 /\ 0 \in Nat /\ 0 \in Nat \cup {NotCalculated}
    OBVIOUS
  <2>3. QED
    BY <1>1, <2>1, <2>2, FormWith, Zenon DEF FormType
<1>6. ASSUME NEW plan \in Plans, AgreeChange(plan) PROVE form' \in FormType
  <2> DEFINE amount == PlanPrice(form.price, plan)
  <2>1. form' = [form EXCEPT !.plan = plan, !.amount = amount]
    BY <1>6 DEF AgreeChange
  <2>2. plan \in 1 .. 3 /\ form.price \in Nat \cup {NotCalculated}
    BY <1>1, ConstantsAssumption DEF FormType
  <2>3. amount \in Nat
    BY <2>2, PriceNat
  <2> HIDE DEF amount
  <2>4. QED
    <3>1. plan \in 0 .. 3 /\ None \in Cids \cup {None} /\ NotCalculated \in Nat \cup {NotCalculated}
      BY <2>2
    <3>2. QED
      BY <1>1, <2>1, <2>3, <3>1, FormWith, Zenon DEF FormType
<1>7. ASSUME NEW c \in Cids, PayClick(c) PROVE row' \in RowType
  BY <1>2, <1>7 DEF PayClick, RowType
<1>8. ASSUME (\E plan \in Plans : PayStartClick(plan)) \/ CloseDia PROVE row' \in RowType
  <2>1. row' = [row EXCEPT !.dialog = FALSE]
    BY <1>8 DEF PayStartClick, CloseDia
  <2>2. QED
    BY <1>1, <2>1, RowWith, Zenon
<1>9. form' \in FormType
  BY <1>1, <1>3, <1>4, <1>5, <1>6, Writers
<1>10. row' \in RowType
  BY <1>1, <1>3, <1>7, <1>8, Writers
<1>11. QED
  BY <1>9, <1>10

LEMMA WalletTypeStep ==
    ASSUME Before, [Next]_vars
    PROVE  popups' \subseteq (DOMAIN flows') \X Acts /\ pool' \in Seq((DOMAIN flows') \X Acts)
<1>1. /\ popups \subseteq (DOMAIN flows) \X Acts /\ pool \in Seq((DOMAIN flows) \X Acts)
      /\ DOMAIN flows \subseteq DOMAIN flows'
  BY WalletTypes, FlowsStep DEF Before
<1>2. ASSUME NEW c \in Cids, RefundClick(c) PROVE popups' \subseteq (DOMAIN flows') \X Acts
  <2>1. Len(flows) + 1 \in DOMAIN flows'
    BY <1>2, Begins, BegunFlow DEF Before
  <2>2. QED
    BY <1>1, <1>2, <2>1 DEF RefundClick, Acts
<1>3. ASSUME NEW f \in DOMAIN flows, AllowanceAnswers(f) PROVE popups' \subseteq (DOMAIN flows') \X Acts
  BY <1>1, <1>3 DEF AllowanceAnswers, Acts
<1>4. ASSUME NEW p \in popups, ConfirmPopup(p) \/ RejectPopup(p)
      PROVE  popups' \subseteq (DOMAIN flows') \X Acts
  BY <1>1, <1>4 DEF ConfirmPopup, RejectPopup
<1>5. popups' \subseteq (DOMAIN flows') \X Acts
  <2>1. CASE popups' = popups
    BY <1>1, <2>1
  <2>2. QED
    BY <1>2, <1>3, <1>4, <2>1, Writers
<1> DEFINE S == (DOMAIN flows') \X Acts
<1>6. (DOMAIN flows) \X Acts \subseteq S
  BY <1>1
<1> HIDE DEF S
<1>7. pool \in Seq(S)
  BY <1>1, <1>6
<1>8. pool' \in Seq(S)
  <2>1. CASE MineNext \/ RevertNext
    BY <1>7, <2>1 DEF MineNext, RevertNext
  <2>2. ASSUME NEW p \in popups, ConfirmPopup(p) PROVE pool' \in Seq(S)
    BY <1>1, <1>6, <1>7, <2>2 DEF ConfirmPopup
  <2>3. QED
    BY <1>7, <2>1, <2>2, Writers
<1>9. QED
  BY <1>5, <1>8 DEF S

LEMMA TypeStep ==
    ASSUME Before, NoticesInv, [Next]_vars
    PROVE  TypeOK'
<1>1. Chain!TypeOK' /\ uploaded' \subseteq Cids
  BY ChainStep, UploadedStep DEF Before
<1>2. /\ recorded' \subseteq Cids /\ pending' \subseteq Cids /\ page' \in PageNames /\ start' \in StartType
      /\ loads' \in Nat /\ searches' \in 0 .. MaxSearches /\ faults' \in 0 .. MaxFaults
  BY DataTypeStep
<1>3. ui' \in [DOMAIN Lit -> BOOLEAN]
  BY UiStep, LooksAre DEF Before
<1>4. /\ form' \in [file : Cids \cup {None}, body : Cids \cup {None}, plan : 0 .. 3,
                    amount : Nat, price : Nat \cup {NotCalculated}]
      /\ row' \in [cid : Cids \cup {None}, price : Nat \cup {NotCalculated}, dialog : BOOLEAN]
  BY FormTypeStep DEF FormType, RowType
<1>5. flows' \in Seq([kind : Kinds, live : BOOLEAN, cid : Cids \cup {None}, amount : Nat,
                      min : Nat, said : Cids \cup {None}, stage : Stages])
  BY FlowsStep, Zenon DEF FlowType
<1>6. /\ popups' \subseteq (DOMAIN flows') \X {"approve", "lock", "unlock"}
      /\ pool' \in Seq((DOMAIN flows') \X {"approve", "lock", "unlock"})
  BY WalletTypeStep, Zenon DEF Acts
<1>7. notices' \subseteq [flow : DOMAIN flows', cid : Cids]
  BY NoticesStep
<1>8. arrived' \subseteq notices'
  <2>1. arrived \subseteq notices
    BY OtherTypes DEF Before
  <2>2. notices \subseteq notices'
    BY Writers DEF CheckTransaction
  <2>3. arrived' = arrived \/ \E n \in notices : arrived' = arrived \cup {n}
    BY Writers DEF NoticeArrives, NoticeLost
  <2>4. QED
    BY <2>1, <2>2, <2>3
<1>9. QED
  BY <1>1, <1>2, <1>3, <1>4, <1>5, <1>6, <1>7, <1>8, Zenon DEF TypeOK, StartType

(***************************************************************************)
(* The invariant.                                                          *)
(***************************************************************************)
LEMMA ChainStart ==
    ASSUME Chain!Init
    PROVE  Chain!TypeOK /\ \A c \in Cids : ~txMap[c]._isExisted /\ ~txCarMap[c]._isExisted
<1>1. Chain!NoTx \in Chain!TxInfo /\ ~Chain!NoTx._isExisted
  BY DEF Chain!NoTx, Chain!TxInfo
<1>2. txMap = [c \in Cids |-> Chain!NoTx] /\ txCarMap = [c \in Cids |-> Chain!NoTx]
  BY DEF Chain!Init
<1>3. txMap \in [Cids -> Chain!TxInfo] /\ txCarMap \in [Cids -> Chain!TxInfo]
  BY <1>1, <1>2
<1>4. balance \in [Chain!Accounts -> Nat] /\ allowance \in [{User} -> Nat] /\ timestamp = 0 /\ dust = 0
  BY ConstantsAssumption DEF Chain!Init
<1>5. timestamp \in Nat /\ dust \in Nat
  BY <1>4
<1>6. QED
  BY <1>1, <1>2, <1>3, <1>4, <1>5 DEF Chain!TypeOK

LEMMA InitHolds ==
    ASSUME Init
    PROVE  IInv
<1>1. Chain!TypeOK /\ \A c \in Cids : ~txMap[c]._isExisted /\ ~txCarMap[c]._isExisted
  BY ChainStart DEF Init
<1>2. /\ recorded = {} /\ page \in PageNames /\ uploaded \subseteq Cids /\ ui = Lit /\ form = EmptyForm
      /\ row = EmptyRow /\ pending = {} /\ start \in StartType /\ loads \in Nat /\ searches = 0
      /\ flows = <<>> /\ popups = {} /\ pool = <<>> /\ notices = {} /\ arrived = {} /\ faults = 0
  BY DEF Init, Opened, StartType
<1>3. EmptyForm \in FormType /\ ~(EmptyForm.file # None)
  BY DEF EmptyForm, FormType
<1>4. EmptyRow \in RowType /\ ~EmptyRow.dialog
  BY DEF EmptyRow, RowType
<1>5. DOMAIN flows = {} /\ DOMAIN pool = {} /\ Len(flows) = 0
  BY <1>2
<1>6. 0 \in 0 .. MaxSearches /\ 0 \in 0 .. MaxFaults /\ 0 <= MaxFlows
  BY ConstantsAssumption
<1>7. flows \in Seq(FlowType) /\ pool \in Seq((DOMAIN flows) \X Acts)
  BY <1>2
<1>8. TypeOK
  BY <1>1, <1>2, <1>3, <1>4, <1>6, <1>7, LooksAre DEF TypeOK, StartType, FormType, RowType, FlowType, Acts
<1>9. FlowsInv /\ ChainInv
  BY <1>1, <1>5, <1>6 DEF FlowsInv, ChainInv
<1>10. PageInv /\ FormInv
  BY <1>2, <1>3, <1>4, <1>5 DEF PageInv, FormInv
<1>11. WalletInv /\ NoticesInv /\ CompletedWasMined
  BY <1>2, <1>5, LooksAre DEF WalletInv, NoticesInv, CompletedWasMined
<1>12. QED
  BY <1>8, <1>9, <1>10, <1>11 DEF IInv

LEMMA Step ==
    ASSUME IInv, [Next]_vars
    PROVE  IInv'
<1>1. Before /\ NoticesInv /\ CompletedWasMined
  BY DEF IInv, Before
<1>2. TypeOK'
  BY <1>1, TypeStep
<1>3. FlowsInv' /\ ChainInv'
  BY <1>1, FlowsStep, ChainStep DEF Before
<1>4. PageInv' /\ FormInv' /\ WalletInv'
  BY <1>1, PageStep, FormStep, WalletStep
<1>5. NoticesInv' /\ CompletedWasMined'
  BY <1>1, NoticesStep, CompletedStep
<1>6. QED
  BY <1>2, <1>3, <1>4, <1>5 DEF IInv

\* What a flow carries along fits how far it got, and what its callbacks still read from
\* the page is there.
THEOREM Invariant == Spec => []IInv
BY InitHolds, Step, PTL DEF Spec

\* Whatever the user clicks while callbacks run, only uploaded files are locked, from My
\* Files for a price that the dialog showed of that file, and REFUND gets none of it back.
THEOREM PaymentsFit == Spec => []PaymentInv
<1>1. ASSUME IInv PROVE LockedIsUploaded
  BY <1>1 DEF IInv, ChainInv, LockedIsUploaded, Locked
<1>2. ASSUME IInv PROVE FilesAmountIsShown
  BY <1>2 DEF IInv, FlowsInv, FlowOK, FlowFits, FilesAmountIsShown, ShownAmounts
<1>3. ASSUME IInv PROVE RefundClickReverts
  BY <1>3 DEF IInv, FlowsInv, FlowOK, FlowFits, RefundClickReverts, MinedStages
<1>4. IInv => PaymentInv
  BY <1>1, <1>2, <1>3 DEF IInv, PaymentInv
<1>5. QED
  BY <1>4, Invariant, PTL

\* What the upload page tells the backend to be paid is locked in the contract.
THEOREM UploadNotices == Spec => []UploadNoticeNamesLock
<1>1. ASSUME IInv PROVE UploadNoticeNamesLock
  BY <1>1, OtherTypes DEF IInv, NoticesInv, UploadNoticeNamesLock, Locked
<1>2. QED
  BY <1>1, Invariant, PTL

\* The dialog COMPLETED appears only after a transaction of this page was mined.
THEOREM Completed == Spec => []CompletedWasMined
<1>1. IInv => CompletedWasMined
  BY DEF IInv
<1>2. QED
  BY <1>1, Invariant, PTL

(***************************************************************************)
(* The pages implement PaymentNotices.                                     *)
(***************************************************************************)
LEMMA MinedBy ==
    ASSUME Before, [Next]_vars, NEW f \in DOMAIN flows, flows[f].stage = "sent", flows'[f].stage = "mined"
    PROVE  MineNext
<1>1. Decides(f)
  BY SentKept
<1>2. ASSUME NEW s, Move(f, s) PROVE flows'[f].stage = s
  BY <1>2, FlowTypes DEF Move, Before, FlowType
<1>3. ~RevertNext \/ Head(pool)[1] # f
  BY <1>2 DEF RevertNext
<1>4. ~\E p \in popups : RejectPopup(p) /\ p[1] = f /\ p[2] # "approve"
  BY <1>2 DEF RejectPopup
<1>5. QED
  BY <1>1, <1>3, <1>4 DEF Decides

\* Flows count as mined from the step on that mines their transaction.
LEMMA MinedSame ==
    ASSUME Before, [Next]_vars, ~MineNext
    PROVE  MinedFlows' = MinedFlows
<1>1. ASSUME NEW f \in DOMAIN flows
      PROVE  /\ f \in DOMAIN flows' /\ flows'[f].kind = flows[f].kind
             /\ flows'[f].stage \in MinedStages <=> flows[f].stage \in MinedStages
  <2>1. /\ f \in DOMAIN flows' /\ flows'[f].kind = flows[f].kind
        /\ flows'[f].stage = flows[f].stage \/ <<flows[f].stage, flows'[f].stage>> \in Edges
    BY FlowKept
  <2>2. ~(flows[f].stage = "sent" /\ flows'[f].stage = "mined")
    BY MinedBy
  <2>3. QED
    BY <2>1, <2>2 DEF Edges, PlainEdges, MinedStages
<1>2. ASSUME NEW f \in DOMAIN flows', f \notin DOMAIN flows
      PROVE  flows'[f].stage \notin MinedStages
  <2>1. TypeOK
    BY DEF Before
  <2>2. PICK r : FlowBegins(r)
    BY <1>2, <2>1, FlowSteps, MovedFlow, LeftFlows
  <2>3. flows'[f] = r
    BY <1>2, <2>1, <2>2, BegunFlow
  <2>4. QED
    BY <2>2, <2>3 DEF FlowBegins, MinedStages
<1>3. QED
  BY <1>1, <1>2 DEF MinedFlows, PaymentFlows

LEMMA PromiseMines ==
    ASSUME IInv, MineNext
    PROVE  Promise!Next \/ UNCHANGED Promise!vars
<1> DEFINE f == Head(pool)[1]
<1>1. notices' = notices /\ arrived' = arrived
  BY DEF MineNext
<1>2. CASE flows' = flows
  BY <1>1, <1>2 DEF Promise!vars, MinedFlows, PaymentFlows, FlowsOf
<1>3. CASE Move(f, "mined") /\ f \in DOMAIN flows /\ flows[f].stage = "sent" /\ flows[f].kind # "unlock"
  <2> HIDE DEF f
  <2>1. /\ DOMAIN flows' = DOMAIN flows /\ flows'[f].stage = "mined" /\ flows'[f].kind = flows[f].kind
        /\ \A g \in DOMAIN flows : g # f => flows'[g] = flows[g]
    BY <1>3, FlowTypes DEF Move, IInv, FlowType
  <2>2. MinedFlows' = MinedFlows \cup {f} /\ f \notin MinedFlows
    BY <1>3, <2>1 DEF MinedFlows, PaymentFlows, MinedStages
  <2>3. f \in 1 .. MaxFlows
    BY <1>3, FlowTypes, ConstantsAssumption DEF IInv, FlowsInv
  <2>4. Promise!Mine(f)
    BY <1>1, <2>2 DEF Promise!Mine, FlowsOf
  <2>5. QED
    BY <2>3, <2>4 DEF Promise!Next
<1>4. QED
  BY <1>2, <1>3, Mined DEF IInv

LEMMA PromiseTells ==
    ASSUME IInv, [Next]_vars, NEW f \in DOMAIN flows, CheckTransaction(f)
    PROVE  Promise!Next \/ UNCHANGED Promise!vars
<1>1. /\ flows[f].stage = "checking" /\ arrived' = arrived /\ pool' = pool
      /\ notices' = IF flows[f].kind = "unlock" THEN notices
                    ELSE notices \cup {[flow |-> f, cid |-> flows[f].said]}
  BY DEF CheckTransaction, wallet, At
<1>2. Before /\ NoticesInv
  BY DEF IInv, Before
<1>3. MinedFlows' = MinedFlows
  <2>1. pool # <<>> => Tail(pool) # pool
    <3>1. pool # <<>> => Len(Tail(pool)) = Len(pool) - 1 /\ Len(pool) \in Nat
      BY <1>2, WalletTypes DEF Before
    <3>2. QED
      BY <3>1
  <2>2. ~MineNext
    BY <1>1, <2>1 DEF MineNext
  <2>3. QED
    BY <1>2, <2>2, MinedSame
<1>4. CASE flows[f].kind = "unlock"
  BY <1>1, <1>3, <1>4 DEF Promise!vars, FlowsOf
<1>5. CASE flows[f].kind # "unlock"
  <2>1. FlowsOf(notices') = FlowsOf(notices) \cup {f}
    <3> DEFINE new == [flow |-> f, cid |-> flows[f].said]
    <3>1. new.flow = f /\ notices' = notices \cup {new}
      BY <1>1, <1>5
    <3> HIDE DEF new
    <3>2. QED
      BY <3>1 DEF FlowsOf
  <2>2. f \notin FlowsOf(notices)
    BY <1>1, <1>2 DEF NoticesInv, FlowsOf
  <2>3. f \in MinedFlows
    BY <1>1, <1>5 DEF MinedFlows, PaymentFlows, MinedStages
  <2>4. f \in 1 .. MaxFlows
    BY <1>2, FlowTypes, ConstantsAssumption DEF Before, FlowsInv
  <2>5. Promise!Tell(f)
    BY <1>1, <1>3, <2>1, <2>2, <2>3 DEF Promise!Tell, FlowsOf
  <2>6. QED
    BY <2>4, <2>5 DEF Promise!Next
<1>6. QED
  BY <1>4, <1>5

LEMMA PromiseSettles ==
    ASSUME IInv, NEW n \in notices, NoticeArrives(n) \/ NoticeLost(n)
    PROVE  Promise!Next \/ UNCHANGED Promise!vars
<1>1. /\ n \notin arrived /\ arrived' = arrived \cup {n} /\ notices' = notices /\ flows' = flows
  BY DEF NoticeArrives, NoticeLost
<1>2. TypeOK /\ NoticesInv /\ FlowsInv
  BY DEF IInv
<1>3. n.flow \in FlowsOf(notices) /\ FlowsOf(arrived') = FlowsOf(arrived) \cup {n.flow}
  BY <1>1 DEF FlowsOf
<1>4. n.flow \notin FlowsOf(arrived)
  BY <1>1, <1>2, OtherTypes DEF NoticesInv, FlowsOf
<1>5. n.flow \in 1 .. MaxFlows
  BY <1>2, FlowTypes, OtherTypes, ConstantsAssumption DEF FlowsInv
<1>6. Promise!Settle(n.flow)
  BY <1>1, <1>3, <1>4 DEF Promise!Settle, MinedFlows, PaymentFlows, FlowsOf
<1>7. QED
  BY <1>5, <1>6 DEF Promise!Next

\* A step of the pages is one of PaymentNotices: what is mined, told and settled only
\* changes in the three steps above.
LEMMA PromiseStep ==
    ASSUME IInv, [Next]_vars
    PROVE  [Promise!Next]_(Promise!vars)
<1>1. CASE MineNext
  BY <1>1, PromiseMines
<1>2. CASE ~MineNext /\ notices' = notices /\ arrived' = arrived
  <2>1. MinedFlows' = MinedFlows
    BY <1>2, MinedSame DEF IInv, Before
  <2>2. QED
    BY <1>2, <2>1 DEF Promise!vars, FlowsOf
<1>3. QED
  BY <1>1, <1>2, PromiseTells, PromiseSettles, Writers

LEMMA PromiseStart == Init => Promise!Init
<1>1. Init => MinedFlows = {} /\ FlowsOf(notices) = {} /\ FlowsOf(arrived) = {}
  BY DEF Init, MinedFlows, PaymentFlows, FlowsOf
<1>2. QED
  BY <1>1 DEF Promise!Init

\* The backend is told of a payment after it was mined, once, and deals with it once, however
\* pages are left, popups answered and calls lost meanwhile.
THEOREM TellsMined == Spec => TellsWhatWasMined
<1>1. Spec => Promise!Spec
  BY PromiseStart, PromiseStep, Invariant, PTL DEF Spec, Promise!Spec
<1>2. QED
  BY <1>1 DEF TellsWhatWasMined

(***************************************************************************)
(* The pages run the contract: what SwanPayment says of itself holds of    *)
(* the payments they make.                                                 *)
(***************************************************************************)
Contract == INSTANCE SwanPayment WITH
    Users <- {User}, Amounts <- Nat, MinPayments <- Nat, LockTimes <- {0}, Sizes <- {1},
    TokenAmounts <- {}, MaxRepeat <- 0, LoopLimit <- 0, MaxTime <- 1

LEMMA ContractStart == Init => Contract!Init
BY DEF Init, Chain!Init, Contract!Init, Chain!NoTx, Contract!NoTx, Chain!Accounts, Contract!Accounts

LEMMA ContractApproves ==
    ASSUME NEW amount \in Nat, Chain!Approve(User, amount)
    PROVE  Contract!Next
<1>1. Contract!Approve(User, amount)
  BY DEF Chain!Approve, Contract!Approve
<1>2. QED
  BY <1>1 DEF Contract!Next

LEMMA ContractLocks ==
    ASSUME NEW c \in Cids, NEW amount \in Nat, NEW min \in Nat,
           Chain!LockTokenPayment(User, c, amount, min, 0, 1)
    PROVE  Contract!Next
<1>1. Contract!LockTokenPayment(User, c, amount, min, 0, 1)
  BY DEF Chain!LockTokenPayment, Contract!LockTokenPayment, Chain!TransferFrom, Contract!TransferFrom
<1>2. User \in {User} /\ 0 \in {0} /\ 1 \in {1}
  OBVIOUS
<1>3. QED
  BY <1>1, <1>2, Zenon DEF Contract!Next

\* A transaction of the pool is one of the contract, of a known file and with natural amounts.
LEMMA ContractMines ==
    ASSUME TypeOK, FlowsInv, ChainInv, WalletInv, MineNext
    PROVE  Contract!Next
<1> DEFINE f == Head(pool)[1]
           act == Head(pool)[2]
<1>1. pool # <<>> /\ Execute(f, act)
  BY DEF MineNext
<1>2. f \in DOMAIN flows
  BY <1>1, HeadOf
<1> HIDE DEF f, act
<1>3. flows[f].amount \in Nat /\ flows[f].min \in Nat
  BY <1>2, FlowTypes, FlowFields
<1>4. CASE act = "approve"
  <2>1. Chain!Approve(User, flows[f].amount)
    BY <1>1, <1>4 DEF Execute
  <2>2. QED
    BY <1>3, <2>1, ContractApproves
<1>5. CASE act = "lock"
  <2>1. Chain!LockTokenPayment(User, flows[f].cid, flows[f].amount, flows[f].min, 0, 1)
    BY <1>1, <1>5 DEF Execute
  <2>2. flows[f].cid \in Cids
    BY <1>5, Mined DEF f, act
  <2>3. QED
    BY <1>3, <2>1, <2>2, ContractLocks
<1>6. QED
  BY <1>4, <1>5, Mined DEF f, act

LEMMA ContractStep ==
    ASSUME IInv, [Next]_vars
    PROVE  [Contract!Next]_(Contract!vars)
<1>1. CASE chain' = chain
  BY <1>1 DEF chain, Contract!vars
<1>2. CASE MineNext
  BY <1>2, ContractMines DEF IInv
<1>3. CASE Expire
  <2>1. Contract!Tick
    BY <1>3 DEF Expire, Chain!Tick, Contract!Tick
  <2>2. QED
    BY <2>1 DEF Contract!Next
<1>4. QED
  BY <1>1, <1>2, <1>3, Writers

\* Whatever is clicked, answered or lost, the payments of the pages change by the contract's
\* own transactions, with arguments the contract's theorems speak of: a known content id and
\* natural amounts (uploadFiles.vue and dashboard/index.vue, contractSend).
THEOREM ContractRuns == Spec => Contract!Spec
BY ContractStart, ContractStep, Invariant, PTL DEF Spec, Contract!Spec
=============================================================================
