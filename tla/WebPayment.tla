----------------------------- MODULE WebPayment -----------------------------
(***************************************************************************)
(* Paying for a file in the web front end, composed with the contract that *)
(* the payment is locked in (SwanPayment) and the backend's record of it.  *)
(*                                                                         *)
(*   upload page (uploadFiles.vue)      choose a file and a plan, Submit:  *)
(*       balanceOf -> ipfs/upload -> allowance -> approve, lock -> receipt *)
(*   My Files (dashboard, payTip.vue)   PAY on a pending row, Submit:      *)
(*       lockpayment/info -> balanceOf -> allowance -> approve, lock -> .. *)
(*   My Files, REFUND on a row          unlock -> receipt                  *)
(*                                                                         *)
(* Each Submit starts a chain of callbacks, a "flow".  Callbacks outlive   *)
(* the page they belong to.  What a callback reads from the page (the      *)
(* form, payRow) it reads when it runs: fields of a flow are only what the *)
(* code passes along.  MetaMask shows the transactions a flow sends as     *)
(* popups; the user answers them in any order, or not at all.              *)
(*                                                                         *)
(* Amounts count units of 0.5e-9 USDC; time counts lock times: what is     *)
(* locked at 0 is past its deadline at 1.  The user is signed in on Mumbai. *)
(***************************************************************************)
EXTENDS Integers, Sequences, FiniteSets, SequencesExt

CONSTANTS
    Cids,       \* files, by payload cid
    Cost,       \* the price of storing each file, in units
    Plans,      \* the lock plans the user chooses from: 1 low, 2 average, 3 high
    User, Mcs, This, Nobody,
    Funds,      \* the user's tokens
    None,
    PageNames,  \* the pages the user visits
    MaxFlows,   \* bound: Submit clicks
    MaxSearches, \* bound: searches in the table of My Files
    MaxFaults   \* bound: calls that fail

ASSUME ConstantsAssumption ==
    /\ Cost \in [Cids -> Nat \ {0}] /\ Plans \subseteq 1 .. 3
    /\ Funds \in Nat /\ MaxFlows \in Nat /\ MaxSearches \in Nat /\ MaxFaults \in Nat
    /\ User # Mcs /\ User # This /\ Mcs # This /\ Nobody # User
    /\ None \notin Cids /\ PageNames \subseteq {"upload", "files"} /\ PageNames # {}

VARIABLES
    txMap, txCarMap, balance, allowance, timestamp, dust,  \* the contract
    uploaded,   \* cids with a source file row in the backend
    recorded,   \* cids with an event_lock_payment row
    page,       \* the page shown
    ui,         \* its masks and dialogs
    form,       \* ruleForm of the upload page
    row,        \* payRow and the pay dialog of My Files
    pending,    \* the rows of My Files with a PAY button
    start,      \* what the page is opened with: the system parameters (contract addresses),
                \* its two requests (stats), the FIL price
    loads,      \* answers of getData whose timer has not run
    searches,   \* searches so far
    flows,      \* the Submit clicks so far, and how far each got
    popups,     \* transactions MetaMask shows
    pool,       \* transactions sent, in the order of nonces
    notices,    \* the lockpayment requests sent so far
    arrived,    \* those that the backend has dealt with
    faults

chain == <<txMap, txCarMap, balance, allowance, timestamp, dust>>
backend == <<uploaded, recorded>>
data == <<page, form, row, pending, start, loads, searches>>   \* of the page, without ui
view == <<page, ui, form, row, pending, start, loads, searches>>
wallet == <<popups, pool>>
vars == <<chain, backend, view, flows, wallet, notices, arrived, faults>>

Chain == INSTANCE SwanPayment WITH
    Users <- {User}, Amounts <- {}, MinPayments <- {}, LockTimes <- {}, Sizes <- {},
    TokenAmounts <- {}, MaxRepeat <- 0, LoopLimit <- 0, MaxTime <- 1

(***************************************************************************)
(* Prices.  NumPrice.toFixed(9): a price is even in our units, or 0 before *)
(* the FIL price came; -1 stands for labels never calculated.              *)
(***************************************************************************)
NotCalculated == -1
Multiplier == <<2, 3, 5>>

PriceOf(c) == IF start.price THEN Cost[c] ELSE 0

PlanPrice(price, plan) ==
    CASE price = NotCalculated -> 0
      [] price = 0 -> 2 * plan
      [] OTHER -> Multiplier[plan] * price

MinPrice(price) ==
    CASE price = NotCalculated -> 0
      [] price > 2 -> price
      [] OTHER -> 1

Lit == [loading |-> TRUE, uploading |-> FALSE, overlay |-> FALSE, finished |-> FALSE,
        failed |-> FALSE, tip |-> FALSE]
EmptyForm == [file |-> None, body |-> None, plan |-> 0, amount |-> 0, price |-> NotCalculated]
EmptyRow == [cid |-> None, price |-> NotCalculated, dialog |-> FALSE]
Opened == [params |-> "asked", stats |-> "waiting", price |-> FALSE]

Init ==
    /\ Chain!Init
    /\ recorded = {}
    /\ page \in PageNames /\ uploaded = (IF page = "files" THEN Cids ELSE {})
    /\ ui = Lit /\ form = EmptyForm /\ row = EmptyRow /\ pending = {}
    /\ start = Opened /\ loads = 0 /\ searches = 0
    /\ flows = <<>> /\ popups = {} /\ pool = <<>>
    /\ notices = {} /\ arrived = {} /\ faults = 0

Locked(c) == txCarMap[c]._isExisted \/ txMap[c]._isExisted

Dialog == ui.uploading \/ ui.finished \/ ui.failed \/ ui.tip \/ row.dialog
Free == ~ui.loading /\ ~ui.overlay /\ ~Dialog

Flow(f) == flows[f]
At(f, stage) == f \in DOMAIN flows /\ flows[f].stage = stage

\* Mutant: a callback writes to whatever page is shown.
ShownAlways(f, look) == ui' = look

\* Callbacks of a page the user left write to a component nobody sees.
Shown(f, look) == ui' = IF flows[f].live THEN look ELSE ui

Move(f, stage) == flows' = [flows EXCEPT ![f].stage = stage]
Fault == faults < MaxFaults /\ faults' = faults + 1

\* A Submit or a REFUND click starts a flow.
Start(kind, cid, amount) ==
    /\ Len(flows) < MaxFlows
    /\ flows' = Append(flows, [kind |-> kind, live |-> TRUE, cid |-> cid, amount |-> amount,
                               min |-> 0, said |-> None,
                               stage |-> CASE kind = "upload" -> "balance"
                                           [] kind = "files" -> "info"
                                           [] OTHER -> "sent"])

\* getData of My Files: the mask goes up; 2 seconds after the answer it comes down.
GetData == loads' = loads + 1

(***************************************************************************)
(* Opening a page.  The header asks for the system parameters once; stats  *)
(* of each page looks for them every second, under the page's mask, and    *)
(* sends its two requests when they are there.                             *)
(***************************************************************************)
CommonParam ==
    /\ start.params = "asked"
    /\ start' = [start EXCEPT !.params = "known"]
    /\ UNCHANGED <<chain, backend, page, ui, form, row, pending, loads, searches, flows,
                   wallet, notices, arrived, faults>>

\* The failure is logged and nobody asks again: stats looks for ever.
CommonParamFails ==
    /\ start.params = "asked"
    /\ Fault
    /\ start' = [start EXCEPT !.params = "failed"]
    /\ UNCHANGED <<chain, backend, page, ui, form, row, pending, loads, searches, flows,
                   wallet, notices, arrived>>

Asking(p) == page = p /\ start.params = "known"

\* Upload page: the answer or failure of the first request takes the mask down.
StorageAnswers ==
    /\ Asking("upload") /\ start.stats = "waiting"
    /\ start' = [start EXCEPT !.stats = "answered"]
    /\ ui' = [ui EXCEPT !.loading = FALSE]
    /\ UNCHANGED <<chain, backend, page, form, row, pending, loads, searches, flows,
                   wallet, notices, arrived, faults>>

\* The answer of the second is the FIL price; nothing is calculated again.
PriceAnswers ==
    /\ Asking("upload") /\ ~start.price
    /\ start' = [start EXCEPT !.price = TRUE]
    /\ UNCHANGED <<chain, backend, page, ui, form, row, pending, loads, searches, flows,
                   wallet, notices, arrived, faults>>

\* My Files waits for both, then loads its table.
StatsAnswer ==
    /\ Asking("files") /\ start.stats = "waiting"
    /\ start' = [start EXCEPT !.stats = "answered", !.price = TRUE]
    /\ GetData /\ UNCHANGED searches
    /\ ui' = [ui EXCEPT !.loading = TRUE]
    /\ UNCHANGED <<chain, backend, page, form, row, pending, flows,
                   wallet, notices, arrived, faults>>

\* sendRequest catches the failure and gives nothing, stats throws: the mask stays.
StatsFail ==
    /\ Asking("files") /\ start.stats = "waiting"
    /\ Fault
    /\ start' = [start EXCEPT !.stats = "failed"]
    /\ UNCHANGED <<chain, backend, page, ui, form, row, pending, loads, searches, flows,
                   wallet, notices, arrived>>

(***************************************************************************)
(* The upload page.                                                        *)
(***************************************************************************)
\* uploadFile and handleChange; then the watcher of fileList: the plan is cleared and the
\* prices are calculated, the amount stays.
ChooseFile(c) ==
    /\ page = "upload" /\ Free
    /\ form' = [form EXCEPT !.file = c, !.body = c, !.plan = 0, !.price = PriceOf(c)]
    /\ UNCHANGED <<chain, backend, page, ui, row, pending, start, loads, searches, flows,
                   wallet, notices, arrived, faults>>

\* handleRemove: the watcher clears the plan; _file and the prices stay.
HandleRemove ==
    /\ page = "upload" /\ Free /\ form.file # None
    /\ form' = [form EXCEPT !.file = None, !.plan = 0]
    /\ UNCHANGED <<chain, backend, page, ui, row, pending, start, loads, searches, flows,
                   wallet, notices, arrived, faults>>

AgreeChange(plan) ==
    /\ page = "upload" /\ Free
    /\ form' = [form EXCEPT !.plan = plan, !.amount = PlanPrice(form.price, plan)]
    /\ UNCHANGED <<chain, backend, page, ui, row, pending, start, loads, searches, flows,
                   wallet, notices, arrived, faults>>

\* Nothing masks the page until the balance is known.
SubmitForm ==
    /\ page = "upload" /\ Free
    /\ form.file # None /\ form.plan # 0 /\ form.amount > 0
    /\ Start("upload", None, 0)
    /\ UNCHANGED <<chain, backend, view, wallet, notices, arrived, faults>>

\* The answer of balanceOf: amount and file are those of now.
UploadBalance(f) ==
    /\ At(f, "balance") /\ flows[f].kind = "upload"
    /\ IF form.amount > balance[User]
       THEN Move(f, "done") /\ UNCHANGED ui
       ELSE /\ flows' = [flows EXCEPT ![f].stage = "upload", ![f].cid = form.body]
            /\ Shown(f, [ui EXCEPT !.loading = TRUE, !.uploading = TRUE])
    /\ UNCHANGED <<chain, backend, data, wallet, notices, arrived, faults>>

\* The backend saved the file: need_pay is 0 for a new file, 2 for an unpaid one, 1 for
\* one with an event row.
UploadAnswers(f) ==
    /\ At(f, "upload")
    /\ uploaded' = uploaded \cup {flows[f].cid}
    /\ IF flows[f].cid \in uploaded \cap recorded
       THEN /\ Move(f, "done")
            /\ Shown(f, [ui EXCEPT !.uploading = FALSE, !.loading = FALSE, !.tip = TRUE])
       ELSE /\ Move(f, "allowance")
            /\ Shown(f, [ui EXCEPT !.uploading = FALSE])
    /\ UNCHANGED <<chain, recorded, data, wallet, notices, arrived, faults>>

\* The request failed, before or after the file was saved.
UploadFails(f) ==
    /\ At(f, "upload")
    /\ Fault
    /\ uploaded' \in {uploaded, uploaded \cup {flows[f].cid}}
    /\ Move(f, "done")
    /\ Shown(f, [ui EXCEPT !.uploading = FALSE, !.loading = FALSE])
    /\ UNCHANGED <<chain, recorded, data, wallet, notices, arrived>>

(***************************************************************************)
(* My Files.                                                               *)
(***************************************************************************)
\* What a flow still has to read from the form.
NeedsForm(f) == flows[f].kind = "upload" /\ flows[f].stage \in {"balance", "upload", "allowance"}

\* The menu, or CLOSE after a payment.  The callbacks of the page left go on; they keep its
\* form while they need it.
OpenMyFiles ==
    /\ page = "upload" /\ "files" \in PageNames
    /\ Len(flows) < MaxFlows      \* bound: the page is left after fewer clicks
    /\ ui.finished \/ ~Dialog
    /\ page' = "files" /\ ui' = Lit /\ row' = EmptyRow
    /\ start' = [Opened EXCEPT !.params = start.params]
    /\ flows' = [f \in DOMAIN flows |-> [flows[f] EXCEPT !.live = FALSE]]
    /\ form' = IF \E f \in DOMAIN flows : NeedsForm(f) THEN form ELSE EmptyForm
    /\ UNCHANGED <<chain, backend, pending, loads, searches, wallet, notices, arrived, faults>>

TableLoaded ==
    /\ loads > 0
    /\ loads' = loads - 1
    /\ ui' = [ui EXCEPT !.loading = FALSE]
    /\ pending' = uploaded \ recorded
    /\ UNCHANGED <<chain, backend, page, form, row, start, searches, flows,
                   wallet, notices, arrived, faults>>

\* The search field is not under the mask of the table: a search loads it also when stats
\* failed, and no price is known then.  Bound: no search before the answers of stats.
SearchValue ==
    /\ page = "files" /\ start.stats # "waiting" /\ ~ui.overlay /\ ~Dialog
    /\ searches < MaxSearches /\ searches' = searches + 1
    /\ GetData
    /\ ui' = [ui EXCEPT !.loading = TRUE]
    /\ UNCHANGED <<chain, backend, page, form, row, pending, start, flows,
                   wallet, notices, arrived, faults>>

PayClick(c) ==
    /\ page = "files" /\ Free /\ c \in pending
    /\ row' = [cid |-> c, price |-> PriceOf(c), dialog |-> TRUE]
    /\ UNCHANGED <<chain, backend, page, ui, form, pending, start, loads, searches, flows,
                   wallet, notices, arrived, faults>>

\* payTip: a plan is chosen and submitted, or the dialog closed.
PayStartClick(plan) ==
    /\ row.dialog
    /\ Start("files", row.cid, PlanPrice(row.price, plan))
    /\ row' = [row EXCEPT !.dialog = FALSE]
    /\ ui' = [ui EXCEPT !.loading = TRUE]
    /\ UNCHANGED <<chain, backend, page, form, pending, start, loads, searches,
                   wallet, notices, arrived, faults>>

CloseDia ==
    /\ row.dialog
    /\ row' = [row EXCEPT !.dialog = FALSE]
    /\ UNCHANGED <<chain, backend, page, ui, form, pending, start, loads, searches, flows,
                   wallet, notices, arrived, faults>>

\* lockpayment/info: a file with an event row has been paid.
InfoUnpaid(f) ==
    /\ At(f, "info") /\ flows[f].cid \notin recorded
    /\ Move(f, "balance")
    /\ UNCHANGED <<chain, backend, view, wallet, notices, arrived, faults>>

InfoPaid(f) ==
    /\ At(f, "info") /\ flows[f].cid \in recorded
    /\ Move(f, "done")
    /\ GetData /\ UNCHANGED searches
    /\ ui' = [ui EXCEPT !.loading = TRUE]
    /\ UNCHANGED <<chain, backend, page, form, row, pending, start,
                   wallet, notices, arrived, faults>>

InfoFails(f) ==
    /\ At(f, "info")
    /\ Fault
    /\ Move(f, "done")
    /\ ui' = [ui EXCEPT !.loading = FALSE]
    /\ UNCHANGED <<chain, backend, data, wallet, notices, arrived>>

\* Too low a balance leaves the mask where it is.
FilesBalance(f) ==
    /\ At(f, "balance") /\ flows[f].kind = "files"
    /\ Move(f, IF flows[f].amount > balance[User] THEN "stuck" ELSE "allowance")
    /\ UNCHANGED <<chain, backend, view, wallet, notices, arrived, faults>>

\* A row shown as Refunding: its deal expired.
RefundClick(c) ==
    /\ page = "files" /\ Free /\ Locked(c) /\ timestamp = 1
    /\ Start("unlock", c, 0)
    /\ popups' = popups \cup {<<Len(flows) + 1, "unlock">>}
    /\ ui' = [ui EXCEPT !.loading = TRUE]
    /\ UNCHANGED <<chain, backend, data, pool, notices, arrived, faults>>

(***************************************************************************)
(* Both pages: the transactions and their answers.                         *)
(***************************************************************************)
\* Mutant: the amount is that of payRow now, too.
AllowanceAnswersLate(f) ==
    /\ At(f, "allowance")
    /\ LET price == IF flows[f].kind = "upload" THEN form.price ELSE row.price
       IN flows' = [flows EXCEPT
             ![f].stage  = "sent",
             ![f].amount = IF flows[f].kind = "upload" THEN form.amount ELSE PlanPrice(price, 1),
             ![f].min    = MinPrice(price)]
    /\ popups' = popups \cup {<<f, "approve">>, <<f, "lock">>}
    /\ UNCHANGED <<chain, backend, view, pool, notices, arrived, faults>>

\* The allowance is asked for with owner and spender swapped, so it is always too low:
\* approve is sent, and contractSend at once after it.  On the upload page amount and
\* minPayment are those of the form now, on My Files minPayment is that of payRow now.
AllowanceAnswers(f) ==
    /\ At(f, "allowance")
    /\ flows' = [flows EXCEPT
          ![f].stage  = "sent",
          ![f].amount = IF flows[f].kind = "upload" THEN form.amount ELSE @,
          ![f].min    = MinPrice(IF flows[f].kind = "upload" THEN form.price ELSE row.price)]
    /\ popups' = popups \cup {<<f, "approve">>, <<f, "lock">>}
    /\ UNCHANGED <<chain, backend, view, pool, notices, arrived, faults>>

\* Bound: the user answers the approve popup of a flow before its lock popup.
Answerable(p) == p \in popups /\ <<p[1], "approve">> \notin popups \ {p}

\* The user confirms: the transaction has a hash.
ConfirmPopup(p) ==
    /\ Answerable(p)
    /\ popups' = popups \ {p} /\ pool' = Append(pool, p)
    /\ IF p[2] = "lock"
       THEN Shown(p[1], [ui EXCEPT !.overlay = TRUE, !.loading = FALSE])
       ELSE UNCHANGED ui
    /\ UNCHANGED <<chain, backend, data, flows, notices, arrived, faults>>

\* Mutant: the masks stay.
ShowErrorOnly(f) == Shown(f, [ui EXCEPT !.failed = TRUE])

\* The error event of lock and unlock.
ShowError(f) ==
    Shown(f, [ui EXCEPT !.loading = FALSE, !.failed = TRUE,
                        !.overlay = @ /\ flows[f].kind = "unlock"])

RejectPopup(p) ==
    /\ Answerable(p)
    /\ popups' = popups \ {p}
    /\ IF p[2] = "approve"
       THEN UNCHANGED <<flows, ui>>
       ELSE Move(p[1], "done") /\ ShowError(p[1])
    /\ UNCHANGED <<chain, backend, data, pool, notices, arrived, faults>>

\* The contract executes the transactions in the order of their nonces.
Execute(f, what) ==
    CASE what = "approve" -> Chain!Approve(User, flows[f].amount) /\ UNCHANGED flows
      [] what = "lock" ->
            /\ Chain!LockTokenPayment(User, flows[f].cid, flows[f].amount, flows[f].min, 0, 1)
            /\ Move(f, "mined")
      [] OTHER -> Chain!UnlockTokenPayment(User, flows[f].cid) /\ Move(f, "mined")

MineNext ==
    /\ pool # <<>> /\ pool' = Tail(pool)
    /\ Execute(Head(pool)[1], Head(pool)[2])
    /\ UNCHANGED <<backend, view, popups, notices, arrived, faults>>

Ended == {"completed", "done", "stuck", "lost", "untold"}

\* The deadline of a payment passes.  Bound: it is days away, so only when no flow runs.
Expire ==
    /\ page = "files" /\ \E c \in Cids : Locked(c)
    /\ \A f \in DOMAIN flows : flows[f].stage \in Ended
    /\ Chain!Tick
    /\ UNCHANGED <<backend, view, flows, wallet, notices, arrived, faults>>

\* A requirement of the contract fails, or the gas the page gave runs out.  (approve never reverts.)
RevertNext ==
    /\ pool # <<>> /\ pool' = Tail(pool)
    /\ Head(pool)[2] # "approve" /\ Move(Head(pool)[1], "reverted")
    /\ UNCHANGED <<chain, backend, view, popups, notices, arrived, faults>>

ErrorEvent(f) ==
    /\ At(f, "reverted")
    /\ Move(f, "done") /\ ShowError(f)
    /\ UNCHANGED <<chain, backend, data, wallet, notices, arrived, faults>>

\* Mutant: the file named is the one chosen in the form now.
ReceiptOfForm(f) ==
    /\ At(f, "mined")
    /\ flows' = [flows EXCEPT ![f].stage = "checking",
                              ![f].said = IF flows[f].kind = "files" THEN row.cid ELSE form.body]
    /\ UNCHANGED <<chain, backend, view, wallet, notices, arrived, faults>>

\* Mutant: the callbacks of a page end with it.
ReceiptWhileShown(f) ==
    /\ At(f, "mined") /\ flows[f].live
    /\ flows' = [flows EXCEPT ![f].stage = "checking",
                              ![f].said = IF flows[f].kind = "files" THEN row.cid ELSE flows[f].cid]
    /\ UNCHANGED <<chain, backend, view, wallet, notices, arrived, faults>>

\* The receipt event.  My Files passes payRow along, the row of now.
Receipt(f) ==
    /\ At(f, "mined")
    /\ flows' = [flows EXCEPT ![f].stage = "checking",
                              ![f].said = IF flows[f].kind = "files" THEN row.cid ELSE flows[f].cid]
    /\ UNCHANGED <<chain, backend, view, wallet, notices, arrived, faults>>

\* Mutant: the backend is told as soon as the transaction has a hash.
CheckTransactionUnmined(f) ==
    /\ At(f, "checking") \/ (At(f, "sent") /\ ui.overlay)
    /\ Move(f, "finishing")
    /\ notices' = IF flows[f].kind = "unlock" THEN notices
                  ELSE notices \cup {[flow |-> f, cid |-> flows[f].cid]}
    /\ UNCHANGED <<chain, backend, view, wallet, arrived, faults>>

\* checkTransaction: the backend is told.  (For an unlock storage/deal/expire is; the
\* backend asks the contract itself then.)
CheckTransaction(f) ==
    /\ At(f, "checking")
    /\ Move(f, "finishing")
    /\ notices' = IF flows[f].kind = "unlock" THEN notices
                  ELSE notices \cup {[flow |-> f, cid |-> flows[f].said]}
    /\ UNCHANGED <<chain, backend, view, wallet, arrived, faults>>

\* 2 seconds later.
Finish(f) ==
    /\ At(f, "finishing")
    /\ Move(f, "completed")
    /\ Shown(f, [ui EXCEPT !.loading = FALSE, !.overlay = FALSE, !.finished = TRUE])
    /\ UNCHANGED <<chain, backend, data, wallet, notices, arrived, faults>>

\* WriteLockPayment saves an event row, also for a cid that the contract does not have.
NoticeArrives(n) ==
    /\ n \in notices \ arrived
    /\ arrived' = arrived \cup {n}
    /\ recorded' = recorded \cup {n.cid}
    /\ UNCHANGED <<chain, uploaded, view, flows, wallet, notices, faults>>

NoticeLost(n) ==
    /\ n \in notices \ arrived
    /\ Fault
    /\ arrived' = arrived \cup {n}
    /\ UNCHANGED <<chain, backend, view, flows, wallet, notices>>

\* balanceOf, allowance or getTransactionReceipt fails, and nobody catches it.
CallFails(f) ==
    /\ At(f, "balance") \/ At(f, "allowance") \/ At(f, "checking")
    /\ Fault
    /\ Move(f, IF At(f, "checking") THEN "untold" ELSE "lost")
    /\ UNCHANGED <<chain, backend, view, wallet, notices, arrived>>

CloseFinish ==
    /\ ui.finished
    /\ IF page = "files"
       THEN GetData /\ ui' = [ui EXCEPT !.finished = FALSE, !.loading = TRUE]
       ELSE "files" \notin PageNames /\ UNCHANGED loads /\ ui' = [ui EXCEPT !.finished = FALSE]
    /\ UNCHANGED <<chain, backend, page, form, row, pending, start, searches, flows,
                   wallet, notices, arrived, faults>>

CloseTips ==
    /\ ui.failed \/ ui.tip
    /\ ui' = [ui EXCEPT !.failed = FALSE, !.tip = FALSE]
    /\ UNCHANGED <<chain, backend, data, flows, wallet, notices, arrived, faults>>

(***************************************************************************)
(* The specification.  Callbacks, timers and the chain are fair: they run  *)
(* in the end.  The user is not.                                           *)
(***************************************************************************)
Callback(f) ==
    \/ UploadBalance(f) \/ UploadAnswers(f) \/ InfoUnpaid(f) \/ InfoPaid(f) \/ FilesBalance(f)
    \/ AllowanceAnswers(f) \/ ErrorEvent(f) \/ Receipt(f) \/ CheckTransaction(f) \/ Finish(f)

OpenPage ==
    CommonParam \/ CommonParamFails \/ StorageAnswers \/ PriceAnswers \/ StatsAnswer \/ StatsFail

ClickUpload ==
    \/ HandleRemove \/ SubmitForm \/ OpenMyFiles
    \/ \E c \in Cids : ChooseFile(c)
    \/ \E plan \in Plans : AgreeChange(plan)

ClickMyFiles ==
    \/ SearchValue \/ CloseDia
    \/ \E c \in Cids : PayClick(c) \/ RefundClick(c)
    \/ \E plan \in Plans : PayStartClick(plan)

ClickBoth == CloseFinish \/ CloseTips \/ \E p \in popups : ConfirmPopup(p) \/ RejectPopup(p)

Fails ==
    \/ \E f \in DOMAIN flows : UploadFails(f) \/ InfoFails(f) \/ CallFails(f)
    \/ \E n \in notices : NoticeLost(n)

Mine == MineNext \/ RevertNext
Deliver == \E n \in notices : NoticeArrives(n)

Next ==
    \/ \E f \in DOMAIN flows : Callback(f)
    \/ TableLoaded \/ Mine \/ Deliver \/ Expire
    \/ OpenPage \/ ClickUpload \/ ClickMyFiles \/ ClickBoth \/ Fails

Spec == Init /\ [][Next]_vars

FairSpec ==
    /\ Spec
    /\ \A f \in 1 .. MaxFlows : WF_vars(Callback(f))
    /\ WF_vars(TableLoaded) /\ WF_vars(Mine) /\ WF_vars(Deliver)
    /\ WF_vars(CommonParam \/ StorageAnswers \/ StatsAnswer)

(***************************************************************************)
(* Properties.                                                             *)
(***************************************************************************)
Kinds == {"upload", "files", "unlock"}
Stages == {"balance", "info", "upload", "allowance", "sent", "mined", "reverted", "checking",
           "finishing", "completed", "done", "stuck", "lost", "untold"}

\* The types of the variables (prices and amounts are integers of the units above).
TypeOK ==
    /\ Chain!TypeOK
    /\ uploaded \subseteq Cids /\ recorded \subseteq Cids /\ pending \subseteq Cids
    /\ page \in PageNames
    /\ start \in [params : {"asked", "known", "failed"},
                  stats : {"waiting", "answered", "failed"}, price : BOOLEAN]
    /\ ui \in [DOMAIN Lit -> BOOLEAN]
    /\ form \in [file : Cids \cup {None}, body : Cids \cup {None}, plan : 0 .. 3,
                 amount : Nat, price : Nat \cup {NotCalculated}]
    /\ row \in [cid : Cids \cup {None}, price : Nat \cup {NotCalculated}, dialog : BOOLEAN]
    /\ loads \in Nat /\ searches \in 0 .. MaxSearches
    /\ flows \in Seq([kind : Kinds, live : BOOLEAN, cid : Cids \cup {None}, amount : Nat,
                      min : Nat, said : Cids \cup {None}, stage : Stages])
    /\ popups \subseteq (DOMAIN flows) \X {"approve", "lock", "unlock"}
    /\ pool \in Seq((DOMAIN flows) \X {"approve", "lock", "unlock"})
    /\ notices \subseteq [flow : DOMAIN flows, cid : Cids]
    /\ arrived \subseteq notices /\ faults \in 0 .. MaxFaults

MinedStages == {"mined", "checking", "finishing", "completed", "untold"}
\* What the upload page tells the backend to be paid is locked in the contract, however
\* the user goes on using the page while its callbacks run (uploadFiles.vue: resData goes
\* from the answer of the upload through contractSend and checkTransaction to sendPayment).
UploadNoticeNamesLock ==
    \A n \in notices : flows[n.flow].kind = "upload" => n.cid \in {c \in Cids : Locked(c)}

\* A payment is only ever locked for a file the backend has a row of, so WriteLockPayment
\* and CheckSourceFilesPaid find the file of every payment the page makes.
LockedIsUploaded == \A c \in Cids : Locked(c) => c \in uploaded

\* The dialog COMPLETED appears only after a transaction of this page was mined: not for one
\* that was rejected or reverted, nor for one of the page the user came from.
CompletedWasMined ==
    ui.finished => \E f \in DOMAIN flows : flows[f].live /\ flows[f].stage = "completed"

\* The prices a dialog or a form may show for a file: before the FIL price came the file
\* costs nothing, and the least amounts are shown.
ShownAmounts(c) == {PlanPrice(price, plan) : price \in {0, Cost[c]}, plan \in Plans}

\* From My Files the user pays one of the prices the dialog showed for that very file,
\* whatever other rows were clicked before the money is sent (payTip is made anew for each
\* row, and its amount goes from payStartClick to contractSend as an argument).
FilesAmountIsShown ==
    \A f \in DOMAIN flows : flows[f].kind = "files" => flows[f].amount \in ShownAmounts(flows[f].cid)

\* The same for the upload page, of what was sent.  The code does not keep this: the file is
\* the form's when balanceOf answers (uploadFiles.vue 317-335), the amount the form's when
\* allowance does (447), and the form is not masked before the first of them.
UploadAmountIsShown ==
    \A f \in DOMAIN flows : flows[f].kind = "upload" /\ flows[f].stage = "sent" =>
        flows[f].amount \in ShownAmounts(flows[f].cid)

\* The REFUND button never gets a payment of this page back: the page locks car payments
\* only (size > 0), and unlockTokenPayment looks in the other map.
RefundClickReverts ==
    \A f \in DOMAIN flows : flows[f].kind = "unlock" => flows[f].stage \notin MinedStages

\* A file recorded as paid has a payment in the contract ("This file has been paid.",
\* dashboard/index.vue:795).  The notice is made of payRow when the receipt arrives
\* (879), which another click may have changed: no run checks this.
RecordedIsLocked == \A c \in recorded : Locked(c)

\* A payment's progress, whatever the pages do meanwhile, is that of PaymentNotices: the
\* backend is told of it after it was mined, once, and deals with it after that.
PaymentFlows == {f \in DOMAIN flows : flows[f].kind # "unlock"}
MinedFlows == {f \in PaymentFlows : flows[f].stage \in MinedStages}
FlowsOf(N) == {n.flow : n \in N}

Promise == INSTANCE PaymentNotices WITH
    Payments <- 1 .. MaxFlows, mined <- MinedFlows,
    told <- FlowsOf(notices), settled <- FlowsOf(arrived)
TellsWhatWasMined == Promise!Spec

\* A lock that was mined is told to the backend, unless the call for its receipt fails.
MinedIsTold ==
    \A f \in 1 .. MaxFlows :
        At(f, "mined") ~> (At(f, "untold") \/ \E n \in notices : n.flow = f)

\* The page does not stay masked for ever, but where a call fails that nobody catches (one of
\* a payment, or one that My Files is opened with), where the system parameters never come and
\* stats looks for them for ever, where My Files finds the balance too low, or as long as the
\* user leaves a popup unanswered.
MaskLifted ==
    ui.loading \/ ui.overlay ~>
        \/ ~ui.loading /\ ~ui.overlay
        \/ popups # {}
        \/ start.params = "failed" \/ start.stats = "failed"
        \/ \E f \in DOMAIN flows : flows[f].stage \in {"stuck", "lost", "untold"}

\* What holds of the pages whatever they are doing: only uploaded files are locked, from
\* My Files for an amount that was shown for the file, and not to be had back by REFUND.
PaymentInv == TypeOK /\ LockedIsUploaded /\ FilesAmountIsShown /\ RefundClickReverts
=============================================================================
