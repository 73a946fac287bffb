----------------------------- MODULE WebTables -----------------------------
(***************************************************************************)
(* The pages of the web front end that show what the backend has stored:   *)
(*                                                                         *)
(*   files     My Files: the table of dashboard/index.vue                  *)
(*   billing   Billing History (settings/billing.vue)                      *)
(*   search    Search Files (searchFile/index.vue)                         *)
(*   detail    a deal of a file, one tab for each deal (detail/index.vue)  *)
(*   file      the deals of a file (fileName/index.vue)                    *)
(*   stats     the overview of the network (stats/index.vue)               *)
(*                                                                         *)
(* Every change of a control sends a request (getData), answers come in    *)
(* any order or fail, and whatever answer arrives is shown.  A question is *)
(* a record of the controls when it is asked; the text of the detail page  *)
(* is the id of a deal, whose log a dialog of that page shows.             *)
(*                                                                         *)
(* What the backend finds for a text is a constant here: the fees of the   *)
(* rows, whatever their order; its endpoints cut them into pages.  The     *)
(* module also has the filters that print a fee.                           *)
(***************************************************************************)
EXTENDS Integers, Sequences, FiniteSets

CONSTANTS
    Kinds,        \* the pages the user visits
    Texts, Empty, \* texts to search for; the empty one
    Fees,         \* for each text the fees of the rows found, in wei
    Wallets,      \* addresses the session may have
    Orders, None, \* columns to sort by, with a direction
    Limits, DefaultLimit,  \* page sizes (10, 20, 30; 10)
    Decimals,     \* decimal places of a token (18)
    Digits53,     \* decimal digits a Number keeps (15 at least)
    MaxAsks,      \* bound: requests
    MaxLogs       \* bound: requests for a log at a time

ASSUME ConstantsAssumption ==
    /\ Kinds \subseteq {"files", "billing", "search", "detail", "file", "stats"}
    /\ Empty \in Texts /\ Fees \in [Texts -> Seq(Nat)]
    /\ Limits \subseteq Nat \ {0} /\ DefaultLimit \in Limits
    /\ None \notin Orders \cup Wallets /\ MaxAsks \in Nat \ {0} /\ MaxLogs \in Nat
    /\ Decimals \in Nat \ {0} /\ Digits53 \in Nat \ {0}

VARIABLES
    kind,     \* the page
    ctl,      \* parma, searchValue, and the address of the session
    asked,    \* the requests so far
    waiting,  \* those not answered, by number
    table,    \* the request whose answer the table shows, 0 for no rows
    latest,   \* the request answered last, 0 if it failed
    total,    \* parma.total
    loading,  \* the mask
    timers,   \* answers of My Files whose timer has not taken the mask down
    log       \* the dialog of a deal's log: is it open, its mask, the requests under way

view == <<table, latest, total, loading, timers>>   \* what the page shows, without ctl
vars == <<kind, ctl, asked, waiting, view, log>>

\* The pages el-pagination and pageSizeChange know of.
PageCount(rows, limit) == (rows + limit - 1) \div limit

SmallerOf(a, b) == IF a < b THEN a ELSE b
LargerOf(a, b) == IF a > b THEN a ELSE b

(***************************************************************************)
(* The backend.                                                            *)
(***************************************************************************)
GetOffsetByPagenumber(q) == (q.page - 1) * q.limit

\* The queries of My Files and of Billing are limited to the page.
GetSourceFiles(q) ==
    LET offset == GetOffsetByPagenumber(q)
    IN SubSeq(Fees[q.text], offset + 1, SmallerOf(offset + q.limit, Len(Fees[q.text])))

getBillHistoryList(q) == GetSourceFiles(q)

\* Their total is the number of rows of that page.
GetDealListFromLocal(q) ==
    LET infoList == GetSourceFiles(q) IN [rows |-> infoList, total |-> Len(infoList)]

GetUserBillingHistory(q) ==
    LET billingResultList == getBillHistoryList(q)
    IN [rows |-> billingResultList, total |-> Len(billingResultList)]

\* The other pages get all there is: a deal with its locked fee and its prices, the deals of a
\* file.  (The search page gets a total, too, but its pager is never shown.)
Response(page, q) ==
    CASE page = "files" -> GetDealListFromLocal(q)
      [] page = "billing" -> GetUserBillingHistory(q)
      [] OTHER -> [rows |-> Fees[q.text], total |-> 0]

(***************************************************************************)
(* Asking.                                                                 *)
(***************************************************************************)
Fresh(text, address) ==
    [text |-> text, page |-> 1, limit |-> DefaultLimit, order |-> None, address |-> address]

\* getData.  My Files clears its rows first.
Ask(c) ==
    /\ Len(asked) < MaxAsks
    /\ ctl' = c /\ asked' = Append(asked, c)
    /\ waiting' = waiting \cup {Len(asked) + 1}
    /\ loading' = TRUE
    /\ table' = IF kind = "files" THEN 0 ELSE table
    /\ UNCHANGED <<kind, latest, total, timers, log>>

\* The page is mounted: all but the search page ask at once, My Files when it has its prices.
Init ==
    /\ kind \in Kinds
    /\ \E text \in Texts, a \in Wallets :
          /\ kind \notin {"detail", "file"} => text = Empty
          /\ ctl = Fresh(text, a)
    /\ asked = IF kind = "search" THEN <<>> ELSE <<ctl>>
    /\ waiting = DOMAIN asked /\ loading = (kind # "search")
    /\ table = 0 /\ latest = 0 /\ total = 0 /\ timers = 0
    /\ log = [open |-> FALSE, mask |-> TRUE, waiting |-> 0]

(***************************************************************************)
(* The controls.                                                           *)
(***************************************************************************)
\* The search of My Files (watch), of Billing (search): from the first page.
Search(text) == Ask(Fresh(text, ctl.address))

\* Typed, it waits for a click, or for any other request of the page.
TypeOnly(text) ==
    /\ ctl' = [ctl EXCEPT !.text = text]
    /\ UNCHANGED <<kind, asked, waiting, view, log>>

\* My Files asks at once, Billing when the text is emptied.
Type(text) ==
    /\ text # ctl.text
    /\ IF kind = "files" \/ (kind = "billing" /\ text = Empty) THEN Search(text)
       ELSE TypeOnly(text)

\* The search page only empties its table.
ClearTable ==
    /\ ctl' = Fresh(Empty, ctl.address) /\ table' = 0
    /\ UNCHANGED <<kind, asked, waiting, latest, total, loading, timers, log>>

\* handleCurrentChange: el-pagination offers the pages of the total shown.
ClickPage(p) ==
    /\ p \in 1 .. LargerOf(1, PageCount(total, ctl.limit)) /\ p # ctl.page
    /\ Ask([ctl EXCEPT !.page = p])

\* pageSizeChange: the number typed is cut to the pages of the total shown.
Jump(n) ==
    LET max == PageCount(total, ctl.limit)
    IN Ask([ctl EXCEPT !.page = LargerOf(1, SmallerOf(n, max))])

\* handleSizeChange
ClickSize(limit) ==
    /\ limit # ctl.limit
    /\ Ask([ctl EXCEPT !.limit = limit, !.page = 1])

\* sortChange keeps the page.
Sort(order) ==
    /\ order # ctl.order
    /\ Ask([ctl EXCEPT !.order = order])

\* Mutant: the route changes, the deal is not asked for.
ClickTabOnly(deal) ==
    /\ deal # ctl.text
    /\ TypeOnly(deal)

\* The tabs of the detail page: the route changes, and is watched.
ClickTab(deal) ==
    /\ deal # ctl.text
    /\ Ask([ctl EXCEPT !.text = deal])

\* Billing watches the address of the session: signed out it shows a dialog, signed in with
\* another address it asks again.
SessionChanges(a) ==
    /\ a # ctl.address
    /\ IF a # None THEN Ask([ctl EXCEPT !.address = a])
       ELSE /\ ctl' = [ctl EXCEPT !.address = None]
            /\ UNCHANGED <<kind, asked, waiting, view, log>>

(***************************************************************************)
(* Answers.                                                                *)
(***************************************************************************)
\* The rows are shown.  The mask of My Files stays for 2 seconds more.
Answer(i) ==
    /\ waiting' = waiting \ {i}
    /\ table' = i /\ latest' = i /\ total' = Response(kind, asked[i]).total
    /\ IF kind = "files" THEN timers' = timers + 1 /\ UNCHANGED loading
       ELSE loading' = FALSE /\ UNCHANGED timers
    /\ UNCHANGED <<kind, ctl, asked, log>>

\* Mutant: the error is logged, the mask stays.
FailMasked(i) ==
    /\ waiting' = waiting \ {i}
    /\ latest' = 0
    /\ UNCHANGED <<kind, ctl, asked, table, total, loading, timers, log>>

\* An error, or an answer without success.
Fail(i) ==
    /\ waiting' = waiting \ {i}
    /\ latest' = 0 /\ loading' = FALSE
    /\ UNCHANGED <<kind, ctl, asked, table, total, timers, log>>

TimerRuns ==
    /\ timers > 0 /\ timers' = timers - 1
    /\ loading' = FALSE
    /\ UNCHANGED <<kind, ctl, asked, waiting, table, latest, total, log>>

\* The overview's one request has no catch, its mask stays.
StatsFail ==
    /\ waiting # {} /\ waiting' = {}
    /\ UNCHANGED <<kind, ctl, asked, view, log>>

(***************************************************************************)
(* The log of a deal.                                                      *)
(***************************************************************************)
\* The button is under the mask of the page.
ViewLogs ==
    /\ ~loading /\ log.waiting < MaxLogs
    /\ log' = [open |-> TRUE, mask |-> TRUE, waiting |-> log.waiting + 1]
    /\ UNCHANGED <<kind, ctl, asked, waiting, view>>

\* An answer of any kind takes the dialog's mask down.
LogsAnswered ==
    /\ log.waiting > 0
    /\ log' = [log EXCEPT !.waiting = @ - 1, !.mask = FALSE]
    /\ UNCHANGED <<kind, ctl, asked, waiting, view>>

CloseLogs ==
    /\ log.open /\ log' = [log EXCEPT !.open = FALSE]
    /\ UNCHANGED <<kind, ctl, asked, waiting, view>>

(***************************************************************************)
(* The pages.                                                              *)
(***************************************************************************)
Arrives == \E i \in waiting : Answer(i) \/ Fail(i)

\* el-pagination, and the table's headers.
Pager ==
    \/ \E n \in 0 .. MaxAsks : ClickPage(n) \/ Jump(n)
    \/ \E limit \in Limits : ClickSize(limit)
    \/ \E order \in Orders \cup {None} : Sort(order)

FilesPage ==
    /\ kind = "files"
    /\ Pager \/ Arrives \/ TimerRuns \/ \E text \in Texts : Type(text)

\* Without an address there are no controls.  The Search button is off for an empty text, Clear
\* is not.
BillingPage ==
    /\ kind = "billing"
    /\ \/ Arrives \/ \E a \in Wallets \cup {None} : SessionChanges(a)
       \/ /\ ctl.address # None
          /\ \/ Pager \/ Search(Empty) \/ \E text \in Texts : Type(text)
             \/ ctl.text # Empty /\ Search(ctl.text)

\* The mask covers the field, which may keep the focus, and the buttons, which are off for an
\* empty text.  The pager is not shown.
SearchPage ==
    /\ kind = "search"
    /\ \/ Arrives
       \/ \E text \in Texts : Type(text)
       \/ ~loading /\ ctl.text # Empty /\ (Search(ctl.text) \/ ClearTable)

\* The open dialog covers the tabs and the button.
DetailPage ==
    /\ kind = "detail"
    /\ \/ Arrives \/ LogsAnswered \/ CloseLogs
       \/ ~log.open /\ (ViewLogs \/ \E deal \in Texts : ClickTab(deal))

FilePage == kind = "file" /\ Arrives

StatsPage == kind = "stats" /\ (StatsFail \/ \E i \in waiting : Answer(i))

Next == FilesPage \/ BillingPage \/ SearchPage \/ DetailPage \/ FilePage \/ StatsPage

Spec == Init /\ [][Next]_vars

(***************************************************************************)
(* How a fee is printed.  A fee in wei has up to 18 decimals; the filters  *)
(* cut its decimal digits, as a string, into integer and fraction.         *)
(***************************************************************************)
DigitsOf(n) ==
    LET digits[m \in Nat] == IF m < 10 THEN <<m>> ELSE Append(digits[m \div 10], m % 10)
    IN digits[n]

ValueOf(digits) ==
    LET value[n \in 0 .. Len(digits)] == IF n = 0 THEN 0 ELSE 10 * value[n - 1] + digits[n]
    IN value[Len(digits)]

Power10[n \in Nat] == IF n = 0 THEN 1 ELSE 10 * Power10[n - 1]

Zeros(n) == [i \in 1 .. n |-> 0]

\* replace(/(0+)\b/gi, ""): the zeros at the end go.
Stripped(digits) ==
    LET kept == {i \in DOMAIN digits : digits[i] # 0}
    IN SubSeq(digits, 1, IF kept = {} THEN 0 ELSE CHOOSE i \in kept : \A j \in kept : j <= i)

\* Number(value): digits beyond those a Number keeps are rounded.
NumberOf(n) ==
    LET unit == Power10[LargerOf(0, Len(DigitsOf(n)) - Digits53)]
    IN ((n + unit \div 2) \div unit) * unit

\* A value below one token: zeros are put before its digits, as many as they lack.
Fraction(digits) ==
    [int |-> <<0>>, frac |-> Stripped(Zeros(Decimals - Len(digits)) \o digits)]

Cut(digits) ==
    LET n == Len(digits)
    IN IF n > Decimals
       THEN [int |-> SubSeq(digits, 1, n - Decimals),
             frac |-> Stripped(SubSeq(digits, n - Decimals + 1, n))]
       ELSE Fraction(digits)

\* The filter of Billing, which goes through a Number.
balanceFilter(fee) ==
    IF fee = 0 THEN [int |-> <<0>>, frac |-> <<>>] ELSE Cut(DigitsOf(NumberOf(fee)))

\* The filter of the detail page.  The locked fee comes as a string; the storage prices come as
\* Numbers, and a Number has no length: it is always taken for a fraction.
NumFormatPrice(fee, type) ==
    IF fee = 0 THEN [int |-> <<0>>, frac |-> <<>>]
    ELSE IF type = "string" THEN Cut(DigitsOf(fee)) ELSE Fraction(DigitsOf(NumberOf(fee)))

\* What a reader takes a printed fee for, in wei.
Read(printed) ==
    ValueOf(printed.int \o printed.frac) * Power10[Decimals - Len(printed.frac)]

(***************************************************************************)
(* Properties.                                                             *)
(***************************************************************************)
Question == [text : Texts, page : Nat \ {0}, limit : Limits, order : Orders \cup {None},
             address : Wallets \cup {None}]

\* Types.  In particular no page before the first is asked for, whatever number is typed.
TypeOK ==
    /\ kind \in Kinds /\ ctl \in Question /\ asked \in Seq(Question)
    /\ Len(asked) <= MaxAsks
    /\ waiting \subseteq DOMAIN asked
    /\ table \in {0} \cup DOMAIN asked /\ latest \in {0} \cup DOMAIN asked
    /\ total \in Nat /\ loading \in BOOLEAN /\ timers \in Nat
    /\ log \in [open : BOOLEAN, mask : BOOLEAN, waiting : 0 .. MaxLogs]

\* What the page asks for is what its controls show; on Billing and on the search page a text
\* may have been typed since.
Shows(q) ==
    CASE kind = "billing" ->
            [q EXCEPT !.text = ctl.text,
                      !.address = IF ctl.address = None THEN None ELSE @] = ctl
      [] kind = "search" -> TRUE
      [] OTHER -> q = ctl

\* When the answer that came last is the one to the last question, the page shows the rows
\* its controls ask for, however many questions were under way: every control that changes the
\* question also asks.  The total that My Files and Billing show with them is the number of
\* these rows (router.go 433, billing/router.go 166: len of the page's rows).
LastAnswerShown ==
    latest # 0 /\ latest = Len(asked) /\ table # 0 =>
        /\ table = latest /\ Shows(asked[table])
        /\ kind \in {"files", "billing"} => total = Len(Response(kind, asked[table]).rows)

\* The pager offers the pages of all the rows found.  The code does not keep this: the total
\* is never more than a page, so the rows beyond the first are not offered.
EveryRowOffered ==
    kind \in {"files", "billing"} /\ latest # 0 /\ latest = Len(asked) /\ table # 0 =>
        PageCount(total, ctl.limit) >= PageCount(Len(Fees[asked[table].text]), ctl.limit)

\* A mask has a reason: a request is under way, or a timer runs.  No order of answers and
\* failures leaves a page masked for ever, but a failure of the overview, nor the open log of
\* a deal.
MaskHasReason ==
    /\ loading => waiting # {} \/ timers > 0 \/ (kind = "stats" /\ table = 0)
    /\ log.open /\ log.mask => log.waiting > 0

FeesShown(rows) == {rows[i] : i \in DOMAIN rows}

\* Every fee on the page is printed as it is: the locked fee of the detail page exactly, a
\* storage price there and the fees of Billing up to what a Number keeps.  Storage prices of
\* one FIL and more are left out: they are printed wrong, 1 FIL as 0.1 (detail/index.vue 388).
FeesPrintedRight ==
    table # 0 => \A fee \in FeesShown(Response(kind, asked[table]).rows) :
        /\ Read(NumFormatPrice(fee, "string")) = fee
        /\ NumberOf(fee) < Power10[Decimals] => Read(NumFormatPrice(fee, "number")) = NumberOf(fee)
        /\ Read(balanceFilter(fee)) = NumberOf(fee)
        /\ Len(DigitsOf(fee)) <= Digits53 => NumberOf(fee) = fee

\* What holds of a list whatever is under way: its masks have reasons, its fees are right (but
\* for storage prices of one FIL and more).
TablesInv == TypeOK /\ MaskHasReason /\ FeesPrintedRight
=============================================================================
