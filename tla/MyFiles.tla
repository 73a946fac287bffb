------------------------------ MODULE MyFiles ------------------------------
(***************************************************************************)
(* The rows of My Files (dashboard/index.vue), the buttons they offer and  *)
(* the dialog that mints an NFT of a file (mintTip.vue).                   *)
(*                                                                         *)
(* A row shows what the backend had when the table was read.  The dialog   *)
(* keeps its component in a variable of its module, that, which every new  *)
(* dialog takes over: what an earlier dialog began goes on with the fields *)
(* of the one mounted last.  A mint is a number, which is also the hash of *)
(* its transaction; the NFT contract counts its tokens from 1.             *)
(***************************************************************************)
EXTENDS Integers, Sequences, FiniteSets

CONSTANTS
    Files,        \* payload_cids
    NoRecord,     \* no hash, no token
    DealStatuses, \* what Lotus or the Swan platform may say of a deal
    MaxTips,      \* bound: dialogs opened
    MaxMints,     \* bound: forms submitted
    MaxSupply     \* bound: tokens of the NFT contract

ASSUME FilesAssumption ==
    /\ MaxTips \in Nat /\ MaxMints \in Nat /\ MaxSupply \in Nat
    /\ NoRecord \notin Nat /\ NoRecord \notin Files

VARIABLES
    paid,    \* backend: the files with a lock event
    nft,     \* backend: for each file its nft_tx_hash and token_id
    rows,    \* tableData: for each file its row as last read
    tips,    \* the dialogs mounted so far
    open,    \* mineVisible
    asks,    \* dialogs whose first request is not answered
    mints,   \* the calls of submitForm
    supply,  \* totalSupply of the NFT contract
    viewed   \* the record the dialog "View Your NFT" shows

dialog == <<tips, open, asks>>
filesVars == <<paid, nft, rows, dialog, mints, supply, viewed>>

(***************************************************************************)
(* Rows.                                                                   *)
(***************************************************************************)
\* The backend's status of a file: Pending until its lock is recorded.
StatusOf(f) == IF f \in paid THEN "Processing" ELSE "Pending"

ReadRows == [f \in Files |-> [status |-> StatusOf(f), nft |-> nft[f]]]

\* The mint column.
MintButton(row) ==
    IF row.nft # NoRecord THEN "view"
    ELSE IF row.status \in {"Pending", "Failed", "Refunding", "Refunded"} THEN "off" ELSE "mint"

\* The payment column.
PayButton(row) ==
    CASE row.status = "Pending" -> "pay"
      [] row.status = "Refunding" -> "refund"
      [] row.status \in {"Refunded", "Failed"} -> "off"
      [] OTHER -> "paid"

(***************************************************************************)
(* Statuses in words, with their colours.  A status the page has no words  *)
(* for is told as it is by My Files, and not at all by the search page.    *)
(***************************************************************************)
Worded(status, colour) == [words |-> status, colour |-> colour]
Plain(text) == [text |-> text]
Nothing == Plain("")

StatusTold(status) ==
    IF status \in {"Failed", "Pending", "Processing", "Active", "Refunded", "Refunding"}
    THEN Worded(status, status) ELSE Plain(status)

Task_color(status) ==
    CASE status = "Created" -> "blue"
      [] status \in {"Assigned", "Accepted", "ActionRequired", "FileImporting", "FileImported",
                     "Downloading", "Waiting", "ReadyForImport"} -> "amber"
      [] status \in {"Completed", "DealSent", "DealActive"} -> "green"
      [] status \in {"Failed", "ImportFailed", "DownloadFailed"} -> "red"
      [] status \in {"Cancelled", "Closed", "Expired"} -> "grey"
      [] OTHER -> "none"

\* Its second case for Failed, grey, is never reached.
Deal_color(status) ==
    CASE status = "Created" -> "blue"
      [] status \in {"Waiting", "ReadyForImport", "FileImporting", "FileImported",
                     "Downloading"} -> "amber"
      [] status \in {"Completed", "DealActive"} -> "green"
      [] status \in {"Failed", "ImportFailed"} -> "red"
      [] OTHER -> "none"

DealTold(status) ==
    CASE Task_color(status) # "none" -> Worded(status, Task_color(status))
      [] status = "" -> Plain("-")
      [] OTHER -> Plain(status)

\* The popovers of a row: one for each of its deals, or one for the deal_status of a row without
\* deals, which the backend does not send.
DealsTold(deals) ==
    IF deals = <<>> THEN <<Nothing>> ELSE [i \in DOMAIN deals |-> DealTold(deals[i])]

SearchTold(status) ==
    IF status \in {"Created", "DealActive", "Waiting", "ReadyForImport", "FileImporting",
                   "FileImported", "ImportFailed", "Downloading", "Downloaded",
                   "DownloadFailed", "Completed", "Failed"}
    THEN Worded(status, Deal_color(status)) ELSE Nothing

(***************************************************************************)
(* Steps of the backend and of the table.                                  *)
(***************************************************************************)
FilesInit ==
    /\ paid \in SUBSET Files /\ nft = [f \in Files |-> NoRecord] /\ rows = ReadRows
    /\ tips = <<>> /\ open = FALSE /\ asks = {} /\ mints = <<>> /\ supply = 0
    /\ viewed = NoRecord

PaymentRecorded(f) ==
    /\ f \notin paid /\ paid' = paid \cup {f}
    /\ UNCHANGED <<nft, rows, dialog, mints, supply, viewed>>

\* An answer to getData.
RowsShown ==
    /\ rows' = ReadRows
    /\ UNCHANGED <<paid, nft, dialog, mints, supply, viewed>>

(***************************************************************************)
(* The dialog.  The number of that is Len(tips).                           *)
(***************************************************************************)
that == Len(tips)

Masked(hashload) == [tips EXCEPT ![that].hashload = hashload]

\* A mint that may still send a record.
Pending(j) == mints[j].step # "over" /\ mints[j].post = NoRecord

\* The pending mints are disturbed: they go on with the fields of another dialog or mint.
Disturbed == [j \in DOMAIN mints |->
                 [mints[j] EXCEPT !.alone = @ /\ ~Pending(j)]]

\* mintFunction, mounted and init.  An open dialog covers the buttons.
mintFunction(f) ==
    /\ ~open /\ viewed = NoRecord /\ MintButton(rows[f]) = "mint" /\ that < MaxTips
    /\ tips' = Append(tips, [mintRow |-> f, payment |-> NoRecord, hashload |-> TRUE,
                             nftHash |-> NoRecord, tokenId |-> NoRecord])
    /\ open' = TRUE /\ asks' = asks \cup {that + 1} /\ mints' = Disturbed
    /\ UNCHANGED <<paid, nft, rows, supply, viewed>>

\* The payment of a dialog's file is put into the form now mounted.
InitAnswers(i) ==
    /\ i \in asks /\ asks' = asks \ {i}
    /\ tips' = [Masked(FALSE) EXCEPT ![that].payment = tips[i].mintRow]
    /\ UNCHANGED <<paid, nft, rows, open, mints, supply, viewed>>

\* Without an answer the mask stays.
InitFails(i) ==
    /\ i \in asks /\ asks' = asks \ {i}
    /\ UNCHANGED <<paid, nft, rows, tips, open, mints, supply, viewed>>

\* closeDia: Back, or the dialog's cross, which no mask covers.
closeDia ==
    /\ open /\ open' = FALSE
    /\ UNCHANGED <<paid, nft, rows, tips, asks, mints, supply, viewed>>

\* The form is uploaded as the NFT's metadata.
submitForm ==
    /\ open /\ ~tips[that].hashload /\ Len(mints) < MaxMints
    /\ tips' = Masked(TRUE)
    /\ mints' = Append(Disturbed, [tip |-> that, step |-> "upload", names |-> tips[that].payment,
                                   tx |-> "none", token |-> NoRecord, post |-> NoRecord,
                                   alone |-> \A j \in DOMAIN mints : ~Pending(j), newest |-> FALSE])
    /\ UNCHANGED <<paid, nft, rows, open, asks, supply, viewed>>

Goes(j, from, to) == mints[j].step = from /\ mints' = [mints EXCEPT ![j].step = to]

Uploaded(j) == Goes(j, "upload", "sign") /\ UNCHANGED <<paid, nft, rows, dialog, supply, viewed>>

\* An upload or a totalSupply that fails ends the mint, its mask stays.
Throws(j) ==
    /\ Goes(j, "upload", "over") \/ Goes(j, "supply", "over")
    /\ UNCHANGED <<paid, nft, rows, dialog, supply, viewed>>

\* transactionHash
Signed(j) ==
    /\ mints[j].step = "sign"
    /\ mints' = [mints EXCEPT ![j].step = "sent", ![j].tx = "pool"]
    /\ tips' = [tips EXCEPT ![that].nftHash = j]
    /\ UNCHANGED <<paid, nft, rows, open, asks, supply, viewed>>

\* error: the wallet refuses, the transaction reverts, or web3 waits no longer for it.
Errs(j) ==
    /\ \/ Goes(j, "sign", "over")
       \/ Goes(j, "sent", "over") /\ mints[j].tx # "mined"
    /\ tips' = Masked(FALSE)
    /\ UNCHANGED <<paid, nft, rows, open, asks, supply, viewed>>

\* A token is minted: that of an earlier mint is not the newest any more, unless already read.
Outdated == [j \in DOMAIN mints |->
                [mints[j] EXCEPT !.newest = @ /\ mints[j].post # NoRecord]]

Mined(j) ==
    /\ mints[j].tx = "pool" /\ supply < MaxSupply
    /\ supply' = supply + 1
    /\ mints' = [Outdated EXCEPT ![j].tx = "mined", ![j].token = supply + 1,
                                 ![j].newest = mints[j].post = NoRecord]
    /\ UNCHANGED <<paid, nft, rows, dialog, viewed>>

Reverted(j) ==
    /\ mints[j].tx = "pool" /\ mints' = [mints EXCEPT ![j].tx = "reverted"]
    /\ UNCHANGED <<paid, nft, rows, dialog, supply, viewed>>

\* Somebody else mints.
OtherMint ==
    /\ supply < MaxSupply /\ supply' = supply + 1 /\ mints' = Outdated
    /\ UNCHANGED <<paid, nft, rows, dialog, viewed>>

Receipt(j) ==
    /\ mints[j].tx = "mined" /\ Goes(j, "sent", "supply")
    /\ UNCHANGED <<paid, nft, rows, dialog, supply, viewed>>

\* mintInfoJson
MintInfo(fields) ==
    [file |-> fields.mintRow, hash |-> fields.nftHash, token |-> supply]


\* The token's number is the supply when it is asked for; the record is sent.
SupplyAnswers(j) ==
    /\ mints[j].step = "supply"
    /\ tips' = [tips EXCEPT ![that].tokenId = supply]
    /\ mints' = [mints EXCEPT ![j].step = "post", ![j].post = MintInfo(tips[that])]
    /\ UNCHANGED <<paid, nft, rows, open, asks, supply, viewed>>

\* RecordMintInfo refuses a record without a hash.
RecordMintInfo(j) ==
    LET info == mints[j].post
    IN /\ Goes(j, "post", "emit")
       /\ nft' = IF info.hash = NoRecord THEN nft
                 ELSE [nft EXCEPT ![info.file] = [hash |-> info.hash, token |-> info.token]]
       /\ UNCHANGED <<paid, rows, dialog, supply, viewed>>

\* The request is lost, or refused for another reason: sendPostRequest only logs it.
PostFails(j) == Goes(j, "post", "emit") /\ UNCHANGED <<paid, nft, rows, dialog, supply, viewed>>

\* getMintDialog, if the component still is mounted; with a hash the rows are read again.
getMintDialog(j) ==
    /\ Goes(j, "emit", "over")
    /\ open' = FALSE
    /\ IF open /\ tips[that].nftHash # NoRecord
       THEN rows' = ReadRows /\ viewed' = [hash |-> tips[that].nftHash, token |-> tips[that].tokenId]
       ELSE UNCHANGED <<rows, viewed>>
    /\ UNCHANGED <<paid, nft, tips, asks, supply>>

mintViewFunction(f) ==
    /\ ~open /\ viewed = NoRecord /\ MintButton(rows[f]) = "view"
    /\ viewed' = rows[f].nft
    /\ UNCHANGED <<paid, nft, rows, dialog, mints, supply>>

CloseView ==
    /\ viewed # NoRecord /\ viewed' = NoRecord
    /\ UNCHANGED <<paid, nft, rows, dialog, mints, supply>>

FilesNext ==
    \/ RowsShown \/ closeDia \/ submitForm \/ OtherMint \/ CloseView
    \/ \E f \in Files : PaymentRecorded(f) \/ mintFunction(f) \/ mintViewFunction(f)
    \/ \E i \in asks : InitAnswers(i) \/ InitFails(i)
    \/ \E j \in DOMAIN mints :
          \/ Uploaded(j) \/ Throws(j) \/ Signed(j) \/ Errs(j) \/ Mined(j) \/ Reverted(j)
          \/ Receipt(j) \/ SupplyAnswers(j) \/ RecordMintInfo(j) \/ PostFails(j)
          \/ getMintDialog(j)

FilesSpec == FilesInit /\ [][FilesNext]_filesVars

(***************************************************************************)
(* Properties.                                                             *)
(***************************************************************************)
Hashes == (1 .. MaxMints) \cup {NoRecord}
Tokens == (0 .. MaxSupply) \cup {NoRecord}
Records == [hash : 1 .. MaxMints, token : 0 .. MaxSupply] \cup {NoRecord}

\* Types.
FilesTypeOK ==
    /\ paid \subseteq Files /\ nft \in [Files -> Records]
    /\ rows \in [Files -> [status : {"Pending", "Processing"}, nft : Records]]
    /\ tips \in Seq([mintRow : Files, payment : Files \cup {NoRecord}, hashload : BOOLEAN,
                     nftHash : Hashes, tokenId : Tokens])
    /\ open \in BOOLEAN /\ asks \subseteq DOMAIN tips /\ supply \in 0 .. MaxSupply
    /\ mints \in Seq([tip : DOMAIN tips, names : Files \cup {NoRecord}, token : Tokens,
                      step : {"upload", "sign", "sent", "supply", "post", "emit", "over"},
                      tx : {"none", "pool", "mined", "reverted"}, alone : BOOLEAN, newest : BOOLEAN,
                      post : [file : Files, hash : Hashes, token : Tokens] \cup {NoRecord}])
    /\ viewed \in [hash : Hashes, token : Tokens] \cup {NoRecord}

\* However old the rows are, only a file whose payment is recorded is offered for minting, and
\* only an NFT the backend has recorded is offered to view.
OfferedFits == \A f \in Files :
    /\ MintButton(rows[f]) = "mint" => f \in paid
    /\ MintButton(rows[f]) = "view" => nft[f] # NoRecord
    /\ ~(PayButton(rows[f]) = "pay" /\ MintButton(rows[f]) = "mint")

\* No two statuses of a deal are told alike, nor is a row without deals told like one with a
\* deal, but for the statuses the search page does not tell.  The colour
\* of a status is the same on both pages, if the search page has one.
StatusesTold ==
    /\ \A s, t \in DealStatuses : s # t =>
          /\ DealsTold(<<s>>) # DealsTold(<<t>>) /\ DealsTold(<<s>>) # DealsTold(<<>>)
          /\ SearchTold(s) # SearchTold(t) \/ SearchTold(s) = Nothing
    /\ \A s \in DealStatuses : Deal_color(s) \in {Task_color(s), "none"}

\* A record is sent for a mined mint only, and it names a token at least as new as that mint's.
\* If no other dialog was opened and no other mint was under way, it names the mint's own file
\* and transaction; if nobody minted in between, also its own token.
RecordsFit == \A j \in DOMAIN mints : mints[j].post # NoRecord =>
    /\ mints[j].tx = "mined" /\ mints[j].post.token \in mints[j].token .. supply
    /\ mints[j].alone =>
          mints[j].post.file = tips[mints[j].tip].mintRow /\ mints[j].post.hash = j
    /\ mints[j].newest => mints[j].post.token = mints[j].token

\* What the backend has of a file's NFT was sent by a mint.
RecordsWereSent == \A f \in Files : nft[f] # NoRecord =>
    \E j \in DOMAIN mints :
        mints[j].post = [file |-> f, hash |-> nft[f].hash, token |-> nft[f].token]


\* The search page tells every status, a failure in red.  The code does not keep this: it hides
\* those it does not know, StorageDealActive among them, and Deal_color does not know
\* DownloadFailed.
SearchTells ==
    \A s \in DealStatuses : SearchTold(s) # Nothing /\ (Task_color(s) = "red" => Deal_color(s) = "red")

\* The NFT of a file is one minted for it.  The code does not keep this: a dialog opened while
\* a mint of another file is under way gets that mint's hash, or sends its record.
NftIsOfFile == \A f \in Files : nft[f] # NoRecord =>
    /\ tips[mints[nft[f].hash].tip].mintRow = f
    /\ mints[nft[f].hash].token = nft[f].token

\* A file is minted once.  The code does not keep this: the row offers the mint until the table
\* is read again, and a closed dialog does not have it read.
MintedOnce == \A j, k \in DOMAIN mints :
    j # k /\ mints[j].tx = "mined" /\ mints[k].tx = "mined" =>
        tips[mints[j].tip].mintRow # tips[mints[k].tip].mintRow

\* The metadata of an NFT names the payment of its file.  The code does not keep this: the answer
\* for an earlier dialog is put into the form now mounted.
MetadataNamesPayment == \A j \in DOMAIN mints :
    mints[j].names \in {NoRecord, tips[mints[j].tip].mintRow}
=============================================================================
