---------------------------- MODULE SourceFiles ----------------------------
(***************************************************************************)
(* The front half of the MCS backend: source files are uploaded, their     *)
(* payment is noticed, and they are packed into car files.                 *)
(*                                                                         *)
(*   SaveFile             an HTTP request uploads a file                   *)
(*   WriteLockPayment     an HTTP request says that a file was paid        *)
(*   RecordMintInfo       an HTTP request stores the NFT of a file         *)
(*   CreateTask           a cron job: CheckSourceFilesPaid looks for the   *)
(*                        payments nobody told of, createTask packs paid   *)
(*                        files and makes a task of them on the Swan       *)
(*                        platform, until none is left                     *)
(*                                                                         *)
(* Requests run concurrently with each other and with the job.  Each reads *)
(* rows first and writes later; between the two anything can happen.       *)
(* A file counts 1 towards the minimal size of a car file.                 *)
(***************************************************************************)
EXTENDS Integers, Sequences, FiniteSets, FiniteSetsExt

CONSTANTS
    Cids,        \* payload cids of the files users have
    Uploads,     \* upload requests
    FileTypes,   \* what their forms send as file_type: SOURCE_FILE_TYPE_NORMAL or another
    Notices,     \* WriteLockPayment requests
    Mints,       \* RecordMintInfo requests
    ClientForms, \* how the requests may write the payer's address
    MinFileSize, \* config swan_task.min_file_size, in files
    MaxFaults,   \* bound: failures of calls, and crashes
    MaxCars      \* bound: tasks made

ASSUME ConstantsAssumption ==
    /\ MinFileSize \in Nat \ {0} /\ MaxFaults \in Nat /\ MaxCars \in Nat
    /\ IsFiniteSet(Uploads) /\ ClientForms \subseteq {"owner", "other"}
    /\ FileTypes \subseteq {"normal", "other"}

VARIABLES
    sourceFile,   \* the table source_file, in the order of ids
    eventLock,    \* the rows of event_lock_payment for each cid
    cars,         \* source_file_deal_file_map: the source files of each deal_file
    tasks,        \* tasks made on the Swan platform: the source files of each
    locked,       \* cids whose payment the contract holds
    everLocked,   \* history: cids whose payment was locked at some time
    aged,         \* source files uploaded 24 hours ago
    upload, notice, mint,   \* what the requests have read
    job,          \* the CreateTask job
    faults

vars == <<sourceFile, eventLock, cars, tasks, locked, everLocked, aged,
          upload, notice, mint, job, faults>>
requests == <<upload, notice, mint>>
payments == <<locked, everLocked>>

Status == {"Created", "Paid", "TaskCreated"}
Ids == DOMAIN sourceFile
RowsOf(c) == {i \in Ids : sourceFile[i].cid = c}

\* GetSourceFileByPayloadCid: the earliest row by create_at.
FirstRow(c) == CHOOSE i \in RowsOf(c) : \A j \in RowsOf(c) : sourceFile[i].at <= sourceFile[j].at

\* What an event row says: its source file, and the payer's address, either as the
\* contract gives it ("owner") or written otherwise by a client.
EventRow == [file : Nat \ {0}, from : {"owner", "other"}]

\* GetEventLockPaymentByPayloadCid: the index of one row, 0 if there is none.
EventsOf(c) == IF eventLock[c] = <<>> THEN {0} ELSE DOMAIN eventLock[c]

JobIdle == [stage |-> "idle", todo |-> {}, file |-> 0, ev |-> 0, twice |-> FALSE]

Init ==
    /\ sourceFile = <<>>
    /\ eventLock = [c \in Cids |-> <<>>]
    /\ cars = <<>> /\ tasks = <<>>
    /\ locked = {} /\ everLocked = {} /\ aged = {}
    /\ upload = [r \in Uploads |-> [stage |-> "idle"]]
    /\ notice = [r \in Notices |-> [stage |-> "idle"]]
    /\ mint = [r \in Mints |-> [stage |-> "idle"]]
    /\ job = JobIdle
    /\ faults = 0

Done == [stage |-> "done"]
Fault == faults < MaxFaults /\ faults' = faults + 1

(***************************************************************************)
(* The payment contract, seen from here, and the passing of time.          *)
(***************************************************************************)
\* The web page has the user lock a payment for a file that was uploaded.
UserLocks(c) ==
    /\ c \notin locked /\ RowsOf(c) # {}
    /\ c \notin everLocked
    /\ locked' = locked \cup {c}
    /\ everLocked' = everLocked \cup {c}
    /\ UNCHANGED <<sourceFile, eventLock, cars, tasks, aged, requests, job, faults>>

\* The payment of a packed file is refunded after its deals.
ContractRefunds(c) ==
    /\ c \in locked
    /\ \E n \in DOMAIN cars : cars[n] \cap RowsOf(c) # {}
    /\ locked' = locked \ {c}
    /\ UNCHANGED <<sourceFile, eventLock, cars, tasks, everLocked, aged, requests, job, faults>>

Age(i) ==
    /\ i \in Ids \ aged
    /\ aged' = aged \cup {i}
    /\ UNCHANGED <<sourceFile, eventLock, cars, tasks, payments, requests, job, faults>>

(***************************************************************************)
(* SaveFile.                                                               *)
(***************************************************************************)
Uploading(c) == {r \in Uploads : upload[r].stage = "new" /\ upload[r].cid = c}

\* The rows of the cid are read: only the first upload of a file makes a row, and its
\* file_type is the row's.  Its create_at is the time now, not that of the insert.
UploadRead(r, c) ==
    /\ upload[r].stage = "idle"
    /\ \E type \in FileTypes :
          upload' = [upload EXCEPT ![r] =
             IF RowsOf(c) = {}
             THEN [stage |-> "new", cid |-> c, type |-> type,
                   at |-> 1 + Max({0} \cup {upload[q].at : q \in Uploading(c)})]
             ELSE Done]
    /\ UNCHANGED <<sourceFile, eventLock, cars, tasks, payments, aged, notice, mint, job, faults>>

UploadInsert(r) ==
    /\ upload[r].stage = "new"
    /\ sourceFile' = Append(sourceFile, [cid |-> upload[r].cid, type |-> upload[r].type,
                                         status |-> "Created", at |-> upload[r].at])
    /\ upload' = [upload EXCEPT ![r] = Done]
    /\ UNCHANGED <<eventLock, cars, tasks, payments, aged, notice, mint, job, faults>>

(***************************************************************************)
(* CreateEventLockPayment: a row of the cid is looked for (ev # 0 if there *)
(* is one); then, in one transaction, that row or a new one is saved and   *)
(* the source file becomes Paid, whatever it was.  Cid and address are a   *)
(* unique key: a second row with the same is refused, the transaction      *)
(* rolled back.                                                            *)
(***************************************************************************)
CreateEventLockPayment(i, ev, from) ==
    LET c == sourceFile[i].cid
        row == [file |-> i, from |-> from]
    IN IF \E k \in DOMAIN eventLock[c] \ {ev} : eventLock[c][k].from = from
       THEN UNCHANGED <<eventLock, sourceFile>>
       ELSE /\ eventLock' = [eventLock EXCEPT ![c] =
                  IF ev = 0 THEN Append(@, row) ELSE [@ EXCEPT ![ev] = row]]
            /\ sourceFile' = [sourceFile EXCEPT ![i].status = "Paid"]

\* WriteLockPayment: the contract is asked for the payment; if it had none then, or
\* did not answer, the event is written all the same, with the address of the request.
NoticeRead(r, c) ==
    /\ notice[r].stage = "idle"
    /\ RowsOf(c) # {}
    /\ \E ev \in EventsOf(c), from \in ClientForms \cup (IF c \in locked THEN {"owner"} ELSE {}) :
          notice' = [notice EXCEPT ![r] =
                        [stage |-> "read", file |-> FirstRow(c), ev |-> ev, from |-> from]]
    /\ UNCHANGED <<sourceFile, eventLock, cars, tasks, payments, aged, upload, mint, job, faults>>

NoticeWrite(r) ==
    /\ notice[r].stage = "read"
    /\ CreateEventLockPayment(notice[r].file, notice[r].ev, notice[r].from)
    /\ notice' = [notice EXCEPT ![r] = Done]
    /\ UNCHANGED <<cars, tasks, payments, aged, upload, mint, job, faults>>

(***************************************************************************)
(* RecordMintInfo: the first row of the cid is read and saved as a whole.  *)
(***************************************************************************)
MintRead(r, c) ==
    /\ mint[r].stage = "idle"
    /\ RowsOf(c) # {}
    /\ mint' = [mint EXCEPT ![r] = [stage |-> "read", file |-> FirstRow(c), row |-> sourceFile[FirstRow(c)]]]
    /\ UNCHANGED <<sourceFile, eventLock, cars, tasks, payments, aged, upload, notice, job, faults>>

MintSave(r) ==
    /\ mint[r].stage = "read"
    /\ sourceFile' = [sourceFile EXCEPT ![mint[r].file] = mint[r].row]
    /\ mint' = [mint EXCEPT ![r] = Done]
    /\ UNCHANGED <<eventLock, cars, tasks, payments, aged, upload, notice, job, faults>>

(***************************************************************************)
(* CreateTask.                                                             *)
(***************************************************************************)
JobBegin ==
    /\ job = JobIdle
    /\ job' = [JobIdle EXCEPT !.stage = "check", !.todo = {i \in Ids : sourceFile[i].status = "Created"}]
    /\ UNCHANGED <<sourceFile, eventLock, cars, tasks, payments, aged, requests, faults>>

\* CheckSourceFilesPaid is between two files of its list, i is the next.
CheckNext(i) ==
    /\ job.stage = "check" /\ job.file = 0 /\ i \in job.todo
    /\ UNCHANGED <<sourceFile, eventLock, cars, tasks, payments, aged, requests, faults>>

CheckSkip(i) == job' = [job EXCEPT !.todo = @ \ {i}]

CheckTake(i, file) ==
    \E ev \in EventsOf(sourceFile[i].cid) :
        job' = [job EXCEPT !.todo = @ \ {i}, !.file = file, !.ev = ev]

\* Mutant: the file itself is marked, not the first row of its cid.
CheckReadItself(i) ==
    /\ CheckNext(i)
    /\ IF sourceFile[i].cid \in locked THEN CheckTake(i, i) ELSE CheckSkip(i)

\* Mutant: the answer of the contract is not looked at.
CheckReadUnpaid(i) == CheckNext(i) /\ CheckTake(i, FirstRow(sourceFile[i].cid))

\* The contract is asked; if it holds a payment the first row of the cid is read.
CheckRead(i) ==
    /\ CheckNext(i)
    /\ IF sourceFile[i].cid \in locked
       THEN CheckTake(i, FirstRow(sourceFile[i].cid))
       ELSE CheckSkip(i)

CheckWrite ==
    /\ job.stage = "check" /\ job.file # 0
    /\ CreateEventLockPayment(job.file, job.ev, "owner")
    /\ job' = [job EXCEPT !.file = 0, !.ev = 0]
    /\ UNCHANGED <<cars, tasks, payments, aged, requests, faults>>

\* The contract, the coin or the database fails: the file is skipped.
CheckFails ==
    /\ job.stage = "check" /\ job.file # 0
    /\ Fault
    /\ job' = [job EXCEPT !.file = 0, !.ev = 0]
    /\ UNCHANGED <<sourceFile, eventLock, cars, tasks, payments, aged, requests>>

EventsOfFile(i) ==
    LET rows == eventLock[sourceFile[i].cid] IN {k \in DOMAIN rows : rows[k].file = i}

\* GetSourceFilesNeed2Car: paid files of the normal type joined with the event rows that
\* point to them, so a file with two such rows is in the list twice.
Need2Car == {i \in Ids : /\ sourceFile[i].status = "Paid" /\ sourceFile[i].type = "normal"
                         /\ EventsOfFile(i) # {}}
Listed(S) == Cardinality(UNION {{i} \X EventsOfFile(i) : i \in S})

\* createTask goes through the list, in any order, until the size is MinFileSize.
Length(files) == Min({MinFileSize, Listed(files)})
Taken(files) == {S \in SUBSET files : Cardinality(S) <= Length(files) /\ Length(files) <= Listed(S)}

\* Mutant: no createAnyway.
BigEnoughWhole(S) == Cardinality(S) >= MinFileSize

\* A car file that is too small is made if one of its files waits for 24 hours.
BigEnough(S) == Cardinality(S) >= MinFileSize \/ S \cap aged # {}

Packable(files) == {S \in Taken(files) \ {{}} : BigEnough(S)}

Checked == job.stage = "check" /\ job.todo = {} /\ job.file = 0

\* The car file is made and uploaded, and a Swan task created for it.  A file that
\* cannot be copied, or has no price, is left out this time.
PackBegin(S) ==
    /\ Checked
    /\ \E left \in SUBSET Need2Car :
          LET files == Need2Car \ left
              twice == Cardinality(S) < Length(files)
          IN /\ S \in Packable(files)
             /\ Cardinality(left) <= 1
             /\ IF left = {} THEN UNCHANGED faults ELSE Fault
             /\ Len(tasks) < MaxCars \/ twice
             /\ tasks' = IF Len(tasks) < MaxCars THEN Append(tasks, S) ELSE tasks
             /\ job' = [JobIdle EXCEPT !.stage = "tasked", !.todo = S, !.twice = twice]
    /\ UNCHANGED <<sourceFile, eventLock, cars, payments, aged, requests>>

\* Nothing to pack, or too little: the job ends.
PackNothing ==
    /\ Checked
    /\ \E S \in Taken(Need2Car) : S = {} \/ ~BigEnough(S)
    /\ job' = JobIdle
    /\ UNCHANGED <<sourceFile, eventLock, cars, tasks, payments, aged, requests, faults>>

\* saveCarInfo2DB: one transaction; then createTask runs again.
PackSave ==
    /\ job.stage = "tasked" /\ ~job.twice
    /\ cars' = Append(cars, job.todo)
    /\ sourceFile' = [i \in Ids |->
          IF i \in job.todo THEN [sourceFile[i] EXCEPT !.status = "TaskCreated"] ELSE sourceFile[i]]
    /\ job' = [JobIdle EXCEPT !.stage = "check"]
    /\ UNCHANGED <<eventLock, tasks, payments, aged, requests, faults>>

\* A source file and a deal file are the key of source_file_deal_file_map: a file that
\* is in the list twice makes the transaction fail, and the job ends.
PackRefused ==
    /\ job.stage = "tasked" /\ job.twice
    /\ job' = JobIdle
    /\ UNCHANGED <<sourceFile, eventLock, cars, tasks, payments, aged, requests, faults>>

\* Mutant: not one transaction, the statuses are saved and the car file is not.
PackFailsHalfway ==
    /\ job.stage = "tasked"
    /\ Fault
    /\ job' = JobIdle
    /\ sourceFile' = [i \in Ids |->
          IF i \in job.todo THEN [sourceFile[i] EXCEPT !.status = "TaskCreated"] ELSE sourceFile[i]]
    /\ UNCHANGED <<eventLock, cars, tasks, payments, aged, requests>>

\* A call on the way to the task fails, or the transaction after it does.  The job
\* ends; a task that was made stays on the Swan platform.
PackFails ==
    /\ Checked \/ job.stage = "tasked"
    /\ Fault
    /\ job' = JobIdle
    /\ UNCHANGED <<sourceFile, eventLock, cars, tasks, payments, aged, requests>>

\* The process stops and starts again: the job and all requests are lost.
Crash ==
    /\ Fault
    /\ job' = JobIdle
    /\ upload' = [r \in Uploads |-> IF upload[r].stage = "idle" THEN upload[r] ELSE Done]
    /\ notice' = [r \in Notices |-> IF notice[r].stage = "idle" THEN notice[r] ELSE Done]
    /\ mint' = [r \in Mints |-> IF mint[r].stage = "idle" THEN mint[r] ELSE Done]
    /\ UNCHANGED <<sourceFile, eventLock, cars, tasks, payments, aged>>

CreateTask ==
    \/ JobBegin
    \/ \E i \in Ids : CheckRead(i)
    \/ CheckWrite
    \/ \E S \in SUBSET Ids : PackBegin(S)
    \/ PackNothing \/ PackSave \/ PackRefused

Next ==
    \/ \E c \in Cids : UserLocks(c) \/ ContractRefunds(c)
    \/ \E i \in Ids : Age(i)
    \/ \E r \in Uploads : UploadInsert(r) \/ \E c \in Cids : UploadRead(r, c)
    \/ \E r \in Notices : NoticeWrite(r) \/ \E c \in Cids : NoticeRead(r, c)
    \/ \E r \in Mints : MintSave(r) \/ \E c \in Cids : MintRead(r, c)
    \/ CreateTask
    \/ CheckFails \/ PackFails \/ Crash

Spec == Init /\ [][Next]_vars

\* Cron starts the job again and again, and a day passes.
FairSpec == Spec /\ WF_vars(CreateTask) /\ WF_vars(\E i \in Ids : Age(i))

(***************************************************************************)
(* Properties.                                                             *)
(***************************************************************************)

\* Rows, requests and the job hold what they should; car files and tasks consist of
\* source files that exist.
TypeOK ==
    /\ sourceFile \in Seq([cid : Cids, type : FileTypes, status : Status, at : Nat])
    /\ eventLock \in [Cids -> Seq(EventRow)]
    /\ \A c \in Cids : \A k \in DOMAIN eventLock[c] : eventLock[c][k].file \in RowsOf(c)
    /\ cars \in Seq(SUBSET Ids) /\ tasks \in Seq(SUBSET Ids)
    /\ locked \subseteq everLocked /\ everLocked \subseteq Cids
    /\ aged \subseteq Ids
    /\ upload \in [Uploads -> {[stage |-> s] : s \in {"idle", "done"}} \cup
                              [stage : {"new"}, cid : Cids, type : FileTypes, at : Nat]]
    /\ notice \in [Notices -> {[stage |-> s] : s \in {"idle", "done"}} \cup
                              [stage : {"read"}, file : Ids, ev : Nat, from : {"owner", "other"}]]
    /\ mint \in [Mints -> {[stage |-> s] : s \in {"idle", "done"}} \cup
                          [stage : {"read"}, file : Ids,
                           row : [cid : Cids, type : FileTypes, status : Status, at : Nat]]]
    /\ job \in [stage : {"idle", "check", "tasked"}, todo : SUBSET Ids,
                file : {0} \cup Ids, ev : Nat, twice : BOOLEAN]
    /\ faults \in 0 .. MaxFaults

Packed(i) == {n \in DOMAIN cars : i \in cars[n]}

\* saveCarInfo2DB (298-360) is one transaction: a source file is TaskCreated only
\* if it is in a car file, whatever row RecordMintInfo saves later.
TaskCreatedIsPacked ==
    \A i \in Ids : sourceFile[i].status = "TaskCreated" => Packed(i) # {}

\* Uploads at once can make several rows of one file, and the one with the earliest
\* create_at may be the last to be inserted.  A row that came after an earlier one is
\* never packed: every writer of event_lock_payment takes the earliest row there is.
FirstRowIsPacked ==
    \A n \in DOMAIN cars : \A i \in cars[n] :
        \A j \in RowsOf(sourceFile[i].cid) : j < i => sourceFile[j].at > sourceFile[i].at

\* A car file in the database has a task of its own on the Swan platform, and, while
\* there are no two event rows for a file, a task without car file is left over from
\* a failure after CmdTask.CreateTask.
CarsHaveTasks ==
    /\ \A n \in DOMAIN cars : Cardinality({m \in DOMAIN cars : cars[m] = cars[n]}) <=
                              Cardinality({m \in DOMAIN tasks : tasks[m] = cars[n]})
    /\ (\A c \in Cids : Len(eventLock[c]) <= 1) =>
          Len(tasks) <= Len(cars) + faults + (IF job.stage = "tasked" THEN 1 ELSE 0)

\* README.md step 4: the source files paid "but not yet created to car files" are
\* packed, so a source file is in one car file.  A late notice or a mint record has it
\* packed again: no run checks this; what is left of it is SingleRowPackedOnce, which is proved.
PackedOnce == \A i \in Ids : Cardinality(Packed(i)) <= 1

NoNotices == \A r \in Notices : notice[r].stage = "idle"
NoMints == \A r \in Mints : mint[r].stage = "idle"

\* What step 4 keeps with uploads, createTask, CheckSourceFilesPaid and crashes alone,
\* before the first notice and mint record arrive: a file of which there is one row is
\* in one car file.
SingleRowPackedOnce ==
    NoNotices /\ NoMints =>
        \A i \in Ids : RowsOf(sourceFile[i].cid) = {i} => Cardinality(Packed(i)) <= 1

\* README.md step 4: only files that were paid are packed.  WriteLockPayment marks
\* a file paid when the contract holds no payment for it; before the first notice,
\* all that is packed was paid in the contract.
PackedIsLocked == NoNotices => \A i \in Ids : Packed(i) # {} => sourceFile[i].cid \in everLocked

\* README.md step 4.2: a file that was uploaded and paid is packed in the end, also if
\* the notice of the payment is lost and however few files there are (createAnyway),
\* unless it has a row of another file_type than the normal one: UploadFile stores any,
\* the user can pay for it, GetSourceFilesNeed2Car never lists it, and a notice that read
\* it may take the event row from a normal one.
\* A notice that writes the payer's address in its own way, at the same time as
\* CheckSourceFilesPaid, makes a second event row: the file is never packed.
LockedIsPacked ==
    \A c \in Cids : (c \in locked) ~>
        \/ \E n \in DOMAIN cars : cars[n] \cap RowsOf(c) # {}
        \/ \E i \in RowsOf(c) : sourceFile[i].type # "normal"

\* What holds of files, car files and tasks, whatever fails and whoever writes.
FilesInv == TypeOK /\ TaskCreatedIsPacked /\ CarsHaveTasks
=============================================================================
