------------------------- MODULE SourceFilesProofs -------------------------
(***************************************************************************)
(* Proofs about SourceFiles: what holds of source files, car files and     *)
(* tasks whatever fails and whoever writes; only the earliest row of a     *)
(* file is packed; and what the job keeps by itself, before a notice or a  *)
(* mint record interferes.                                                 *)
(*                                                                         *)
(* The invariant says of every request, and of the job, what became of     *)
(* the rows it has read while it was on its way.                           *)
(***************************************************************************)
EXTENDS SourceFiles, SequenceTheorems, FiniteSetTheorems, WellFoundedInduction, NaturalsInduction, TLAPS

Row == [cid : Cids, type : FileTypes, status : Status, at : Nat]

\* A mint record that was read for a row is still about that row: cid and create_at never
\* change, and what was packed then is packed now.
MintRowsKnown ==
    \A r \in Mints : mint[r].stage = "read" =>
        LET row == mint[r].row
            i   == mint[r].file
        IN /\ row.cid = sourceFile[i].cid /\ row.at = sourceFile[i].at
           /\ row.status = "TaskCreated" => Packed(i) # {}

\* The rows of one cid, those about to be inserted included, have different times: only
\* uploads that found no row make one, each later than those that had begun.
TimesDiffer ==
    /\ \A i, j \in Ids : i # j /\ sourceFile[i].cid = sourceFile[j].cid => sourceFile[i].at # sourceFile[j].at
    /\ \A r \in Uploads : upload[r].stage = "new" =>
          /\ \A i \in RowsOf(upload[r].cid) : sourceFile[i].at # upload[r].at
          /\ \A q \in Uploading(upload[r].cid) : q # r => upload[q].at # upload[r].at

\* When row i was inserted it became the earliest of its cid.
First(i) == \A j \in RowsOf(sourceFile[i].cid) : j < i => sourceFile[j].at > sourceFile[i].at

\* Event rows are only ever written for the earliest row there is.
EventsOfFirst ==
    /\ \A c \in Cids : \A k \in DOMAIN eventLock[c] : First(eventLock[c][k].file)
    /\ \A r \in Notices : notice[r].stage = "read" => First(notice[r].file)
    /\ job.file # 0 => First(job.file)
    /\ job.stage = "tasked" => \A i \in job.todo : First(i)
    /\ FirstRowIsPacked

\* What the job has made a task of, and not yet saved.
InTask(S) == IF job.stage = "tasked" /\ ~job.twice /\ job.todo = S THEN 1 ELSE 0

\* Each set of source files has as many tasks as car files, one more while it is saved.
TasksForCars ==
    \A S \in SUBSET Ids :
        Cardinality({m \in DOMAIN cars : cars[m] = S}) + InTask(S)
            <= Cardinality({m \in DOMAIN tasks : tasks[m] = S})

\* Without two event rows for a file the list names no file twice, and a task without car
\* file is left over from a failure.
TasksLeftOver ==
    (\A c \in Cids : Len(eventLock[c]) <= 1) =>
        /\ job.stage = "tasked" => ~job.twice
        /\ Len(tasks) <= Len(cars) + faults + (IF job.stage = "tasked" THEN 1 ELSE 0)

\* A file of one row goes from Created to Paid to TaskCreated, and is packed in the last step.
SingleRowForward ==
    NoNotices /\ NoMints =>
        \A i \in Ids : RowsOf(sourceFile[i].cid) = {i} =>
            /\ Cardinality(Packed(i)) <= 1
            /\ Packed(i) # {} => sourceFile[i].status = "TaskCreated"
            /\ job.stage = "check" /\ (i \in job.todo \/ i = job.file) => sourceFile[i].status = "Created"
            /\ i = job.file => i \notin job.todo
            /\ job.stage = "tasked" /\ i \in job.todo => sourceFile[i].status = "Paid"

\* Before the first notice everything on the way to a car file was locked in the contract.
OnlyLocked ==
    NoNotices =>
        /\ \A c \in Cids : eventLock[c] # <<>> => c \in everLocked
        /\ job.file # 0 => sourceFile[job.file].cid \in everLocked
        /\ job.stage = "tasked" => \A i \in job.todo : sourceFile[i].cid \in everLocked
        /\ \A n \in DOMAIN cars : \A i \in cars[n] : sourceFile[i].cid \in everLocked

JobShape == job.stage \in {"idle", "tasked"} => job.file = 0

IInv ==
    /\ TypeOK /\ JobShape /\ MintRowsKnown /\ TimesDiffer
    /\ TaskCreatedIsPacked /\ TasksForCars /\ TasksLeftOver
    /\ EventsOfFirst /\ SingleRowForward /\ OnlyLocked

(***************************************************************************)
(* Least and greatest elements.                                            *)
(***************************************************************************)
LEMMA LeastNat ==
    ASSUME NEW S \in SUBSET Nat, S # {}
    PROVE  \E m \in S : \A n \in S : m <= n
<1>1. IsWellFoundedOn(OpToRel(<, Nat), Nat)
  BY NatLessThanWellFounded
<1>2. PICK m \in S : \A n \in S : ~ (<<n, m>> \in OpToRel(<, Nat))
  BY <1>1, WFMin
<1>3. \A n \in S : ~ (n < m)
  BY <1>2 DEF OpToRel
<1>4. QED
  BY <1>3

LEMMA GreatestOf ==
    ASSUME NEW S, IsFiniteSet(S), S # {}, NEW f, \A x \in S : f[x] \in Nat
    PROVE  \E x \in S : \A y \in S : f[y] <= f[x]
<1> DEFINE Bad == {T \in SUBSET S : T # {} /\ ~\E x \in T : \A y \in T : f[y] <= f[x]}
<1>1. SUFFICES ASSUME S \in Bad PROVE FALSE
  OBVIOUS
<1>2. \E T \in Bad : \A U \in Bad : ~ (<<U, T>> \in StrictSubsetOrdering(S))
  <2>1. IsWellFoundedOn(StrictSubsetOrdering(S), FiniteSubsetsOf(S))
    BY FS_StrictSubsetOrderingWellFounded
  <2>2. Bad \subseteq FiniteSubsetsOf(S) /\ Bad # {}
    BY <1>1, FS_FiniteSubsetsOfFinite
  <2> HIDE DEF Bad
  <2>3. QED
    BY <2>1, <2>2, WFMin, Zenon
<1>3. PICK T \in Bad : \A U \in Bad : U \subseteq T => U = T
  BY <1>2 DEF StrictSubsetOrdering
<1>4. PICK z \in T : TRUE
  OBVIOUS
<1>5. T \ {z} \notin Bad
  BY <1>3, <1>4
<1>6. CASE T = {z}
  <2>1. f[z] <= f[z]
    BY <1>4
  <2>2. QED
    BY <1>6, <2>1
<1>7. CASE T # {z}
  <2>1. PICK x \in T \ {z} : \A y \in T \ {z} : f[y] <= f[x]
    BY <1>4, <1>5, <1>7
  <2>2. f[x] \in Nat /\ f[z] \in Nat /\ \A y \in T : f[y] \in Nat
    BY <1>4, <2>1
  <2>3. \A y \in T : f[y] <= f[x] \/ f[y] <= f[z]
    BY <2>1, <2>2
  <2>4. (\A y \in T : f[y] <= f[x]) \/ (\A y \in T : f[y] <= f[z])
    BY <2>1, <2>2
  <2>5. QED
    BY <1>4, <2>1, <2>4
<1>8. QED
  BY <1>6, <1>7

(***************************************************************************)
(* The operators of SourceFiles.                                           *)
(***************************************************************************)
LEMMA Rows ==
    ASSUME TypeOK
    PROVE  /\ Ids = 1 .. Len(sourceFile) /\ Len(sourceFile) \in Nat
           /\ \A i \in Ids : /\ sourceFile[i] \in Row /\ sourceFile[i].cid \in Cids
                             /\ sourceFile[i].at \in Nat /\ i \in Nat /\ i # 0
           /\ \A c \in Cids : RowsOf(c) \in SUBSET Ids
<1>1. sourceFile \in Seq(Row)
  BY DEF TypeOK, Row
<1>2. Len(sourceFile) \in Nat /\ Ids = 1 .. Len(sourceFile) /\ \A i \in Ids : sourceFile[i] \in Row
  BY <1>1 DEF Ids
<1>3. \A i \in Ids : i \in Nat /\ i # 0
  BY <1>2
<1>4. QED
  BY <1>2, <1>3 DEF Row, RowsOf

LEMMA UploadShape ==
    ASSUME TypeOK, NEW r \in Uploads
    PROVE  \/ upload[r] = [stage |-> "idle"] \/ upload[r] = [stage |-> "done"]
           \/ /\ upload[r] \in [stage : {"new"}, cid : Cids, type : FileTypes, at : Nat]
              /\ upload[r].stage = "new" /\ upload[r].cid \in Cids /\ upload[r].at \in Nat
              /\ upload[r].type \in FileTypes
BY DEF TypeOK

LEMMA FirstRowOf ==
    ASSUME TypeOK, NEW c \in Cids, RowsOf(c) # {}
    PROVE  /\ FirstRow(c) \in RowsOf(c) /\ FirstRow(c) \in Ids
           /\ \A j \in RowsOf(c) : sourceFile[FirstRow(c)].at <= sourceFile[j].at
<1> DEFINE times == {sourceFile[i].at : i \in RowsOf(c)}
<1>1. times \in SUBSET Nat /\ times # {}
  BY Rows DEF RowsOf
<1>2. PICK m \in times : \A n \in times : m <= n
  <2> HIDE DEF times
  <2>1. QED
    BY <1>1, LeastNat
<1>3. \E i \in RowsOf(c) : \A j \in RowsOf(c) : sourceFile[i].at <= sourceFile[j].at
  BY <1>2
<1>4. /\ FirstRow(c) \in RowsOf(c)
      /\ \A j \in RowsOf(c) : sourceFile[FirstRow(c)].at <= sourceFile[j].at
  BY <1>3, Zenon DEF FirstRow
<1>5. QED
  BY <1>4 DEF RowsOf

\* The time of a new upload is above those of the uploads that have begun.
LEMMA NewTime ==
    ASSUME TypeOK, NEW c \in Cids
    PROVE  LET now == 1 + Max({0} \cup {upload[q].at : q \in Uploading(c)})
           IN  now \in Nat /\ \A q \in Uploading(c) : upload[q].at < now
<1> DEFINE f == [q \in Uploads |-> upload[q].at]
           S == Uploading(c)
           ats == {0} \cup {upload[q].at : q \in S}
<1>1. IsFiniteSet(S) /\ \A q \in S : f[q] \in Nat /\ f[q] = upload[q].at
  <2>1. S \in SUBSET Uploads
    BY DEF Uploading
  <2>2. \A q \in S : upload[q].at \in Nat
    <3>1. SUFFICES ASSUME NEW q \in S PROVE upload[q].at \in Nat
      OBVIOUS
    <3>2. q \in Uploads /\ upload[q].stage = "new"
      BY DEF Uploading
    <3>3. QED
      BY <3>2, UploadShape
  <2>3. QED
    BY <2>1, <2>2, ConstantsAssumption, FS_Subset
<1>2. \A n \in ats : n = 0 \/ \E q \in S : n = f[q]
  BY <1>1
<1>3. \A n \in ats : n \in Nat
  <2> HIDE DEF ats, S, f
  <2>1. QED
    BY <1>1, <1>2
<1>4. \E m \in ats : \A n \in ats : m >= n
  <2>1. CASE S = {}
    BY <2>1
  <2>2. CASE S # {}
    <3>1. \E q \in S : \A p \in S : f[p] <= f[q]
      <4> HIDE DEF S, f
      <4>1. QED
        BY <1>1, <2>2, GreatestOf
    <3>2. PICK q \in S : \A p \in S : f[p] <= f[q]
      BY <3>1
    <3>3. f[q] \in ats
      BY <1>1
    <3>4. \A n \in ats : f[q] >= n
      BY <1>1, <1>2, <3>2
    <3>5. QED
      BY <3>3, <3>4
  <2>3. QED
    BY <2>1, <2>2
<1>5. Max(ats) \in ats /\ \A n \in ats : Max(ats) >= n
  <2> HIDE DEF ats
  <2>1. QED
    BY <1>4, Zenon DEF Max
<1>6. \A q \in S : upload[q].at \in ats
  OBVIOUS
<1> DEFINE top == Max(ats)
<1>7. top \in Nat /\ \A q \in S : upload[q].at <= top
  BY <1>3, <1>5, <1>6
<1>8. 1 + top \in Nat /\ \A q \in S : upload[q].at < 1 + top
  <2>1. \A q \in S : upload[q].at \in Nat
    BY <1>1
  <2> HIDE DEF top, S
  <2>2. QED
    BY <1>7, <2>1
<1>9. QED
  BY <1>8

(***************************************************************************)
(* Rows are only appended and their cid and time never change; car files   *)
(* are only appended.                                                      *)
(***************************************************************************)
Shape == TypeOK /\ MintRowsKnown /\ JobShape /\ TaskCreatedIsPacked

RowsKept ==
    /\ Ids \subseteq Ids'
    /\ \A i \in Ids : sourceFile'[i].cid = sourceFile[i].cid /\ sourceFile'[i].at = sourceFile[i].at

LEMMA NoticeShape ==
    ASSUME TypeOK, NEW r \in Notices
    PROVE  \/ notice[r] = [stage |-> "idle"] \/ notice[r] = [stage |-> "done"]
           \/ /\ notice[r].stage = "read" /\ notice[r].file \in Ids /\ notice[r].ev \in Nat
              /\ notice[r].from \in {"owner", "other"}
              /\ notice[r] \in [stage : {"read"}, file : Ids, ev : Nat, from : {"owner", "other"}]
BY DEF TypeOK

LEMMA MintShape ==
    ASSUME TypeOK, NEW r \in Mints
    PROVE  \/ mint[r] = [stage |-> "idle"] \/ mint[r] = [stage |-> "done"]
           \/ /\ mint[r].stage = "read" /\ mint[r].file \in Ids /\ mint[r].row \in Row
              /\ mint[r] \in [stage : {"read"}, file : Ids, row : Row]
BY DEF TypeOK, Row

LEMMA EventShape ==
    ASSUME TypeOK, NEW c \in Cids
    PROVE  /\ eventLock[c] \in Seq(EventRow)
           /\ DOMAIN eventLock[c] = 1 .. Len(eventLock[c]) /\ Len(eventLock[c]) \in Nat
           /\ \A k \in DOMAIN eventLock[c] : eventLock[c][k] \in EventRow /\ eventLock[c][k].file \in RowsOf(c)
<1>1. eventLock[c] \in Seq(EventRow)
  BY DEF TypeOK
<1>2. \A k \in DOMAIN eventLock[c] : eventLock[c][k].file \in RowsOf(c)
  BY DEF TypeOK
<1>3. DOMAIN eventLock[c] = 1 .. Len(eventLock[c]) /\ Len(eventLock[c]) \in Nat
  BY <1>1
<1>4. \A k \in DOMAIN eventLock[c] : eventLock[c][k] \in EventRow
  BY <1>1, <1>3
<1>5. QED
  BY <1>1, <1>2, <1>3, <1>4

\* An insert makes row Len + 1.
LEMMA InsertRow ==
    ASSUME TypeOK, NEW r \in Uploads, UploadInsert(r)
    PROVE  LET row == [cid |-> upload[r].cid, type |-> upload[r].type, status |-> "Created", at |-> upload[r].at]
               new == Len(sourceFile) + 1
           IN  /\ upload[r].stage = "new" /\ upload[r].cid \in Cids /\ upload[r].at \in Nat
               /\ row \in Row
               /\ sourceFile' \in Seq(Row) /\ Ids' = Ids \cup {new} /\ new \notin Ids
               /\ \A i \in Ids : sourceFile'[i] = sourceFile[i]
               /\ sourceFile'[new] = row
<1> DEFINE row == [cid |-> upload[r].cid, type |-> upload[r].type, status |-> "Created", at |-> upload[r].at]
<1>1. upload[r].stage = "new" /\ upload[r].cid \in Cids /\ upload[r].at \in Nat /\ upload[r].type \in FileTypes
  BY UploadShape DEF UploadInsert
<1>2. row \in Row
  BY <1>1 DEF Row, Status
<1>3. sourceFile \in Seq(Row)
  BY DEF TypeOK, Row
<1>4. sourceFile' = Append(sourceFile, row)
  BY DEF UploadInsert
<1> HIDE DEF row
<1>5. /\ sourceFile' \in Seq(Row) /\ Len(sourceFile') = Len(sourceFile) + 1
      /\ \A i \in 1 .. Len(sourceFile) : sourceFile'[i] = sourceFile[i]
      /\ sourceFile'[Len(sourceFile) + 1] = row
  BY <1>2, <1>3, <1>4
<1>6. Ids = 1 .. Len(sourceFile) /\ Ids' = 1 .. Len(sourceFile') /\ Len(sourceFile) \in Nat
  BY <1>3, <1>5 DEF Ids
<1>7. QED
  BY <1>1, <1>2, <1>5, <1>6 DEF row

\* Steps that keep the number of rows, and each row's cid and time.
LEMMA SameRows ==
    ASSUME TypeOK, NEW f, sourceFile' = [i \in Ids |-> f[i]],
           \A i \in Ids : f[i] \in Row /\ f[i].cid = sourceFile[i].cid /\ f[i].at = sourceFile[i].at
    PROVE  sourceFile' \in Seq(Row) /\ Ids' = Ids /\ RowsKept /\ \A i \in Ids : sourceFile'[i] = f[i]
<1>1. Ids = 1 .. Len(sourceFile) /\ Len(sourceFile) \in Nat
  BY Rows
<1>2. sourceFile' \in [1 .. Len(sourceFile) -> Row]
  BY <1>1
<1>3. sourceFile' \in Seq(Row)
  BY <1>1, <1>2
<1>4. Ids' = Ids
  BY DEF Ids
<1>5. QED
  BY <1>3, <1>4 DEF RowsKept

LEMMA MintSaved ==
    ASSUME Shape, NEW r \in Mints, MintSave(r)
    PROVE  /\ mint[r].file \in Ids /\ mint[r].row \in Row /\ mint[r].stage = "read"
           /\ sourceFile' \in Seq(Row) /\ Ids' = Ids /\ RowsKept
           /\ \A i \in Ids : sourceFile'[i] = IF i = mint[r].file THEN mint[r].row ELSE sourceFile[i]
<1> DEFINE f == [i \in Ids |-> IF i = mint[r].file THEN mint[r].row ELSE sourceFile[i]]
<1>1. mint[r].stage = "read" /\ mint[r].file \in Ids /\ mint[r].row \in Row
  BY MintShape DEF Shape, MintSave
<1>2. mint[r].row.cid = sourceFile[mint[r].file].cid /\ mint[r].row.at = sourceFile[mint[r].file].at
  BY <1>1 DEF Shape, MintRowsKnown
<1>3. sourceFile' = [i \in Ids |-> f[i]]
  <2>1. sourceFile = [i \in Ids |-> sourceFile[i]]
    BY DEF Shape, TypeOK, Ids
  <2>2. sourceFile' = [sourceFile EXCEPT ![mint[r].file] = mint[r].row]
    BY DEF MintSave
  <2>3. QED
    BY <2>1, <2>2 DEF Ids
<1>4. \A i \in Ids : f[i] \in Row /\ f[i].cid = sourceFile[i].cid /\ f[i].at = sourceFile[i].at
  BY <1>1, <1>2, Rows DEF Shape
<1>5. sourceFile' \in Seq(Row) /\ Ids' = Ids /\ RowsKept /\ \A i \in Ids : sourceFile'[i] = f[i]
  <2> HIDE DEF f
  <2>1. QED
    BY <1>3, <1>4, SameRows DEF Shape
<1>6. QED
  BY <1>1, <1>5

LEMMA EventCreated ==
    ASSUME Shape, NEW i \in Ids, NEW ev, NEW from \in {"owner", "other"},
           CreateEventLockPayment(i, ev, from)
    PROVE  LET c == sourceFile[i].cid
               row == [file |-> i, from |-> from]
           IN  /\ sourceFile' \in Seq(Row) /\ Ids' = Ids /\ RowsKept
               /\ \A j \in Ids : sourceFile'[j].status \in {sourceFile[j].status, "Paid"}
               /\ \A j \in Ids : j # i => sourceFile'[j] = sourceFile[j]
               /\ eventLock' \in [Cids -> Seq(EventRow)]
               /\ \A d \in Cids : d # c => eventLock'[d] = eventLock[d]
               /\ Len(eventLock'[c]) >= Len(eventLock[c])
               /\ \A k \in DOMAIN eventLock'[c] :
                     \/ k \in DOMAIN eventLock[c] /\ eventLock'[c][k] = eventLock[c][k]
                     \/ eventLock'[c][k] = row
<1> DEFINE c == sourceFile[i].cid
           row == [file |-> i, from |-> from]
           f == [j \in Ids |-> IF j = i THEN [sourceFile[i] EXCEPT !.status = "Paid"] ELSE sourceFile[j]]
<1>1. c \in Cids /\ row \in EventRow /\ row.file = i
  BY Rows DEF Shape, EventRow
<1>2. eventLock[c] \in Seq(EventRow) /\ DOMAIN eventLock[c] = 1 .. Len(eventLock[c])
  BY <1>1, EventShape DEF Shape
<1>3. sourceFile = [j \in Ids |-> sourceFile[j]]
  BY DEF Shape, TypeOK, Ids
<1>4. CASE UNCHANGED <<eventLock, sourceFile>>
  BY <1>1, <1>4 DEF Shape, TypeOK, Row, RowsKept, Ids
<1>5. CASE /\ eventLock' = [eventLock EXCEPT ![c] = IF ev = 0 THEN Append(@, row) ELSE [@ EXCEPT ![ev] = row]]
           /\ sourceFile' = [sourceFile EXCEPT ![i].status = "Paid"]
  <2>1. sourceFile' = [j \in Ids |-> f[j]]
    BY <1>3, <1>5 DEF Ids
  <2>2. \A j \in Ids : /\ f[j] \in Row /\ f[j].cid = sourceFile[j].cid /\ f[j].at = sourceFile[j].at
                       /\ f[j].status \in {sourceFile[j].status, "Paid"}
                       /\ j # i => f[j] = sourceFile[j]
    BY Rows DEF Shape, Row, Status
  <2>3. sourceFile' \in Seq(Row) /\ Ids' = Ids /\ RowsKept /\ \A j \in Ids : sourceFile'[j] = f[j]
    <3> HIDE DEF f
    <3>1. QED
      BY <2>1, <2>2, SameRows DEF Shape
  <2>4. /\ eventLock'[c] = IF ev = 0 THEN Append(eventLock[c], row) ELSE [eventLock[c] EXCEPT ![ev] = row]
        /\ \A d \in Cids : d # c => eventLock'[d] = eventLock[d]
        /\ eventLock' = [d \in Cids |-> eventLock'[d]]
    BY <1>1, <1>5 DEF Shape, TypeOK
  <2>5. /\ eventLock'[c] \in Seq(EventRow)
        /\ Len(eventLock'[c]) >= Len(eventLock[c])
        /\ \A k \in DOMAIN eventLock'[c] :
              \/ k \in DOMAIN eventLock[c] /\ eventLock'[c][k] = eventLock[c][k]
              \/ eventLock'[c][k] = row
    <3> HIDE DEF c, row
    <3>1. CASE ev = 0
      BY <1>1, <1>2, <2>4, <3>1
    <3>2. CASE ev # 0 /\ ev \in 1 .. Len(eventLock[c])
      BY <1>1, <1>2, <2>4, <3>2
    <3>3. CASE ev # 0 /\ ev \notin DOMAIN eventLock[c]
      <4>1. [eventLock[c] EXCEPT ![ev] = row] = eventLock[c]
        BY <1>2, <3>3
      <4>2. eventLock'[c] = eventLock[c]
        BY <2>4, <3>3, <4>1
      <4>3. Len(eventLock'[c]) = Len(eventLock[c]) /\ Len(eventLock[c]) \in Nat
        BY <1>2, <4>2
      <4>4. QED
        BY <1>2, <4>2, <4>3
    <3>4. QED
      BY <1>2, <3>1, <3>2, <3>3
  <2>6. eventLock' \in [Cids -> Seq(EventRow)]
    <3>1. \A d \in Cids : eventLock'[d] \in Seq(EventRow)
      BY <2>4, <2>5, EventShape DEF Shape
    <3>2. QED
      BY <2>4, <3>1
  <2>7. QED
    BY <2>2, <2>3, <2>4, <2>5, <2>6
<1>6. QED
  BY <1>4, <1>5 DEF CreateEventLockPayment

(***************************************************************************)
(* The types of the requests, of the job and of what it made, for any set  *)
(* of rows.                                                                *)
(***************************************************************************)
UploadTypes == [Uploads -> {[stage |-> s] : s \in {"idle", "done"}} \cup
                           [stage : {"new"}, cid : Cids, type : FileTypes, at : Nat]]
NoticeTypes(S) == [Notices -> {[stage |-> s] : s \in {"idle", "done"}} \cup
                              [stage : {"read"}, file : S, ev : Nat, from : {"owner", "other"}]]
MintTypes(S) == [Mints -> {[stage |-> s] : s \in {"idle", "done"}} \cup
                          [stage : {"read"}, file : S, row : Row]]
JobTypes(S) == [stage : {"idle", "check", "tasked"}, todo : SUBSET S,
                file : {0} \cup S, ev : Nat, twice : BOOLEAN]

EventsKnown == \A c \in Cids : \A k \in DOMAIN eventLock[c] : eventLock[c][k].file \in RowsOf(c)

\* TypeOK in these terms.
Types ==
    /\ sourceFile \in Seq(Row) /\ eventLock \in [Cids -> Seq(EventRow)] /\ EventsKnown
    /\ cars \in Seq(SUBSET Ids) /\ tasks \in Seq(SUBSET Ids) /\ aged \subseteq Ids
    /\ locked \subseteq everLocked /\ everLocked \subseteq Cids
    /\ upload \in UploadTypes /\ notice \in NoticeTypes(Ids) /\ mint \in MintTypes(Ids)
    /\ job \in JobTypes(Ids) /\ faults \in 0 .. MaxFaults

LEMMA TypeParts == (TypeOK <=> Types) /\ (TypeOK' <=> Types')
BY Zenon DEF Types, TypeOK, Row, EventsKnown, UploadTypes, NoticeTypes, MintTypes, JobTypes

LEMMA MoreIds ==
    ASSUME NEW S, NEW T, S \subseteq T
    PROVE  /\ NoticeTypes(S) \subseteq NoticeTypes(T) /\ MintTypes(S) \subseteq MintTypes(T)
           /\ JobTypes(S) \subseteq JobTypes(T) /\ Seq(SUBSET S) \subseteq Seq(SUBSET T)
<1>1. NoticeTypes(S) \subseteq NoticeTypes(T)
  BY DEF NoticeTypes
<1>2. MintTypes(S) \subseteq MintTypes(T)
  BY DEF MintTypes
<1>3. JobTypes(S) \subseteq JobTypes(T)
  BY DEF JobTypes
<1>4. Seq(SUBSET S) \subseteq Seq(SUBSET T)
  <2>1. SUBSET S \subseteq SUBSET T
    OBVIOUS
  <2>2. \A s \in Seq(SUBSET S) : s \in Seq(SUBSET T)
    <3>1. SUFFICES ASSUME NEW s \in Seq(SUBSET S) PROVE s \in Seq(SUBSET T)
      OBVIOUS
    <3>2. s \in [1 .. Len(s) -> SUBSET S] /\ Len(s) \in Nat
      OBVIOUS
    <3>3. s \in [1 .. Len(s) -> SUBSET T]
      BY <2>1, <3>2
    <3>4. QED
      BY <3>2, <3>3
  <2>3. QED
    BY <2>2
<1>5. QED
  BY <1>1, <1>2, <1>3, <1>4

\* What is left alone keeps its type when rows are kept.
LEMMA KeptTypes ==
    ASSUME Shape, RowsKept
    PROVE  /\ cars \in Seq(SUBSET Ids') /\ tasks \in Seq(SUBSET Ids') /\ aged \subseteq Ids'
           /\ notice \in NoticeTypes(Ids') /\ mint \in MintTypes(Ids') /\ job \in JobTypes(Ids')
           /\ \A c \in Cids : RowsOf(c) \subseteq RowsOf(c)'
           /\ eventLock' = eventLock => EventsKnown'
<1>1. Ids \subseteq Ids'
  BY DEF RowsKept
<1>2. \A c \in Cids : RowsOf(c) \subseteq RowsOf(c)'
  BY <1>1 DEF RowsKept, RowsOf
<1>3. EventsKnown
  BY TypeParts DEF Shape, Types
<1>4. eventLock' = eventLock => EventsKnown'
  BY <1>2, <1>3 DEF EventsKnown
<1>5. QED
  BY <1>1, <1>2, <1>4, TypeParts, MoreIds DEF Shape, Types

CarsKept == DOMAIN cars \subseteq DOMAIN cars' /\ \A n \in DOMAIN cars : cars'[n] = cars[n]

LEMMA PackedKept ==
    ASSUME CarsKept, NEW i, Packed(i) # {}
    PROVE  Packed(i)' # {}
BY DEF CarsKept, Packed

\* What was read for a mint record stays right.
LEMMA MintKept ==
    ASSUME Shape, RowsKept, CarsKept,
           \A r \in Mints : mint'[r].stage = "read" => mint'[r] = mint[r]
    PROVE  MintRowsKnown'
<1>1. SUFFICES ASSUME NEW r \in Mints, mint'[r].stage = "read"
               PROVE  /\ mint'[r].row.cid = sourceFile'[mint'[r].file].cid
                      /\ mint'[r].row.at = sourceFile'[mint'[r].file].at
                      /\ mint'[r].row.status = "TaskCreated" =>
                            \E n \in DOMAIN cars' : mint'[r].file \in cars'[n]
  BY DEF MintRowsKnown, Packed
<1>2. mint'[r] = mint[r] /\ mint[r].stage = "read"
  BY <1>1
<1>3. mint[r].file \in Ids
  BY <1>2, MintShape DEF Shape
<1>4. /\ mint[r].row.cid = sourceFile[mint[r].file].cid
      /\ mint[r].row.at = sourceFile[mint[r].file].at
      /\ mint[r].row.status = "TaskCreated" => Packed(mint[r].file) # {}
  BY <1>2 DEF Shape, MintRowsKnown
<1>5. (\E n \in DOMAIN cars : mint[r].file \in cars[n]) => \E n \in DOMAIN cars' : mint[r].file \in cars'[n]
  BY DEF CarsKept
<1>6. QED
  BY <1>2, <1>3, <1>4, <1>5 DEF RowsKept, Packed

\* A file stays TaskCreated, or becomes so again, only if it is packed.
LEMMA TaskCreatedKept ==
    ASSUME Shape, CarsKept,
           \A i \in Ids' : sourceFile'[i].status = "TaskCreated" =>
              (i \in Ids /\ sourceFile[i].status = "TaskCreated") \/ Packed(i) # {}
    PROVE  TaskCreatedIsPacked'
<1>1. SUFFICES ASSUME NEW i \in Ids', sourceFile'[i].status = "TaskCreated"
               PROVE  \E n \in DOMAIN cars' : i \in cars'[n]
  BY DEF TaskCreatedIsPacked, Packed
<1>2. Packed(i) # {}
  BY <1>1 DEF Shape, TaskCreatedIsPacked
<1>3. QED
  BY <1>2 DEF Packed, CarsKept

LEMMA JobIdleShape == ASSUME NEW S PROVE JobIdle \in JobTypes(S) /\ JobIdle.file = 0 /\ JobIdle.stage = "idle"
BY DEF JobIdle, JobTypes

LEMMA FaultTypes == ASSUME faults \in 0 .. MaxFaults, Fault PROVE faults' \in 0 .. MaxFaults
BY ConstantsAssumption DEF Fault

(***************************************************************************)
(* The shape of the state is kept, one lemma for each kind of step.        *)
(***************************************************************************)
\* Steps that leave the tables of files and car files and the mint records alone.
LEMMA QuietShape ==
    ASSUME Shape, UNCHANGED <<sourceFile, eventLock, cars, mint>>,
           tasks' \in Seq(SUBSET Ids), aged' \subseteq Ids,
           locked' \subseteq everLocked', everLocked' \subseteq Cids,
           upload' \in UploadTypes, notice' \in NoticeTypes(Ids), job' \in JobTypes(Ids),
           JobShape', faults' \in 0 .. MaxFaults
    PROVE  Shape' /\ RowsKept /\ CarsKept
<1>1. RowsKept /\ CarsKept
  BY DEF RowsKept, CarsKept, Ids
<1>2. Ids' = Ids
  BY DEF Ids
<1>3. EventsKnown'
  BY <1>1, KeptTypes
<1>4. TypeOK'
  BY <1>2, <1>3, TypeParts DEF Shape, Types
<1>5. MintRowsKnown'
  BY <1>1, MintKept
<1>6. TaskCreatedIsPacked'
  BY <1>1, <1>2, TaskCreatedKept
<1>7. QED
  BY <1>1, <1>4, <1>5, <1>6 DEF Shape

LEMMA ContractShape ==
    ASSUME Shape, NEW c \in Cids, UserLocks(c) \/ ContractRefunds(c)
    PROVE  Shape' /\ RowsKept /\ CarsKept
<1>1. locked' \subseteq everLocked' /\ everLocked' \subseteq Cids
  BY TypeParts DEF Shape, Types, UserLocks, ContractRefunds
<1>2. UNCHANGED <<sourceFile, eventLock, cars, tasks, aged, upload, notice, mint, job, faults>>
  BY DEF UserLocks, ContractRefunds, requests
<1>3. JobShape'
  BY <1>2 DEF Shape, JobShape
<1>4. QED
  BY <1>1, <1>2, <1>3, TypeParts, QuietShape DEF Shape, Types

LEMMA AgeShape ==
    ASSUME Shape, NEW i \in Ids, Age(i)
    PROVE  Shape' /\ RowsKept /\ CarsKept
<1>1. aged' \subseteq Ids
  BY TypeParts DEF Shape, Types, Age
<1>2. UNCHANGED <<sourceFile, eventLock, cars, tasks, locked, everLocked, upload, notice, mint, job, faults>>
  BY DEF Age, payments, requests
<1>3. JobShape'
  BY <1>2 DEF Shape, JobShape
<1>4. QED
  BY <1>1, <1>2, <1>3, TypeParts, QuietShape DEF Shape, Types

LEMMA UploadReadShape ==
    ASSUME Shape, NEW r \in Uploads, NEW c \in Cids, UploadRead(r, c)
    PROVE  Shape' /\ RowsKept /\ CarsKept
<1> DEFINE now == 1 + Max({0} \cup {upload[q].at : q \in Uploading(c)})
<1>1. now \in Nat
  BY NewTime DEF Shape
<1>2. PICK type \in FileTypes :
         upload' = [upload EXCEPT ![r] =
            IF RowsOf(c) = {} THEN [stage |-> "new", cid |-> c, type |-> type, at |-> now] ELSE Done]
  BY DEF UploadRead
<1> HIDE DEF now
<1>3. upload' \in UploadTypes
  BY <1>1, <1>2, TypeParts DEF Shape, Types, UploadTypes, Done
<1>4. UNCHANGED <<sourceFile, eventLock, cars, tasks, locked, everLocked, aged, notice, mint, job, faults>>
  BY DEF UploadRead, payments
<1>5. JobShape'
  BY <1>4 DEF Shape, JobShape
<1>6. QED
  BY <1>3, <1>4, <1>5, TypeParts, QuietShape DEF Shape, Types

LEMMA NoticeReadShape ==
    ASSUME Shape, NEW r \in Notices, NEW c \in Cids, NoticeRead(r, c)
    PROVE  Shape' /\ RowsKept /\ CarsKept
<1>1. PICK ev \in EventsOf(c), from \in ClientForms \cup (IF c \in locked THEN {"owner"} ELSE {}) :
          notice' = [notice EXCEPT ![r] = [stage |-> "read", file |-> FirstRow(c), ev |-> ev, from |-> from]]
  BY DEF NoticeRead
<1>2. ev \in Nat
  BY EventShape DEF EventsOf, Shape
<1>3. from \in {"owner", "other"}
  BY ConstantsAssumption
<1>4. FirstRow(c) \in Ids
  BY FirstRowOf DEF Shape, NoticeRead
<1>5. notice' \in NoticeTypes(Ids)
  BY <1>1, <1>2, <1>3, <1>4, TypeParts DEF Shape, Types, NoticeTypes
<1>6. UNCHANGED <<sourceFile, eventLock, cars, tasks, locked, everLocked, aged, upload, mint, job, faults>>
  BY DEF NoticeRead, payments
<1>7. JobShape'
  BY <1>6 DEF Shape, JobShape
<1>8. QED
  BY <1>5, <1>6, <1>7, TypeParts, QuietShape DEF Shape, Types

LEMMA MintReadShape ==
    ASSUME Shape, NEW r \in Mints, NEW c \in Cids, MintRead(r, c)
    PROVE  Shape' /\ RowsKept /\ CarsKept
<1> DEFINE i == FirstRow(c)
           read == [stage |-> "read", file |-> i, row |-> sourceFile[i]]
<1>1. i \in Ids /\ sourceFile[i] \in Row
  BY FirstRowOf, Rows DEF Shape, MintRead
<1>2. mint' = [mint EXCEPT ![r] = read]
  BY DEF MintRead
<1> HIDE DEF i
<1>3. mint' \in MintTypes(Ids)
  BY <1>1, <1>2, TypeParts DEF Shape, Types, MintTypes
<1>4. UNCHANGED <<sourceFile, eventLock, cars, tasks, locked, everLocked, aged, upload, notice, job, faults>>
  BY DEF MintRead, payments
<1>5. RowsKept /\ CarsKept /\ Ids' = Ids /\ JobShape'
  BY <1>4 DEF RowsKept, CarsKept, Ids, Shape, JobShape
<1>6. EventsKnown'
  BY <1>4, <1>5, KeptTypes
<1>7. TypeOK'
  BY <1>3, <1>4, <1>5, <1>6, TypeParts DEF Shape, Types
<1>8. MintRowsKnown'
  <2>1. SUFFICES ASSUME NEW q \in Mints, mint'[q].stage = "read"
                 PROVE  /\ mint'[q].row.cid = sourceFile[mint'[q].file].cid
                        /\ mint'[q].row.at = sourceFile[mint'[q].file].at
                        /\ mint'[q].row.status = "TaskCreated" =>
                              \E n \in DOMAIN cars : mint'[q].file \in cars[n]
    BY <1>4 DEF MintRowsKnown, Packed
  <2>2. CASE q = r
    <3>1. mint'[q] = read
      BY <1>2, <2>2, TypeParts DEF Shape, Types, MintTypes
    <3>2. sourceFile[i].status = "TaskCreated" => \E n \in DOMAIN cars : i \in cars[n]
      BY <1>1 DEF Shape, TaskCreatedIsPacked, Packed
    <3>3. QED
      BY <3>1, <3>2
  <2>3. CASE q # r
    <3>1. mint'[q] = mint[q]
      BY <1>2, <2>3, TypeParts DEF Shape, Types, MintTypes
    <3>2. QED
      BY <2>1, <3>1 DEF Shape, MintRowsKnown, Packed
  <2>4. QED
    BY <2>2, <2>3
<1>9. TaskCreatedIsPacked'
  BY <1>4, <1>5, TaskCreatedKept
<1>10. QED
  BY <1>5, <1>7, <1>8, <1>9 DEF Shape

LEMMA InsertShape ==
    ASSUME Shape, NEW r \in Uploads, UploadInsert(r)
    PROVE  Shape' /\ RowsKept /\ CarsKept
<1>1. RowsKept /\ sourceFile' \in Seq(Row)
  BY InsertRow DEF RowsKept, Shape
<1>2. upload' \in UploadTypes
  BY TypeParts DEF Shape, Types, UploadInsert, UploadTypes, Done
<1>3. UNCHANGED <<eventLock, cars, tasks, locked, everLocked, aged, notice, mint, job, faults>>
  BY DEF UploadInsert, payments
<1>4. CarsKept /\ JobShape'
  BY <1>3 DEF CarsKept, Shape, JobShape
<1>5. TypeOK'
  BY <1>1, <1>2, <1>3, KeptTypes, TypeParts DEF Shape, Types
<1>6. MintRowsKnown'
  BY <1>1, <1>3, <1>4, MintKept
<1>7. TaskCreatedIsPacked'
  <2>1. \A i \in Ids' : (i \in Ids /\ sourceFile'[i] = sourceFile[i]) \/ sourceFile'[i].status = "Created"
    <3> DEFINE row == [cid |-> upload[r].cid, type |-> upload[r].type, status |-> "Created", at |-> upload[r].at]
               new == Len(sourceFile) + 1
    <3>1. row.status = "Created"
      OBVIOUS
    <3>2. /\ Ids' = Ids \cup {new} /\ \A i \in Ids : sourceFile'[i] = sourceFile[i]
          /\ sourceFile'[new] = row
      BY InsertRow DEF Shape
    <3> HIDE DEF row, new
    <3>3. QED
      BY <3>1, <3>2
  <2>2. QED
    BY <1>4, <2>1, TaskCreatedKept
<1>8. QED
  BY <1>1, <1>4, <1>5, <1>6, <1>7 DEF Shape

LEMMA MintSaveShape ==
    ASSUME Shape, NEW r \in Mints, MintSave(r)
    PROVE  Shape' /\ RowsKept /\ CarsKept
<1>1. RowsKept /\ sourceFile' \in Seq(Row) /\ Ids' = Ids
  BY MintSaved
<1>2. mint' = [mint EXCEPT ![r] = Done]
  BY DEF MintSave
<1>3. mint' \in MintTypes(Ids)
  BY <1>2, TypeParts DEF Shape, Types, MintTypes, Done
<1>4. UNCHANGED <<eventLock, cars, tasks, locked, everLocked, aged, upload, notice, job, faults>>
  BY DEF MintSave, payments
<1>5. CarsKept /\ JobShape'
  BY <1>4 DEF CarsKept, Shape, JobShape
<1>6. TypeOK'
  BY <1>1, <1>3, <1>4, KeptTypes, TypeParts DEF Shape, Types
<1>7. \A q \in Mints : mint'[q].stage = "read" => mint'[q] = mint[q]
  BY <1>2, TypeParts DEF Shape, Types, MintTypes, Done
<1>8. MintRowsKnown'
  BY <1>1, <1>5, <1>7, MintKept
<1>9. TaskCreatedIsPacked'
  <2>1. \A i \in Ids : sourceFile'[i] = IF i = mint[r].file THEN mint[r].row ELSE sourceFile[i]
    BY MintSaved
  <2>2. mint[r].row.status = "TaskCreated" => Packed(mint[r].file) # {}
    BY MintSaved DEF Shape, MintRowsKnown
  <2>3. QED
    BY <1>1, <1>5, <2>1, <2>2, TaskCreatedKept
<1>10. QED
  BY <1>1, <1>5, <1>6, <1>8, <1>9 DEF Shape

\* NoticeWrite and CheckWrite: what CreateEventLockPayment does to the tables.
LEMMA EventShapeKept ==
    ASSUME Shape, NEW i \in Ids, NEW ev,
           NEW from \in {"owner", "other"}, CreateEventLockPayment(i, ev, from),
           UNCHANGED <<cars, tasks, locked, everLocked, aged, upload, mint, faults>>,
           notice' \in NoticeTypes(Ids), job' \in JobTypes(Ids), JobShape'
    PROVE  Shape' /\ RowsKept /\ CarsKept
<1> DEFINE c == sourceFile[i].cid
           row == [file |-> i, from |-> from]
<1>1. /\ sourceFile' \in Seq(Row) /\ Ids' = Ids /\ RowsKept
      /\ eventLock' \in [Cids -> Seq(EventRow)]
      /\ \A d \in Cids : d # c => eventLock'[d] = eventLock[d]
      /\ \A k \in DOMAIN eventLock'[c] :
            \/ k \in DOMAIN eventLock[c] /\ eventLock'[c][k] = eventLock[c][k]
            \/ eventLock'[c][k] = row
  BY EventCreated
<1>2. EventsKnown'
  <2>1. SUFFICES ASSUME NEW d \in Cids, NEW k \in DOMAIN eventLock'[d]
                 PROVE  eventLock'[d][k].file \in RowsOf(d)'
    BY DEF EventsKnown
  <2>2. RowsOf(d) \subseteq RowsOf(d)'
    BY <1>1, KeptTypes
  <2>3. CASE d # c
    BY <1>1, <2>2, <2>3, TypeParts DEF Shape, Types, EventsKnown
  <2>4. CASE d = c
    <3>1. i \in RowsOf(c)
      BY DEF RowsOf
    <3>2. CASE k \in DOMAIN eventLock[c] /\ eventLock'[c][k] = eventLock[c][k]
      BY <2>1, <2>2, <2>4, <3>2, TypeParts DEF Shape, Types, EventsKnown
    <3>3. CASE eventLock'[c][k] = row
      <4>1. eventLock'[d][k].file = i
        BY <2>4, <3>3
      <4> HIDE DEF c, row
      <4>2. QED
        BY <2>2, <2>4, <3>1, <4>1
    <3>4. QED
      BY <1>1, <2>1, <2>4, <3>2, <3>3
  <2>5. QED
    BY <2>3, <2>4
<1>3. CarsKept
  BY DEF CarsKept
<1>4. TypeOK'
  BY <1>1, <1>2, KeptTypes, TypeParts DEF Shape, Types
<1>5. MintRowsKnown'
  BY <1>1, <1>3, MintKept
<1>6. TaskCreatedIsPacked'
  BY <1>1, <1>3, EventCreated, TaskCreatedKept
<1>7. QED
  BY <1>1, <1>3, <1>4, <1>5, <1>6 DEF Shape

LEMMA NoticeWriteShape ==
    ASSUME Shape, NEW r \in Notices, NoticeWrite(r)
    PROVE  Shape' /\ RowsKept /\ CarsKept
<1>1. notice[r].file \in Ids /\ notice[r].from \in {"owner", "other"}
  BY NoticeShape DEF Shape, NoticeWrite
<1>2. CreateEventLockPayment(notice[r].file, notice[r].ev, notice[r].from)
  BY DEF NoticeWrite
<1>3. notice' \in NoticeTypes(Ids)
  BY TypeParts DEF Shape, Types, NoticeWrite, NoticeTypes, Done
<1>4. UNCHANGED <<cars, tasks, locked, everLocked, aged, upload, mint, job, faults>>
  BY DEF NoticeWrite, payments
<1>5. job' \in JobTypes(Ids) /\ JobShape'
  BY <1>4, TypeParts DEF Shape, Types, JobShape
<1>6. QED
  BY <1>1, <1>2, <1>3, <1>4, <1>5, EventShapeKept

LEMMA JobOf ==
    ASSUME Shape
    PROVE  /\ job \in [stage : {"idle", "check", "tasked"}, todo : SUBSET Ids,
                       file : {0} \cup Ids, ev : Nat, twice : BOOLEAN]
           /\ job.todo \in SUBSET Ids /\ job.file \in {0} \cup Ids /\ job.ev \in Nat
BY DEF Shape, TypeOK

\* Steps of the job that leave all tables but that of tasks alone.
LEMMA JobQuietShape ==
    ASSUME Shape, UNCHANGED <<sourceFile, eventLock, cars, locked, everLocked, aged, upload, notice, mint>>,
           tasks' \in Seq(SUBSET Ids), job' \in JobTypes(Ids), JobShape', faults' \in 0 .. MaxFaults
    PROVE  Shape' /\ RowsKept /\ CarsKept
BY TypeParts, QuietShape DEF Shape, Types

LEMMA JobBeginShape ==
    ASSUME Shape, JobBegin
    PROVE  Shape' /\ RowsKept /\ CarsKept
<1>1. job' \in JobTypes(Ids) /\ JobShape'
  BY DEF JobBegin, JobIdle, JobTypes, JobShape
<1>2. QED
  BY <1>1, JobQuietShape, TypeParts DEF Shape, Types, JobBegin, payments, requests

LEMMA CheckReadShape ==
    ASSUME Shape, NEW i \in Ids, CheckRead(i)
    PROVE  Shape' /\ RowsKept /\ CarsKept
<1> DEFINE c == sourceFile[i].cid
<1>1. c \in Cids /\ i \in RowsOf(c) /\ FirstRow(c) \in Ids
  BY Rows, FirstRowOf DEF Shape, RowsOf
<1>2. EventsOf(c) \subseteq Nat
  BY <1>1, EventShape DEF EventsOf, Shape
<1>3. job.stage = "check" /\ (CheckTake(i, FirstRow(c)) \/ CheckSkip(i))
  BY DEF CheckRead, CheckNext
<1> HIDE DEF c
<1>4. CASE CheckSkip(i)
  <2>1. job' \in JobTypes(Ids) /\ job'.stage = "check"
    BY <1>3, <1>4, JobOf DEF CheckSkip, JobTypes
  <2>2. QED
    BY <2>1, JobQuietShape, TypeParts DEF Shape, Types, CheckRead, CheckNext, payments, requests, JobShape
<1>5. CASE CheckTake(i, FirstRow(c))
  <2>1. PICK ev \in EventsOf(c) : job' = [job EXCEPT !.todo = @ \ {i}, !.file = FirstRow(c), !.ev = ev]
    BY <1>5 DEF CheckTake, c
  <2>2. job' \in JobTypes(Ids) /\ job'.stage = "check"
    BY <1>1, <1>2, <1>3, <2>1, JobOf DEF JobTypes
  <2>3. QED
    BY <2>2, JobQuietShape, TypeParts DEF Shape, Types, CheckRead, CheckNext, payments, requests, JobShape
<1>6. QED
  BY <1>3, <1>4, <1>5

LEMMA CheckWriteShape ==
    ASSUME Shape, CheckWrite
    PROVE  Shape' /\ RowsKept /\ CarsKept
<1>1. job.stage = "check" /\ job.file \in Ids /\ CreateEventLockPayment(job.file, job.ev, "owner")
  BY JobOf DEF CheckWrite
<1>2. job' \in JobTypes(Ids) /\ job'.stage = "check"
  BY <1>1, JobOf DEF JobTypes, CheckWrite
<1>3. JobShape'
  BY <1>2 DEF JobShape
<1>4. UNCHANGED <<cars, tasks, locked, everLocked, aged, upload, notice, mint, faults>>
  BY DEF CheckWrite, payments, requests
<1>5. notice' \in NoticeTypes(Ids)
  BY <1>4, TypeParts DEF Shape, Types
<1>6. QED
  BY <1>1, <1>2, <1>3, <1>4, <1>5, EventShapeKept

LEMMA CheckFailsShape ==
    ASSUME Shape, CheckFails
    PROVE  Shape' /\ RowsKept /\ CarsKept
<1>1. job' \in JobTypes(Ids) /\ job'.stage = "check" /\ job'.file = 0
  BY JobOf DEF JobTypes, CheckFails
<1>2. faults' \in 0 .. MaxFaults
  BY FaultTypes, TypeParts DEF Shape, Types, CheckFails
<1>3. QED
  BY <1>1, <1>2, JobQuietShape, TypeParts DEF Shape, Types, CheckFails, payments, requests, JobShape

LEMMA PackBeginShape ==
    ASSUME Shape, NEW S \in SUBSET Ids, PackBegin(S)
    PROVE  Shape' /\ RowsKept /\ CarsKept
<1>1. PICK twice \in BOOLEAN : job' = [JobIdle EXCEPT !.stage = "tasked", !.todo = S, !.twice = twice]
  <2>1. PICK left \in SUBSET Need2Car :
           job' = [JobIdle EXCEPT !.stage = "tasked", !.todo = S,
                                  !.twice = (Cardinality(S) < Length(Need2Car \ left))]
    BY DEF PackBegin
  <2>2. (Cardinality(S) < Length(Need2Car \ left)) \in BOOLEAN
    OBVIOUS
  <2>3. QED
    BY <2>1, <2>2
<1>2. job' \in JobTypes(Ids) /\ job'.file = 0
  BY <1>1 DEF JobTypes, JobIdle
<1>3. tasks' \in Seq(SUBSET Ids)
  BY TypeParts DEF PackBegin, Shape, Types
<1>4. faults' \in 0 .. MaxFaults
  BY FaultTypes, TypeParts DEF Shape, Types, PackBegin
<1>5. QED
  BY <1>2, <1>3, <1>4, JobQuietShape DEF PackBegin, payments, requests, JobShape

LEMMA JobEndsShape ==
    ASSUME Shape, PackNothing \/ PackRefused \/ PackFails
    PROVE  Shape' /\ RowsKept /\ CarsKept
<1>1. job' = JobIdle /\ UNCHANGED <<sourceFile, eventLock, cars, tasks, locked, everLocked, aged, upload, notice, mint>>
  BY DEF PackNothing, PackRefused, PackFails, payments, requests
<1>2. faults' \in 0 .. MaxFaults
  BY FaultTypes, TypeParts DEF Shape, Types, PackNothing, PackRefused, PackFails
<1>3. QED
  BY <1>1, <1>2, JobIdleShape, JobQuietShape, TypeParts DEF Shape, Types, JobShape

\* saveCarInfo2DB: the files of the task become TaskCreated, and the car file is new.
LEMMA Saved ==
    ASSUME Shape, PackSave
    PROVE  /\ RowsKept /\ Ids' = Ids /\ sourceFile' \in Seq(Row)
           /\ \A i \in Ids : sourceFile'[i] = IF i \in job.todo
                 THEN [sourceFile[i] EXCEPT !.status = "TaskCreated"] ELSE sourceFile[i]
           /\ cars' \in Seq(SUBSET Ids) /\ DOMAIN cars' = DOMAIN cars \cup {Len(cars) + 1}
           /\ Len(cars') = Len(cars) + 1 /\ Len(cars) \in Nat
           /\ Len(cars) + 1 \notin DOMAIN cars
           /\ CarsKept /\ cars'[Len(cars) + 1] = job.todo
<1> DEFINE f == [i \in Ids |-> IF i \in job.todo THEN [sourceFile[i] EXCEPT !.status = "TaskCreated"]
                               ELSE sourceFile[i]]
<1>1. \A i \in Ids : f[i] \in Row /\ f[i].cid = sourceFile[i].cid /\ f[i].at = sourceFile[i].at
  BY Rows DEF Shape, Row, Status
<1>2. sourceFile' = [i \in Ids |-> f[i]]
  BY DEF PackSave
<1>3. sourceFile' \in Seq(Row) /\ Ids' = Ids /\ RowsKept /\ \A i \in Ids : sourceFile'[i] = f[i]
  <2> HIDE DEF f
  <2>1. QED
    BY <1>1, <1>2, SameRows DEF Shape
<1>4. cars \in Seq(SUBSET Ids) /\ job.todo \in SUBSET Ids /\ cars' = Append(cars, job.todo)
  BY JobOf, TypeParts DEF Shape, Types, PackSave
<1>5. /\ cars' \in Seq(SUBSET Ids) /\ DOMAIN cars' = DOMAIN cars \cup {Len(cars) + 1}
      /\ Len(cars) + 1 \notin DOMAIN cars /\ Len(cars') = Len(cars) + 1 /\ Len(cars) \in Nat
      /\ \A n \in DOMAIN cars : cars'[n] = cars[n]
      /\ cars'[Len(cars) + 1] = job.todo
  BY <1>4
<1>6. QED
  BY <1>3, <1>5 DEF CarsKept

LEMMA PackSaveShape ==
    ASSUME Shape, PackSave
    PROVE  Shape' /\ RowsKept /\ CarsKept
<1>1. UNCHANGED <<eventLock, tasks, locked, everLocked, aged, upload, notice, mint, faults>>
  BY DEF PackSave, payments, requests
<1>2. job' \in JobTypes(Ids) /\ JobShape'
  BY DEF PackSave, JobIdle, JobTypes, JobShape
<1>3. TypeOK'
  BY <1>1, <1>2, Saved, KeptTypes, TypeParts DEF Shape, Types
<1>4. MintRowsKnown'
  BY <1>1, Saved, MintKept
<1>5. TaskCreatedIsPacked'
  <2>1. SUFFICES ASSUME NEW i \in Ids, sourceFile'[i].status = "TaskCreated"
                 PROVE  \E n \in DOMAIN cars' : i \in cars'[n]
    BY Saved DEF TaskCreatedIsPacked, Packed
  <2>2. CASE i \in job.todo
    BY <2>2, Saved
  <2>3. CASE i \notin job.todo
    <3>1. Packed(i) # {}
      BY <2>1, <2>3, Saved DEF Shape, TaskCreatedIsPacked
    <3>2. QED
      BY <3>1, Saved DEF Packed, CarsKept
  <2>4. QED
    BY <2>2, <2>3
<1>6. QED
  BY <1>2, <1>3, <1>4, <1>5, Saved DEF Shape

LEMMA CrashShape ==
    ASSUME Shape, Crash
    PROVE  Shape' /\ RowsKept /\ CarsKept
<1>1. UNCHANGED <<sourceFile, eventLock, cars, tasks, locked, everLocked, aged>> /\ job' = JobIdle
  BY DEF Crash, payments
<1>2. RowsKept /\ CarsKept /\ Ids' = Ids
  BY <1>1 DEF RowsKept, CarsKept, Ids
<1>3. upload' \in UploadTypes
  BY TypeParts DEF Shape, Types, UploadTypes, Crash, Done
<1>4. notice' \in NoticeTypes(Ids)
  BY TypeParts DEF Shape, Types, NoticeTypes, Crash, Done
<1>5. mint' \in MintTypes(Ids)
  BY TypeParts DEF Shape, Types, MintTypes, Crash, Done
<1>6. faults' \in 0 .. MaxFaults
  BY FaultTypes, TypeParts DEF Shape, Types, Crash
<1>7. job' \in JobTypes(Ids) /\ JobShape'
  BY <1>1, JobIdleShape DEF JobShape
<1>8. TypeOK'
  BY <1>1, <1>2, <1>3, <1>4, <1>5, <1>6, <1>7, KeptTypes, TypeParts DEF Shape, Types
<1>9. MintRowsKnown'
  <2>1. \A r \in Mints : mint'[r].stage # "read"
    BY MintShape DEF Shape, Crash, Done
  <2>2. QED
    BY <2>1 DEF MintRowsKnown
<1>10. TaskCreatedIsPacked'
  BY <1>1, <1>2, TaskCreatedKept
<1>11. QED
  BY <1>2, <1>7, <1>8, <1>9, <1>10 DEF Shape

LEMMA StepShape ==
    ASSUME Shape, Next
    PROVE  Shape' /\ RowsKept /\ CarsKept
BY ContractShape, AgeShape, InsertShape, UploadReadShape, NoticeWriteShape, NoticeReadShape, MintSaveShape,
   MintReadShape, JobBeginShape, CheckReadShape, CheckWriteShape, PackBeginShape, JobEndsShape, PackSaveShape,
   CheckFailsShape, CrashShape DEF Next, CreateTask

LEMMA StutterShape ==
    ASSUME Shape, UNCHANGED vars
    PROVE  Shape' /\ RowsKept /\ CarsKept
<1>1. UNCHANGED <<sourceFile, eventLock, cars, tasks, locked, everLocked, aged, upload, notice, mint, job, faults>>
  BY DEF vars
<1>2. JobShape'
  BY <1>1 DEF Shape, JobShape
<1>3. QED
  BY <1>1, <1>2, QuietShape, TypeParts DEF Shape, Types

(***************************************************************************)
(* Who writes what: for each variable, the steps that may change it.       *)
(***************************************************************************)
Inserting == \E r \in Uploads : UploadInsert(r)
UploadStart == \E r \in Uploads, c \in Cids : UploadRead(r, c)
NoticeStart == \E r \in Notices, c \in Cids : NoticeRead(r, c)
NoticeWriting == \E r \in Notices : NoticeWrite(r)
MintStart == \E r \in Mints, c \in Cids : MintRead(r, c)
MintSaving == \E r \in Mints : MintSave(r)
CheckReading == \E i \in Ids : CheckRead(i)
PackBeginning == \E S \in SUBSET Ids : PackBegin(S)
PackEnds == PackNothing \/ PackRefused \/ PackFails

LEMMA Steps ==
    ASSUME Next
    PROVE  \/ \E c \in Cids : UserLocks(c) \/ ContractRefunds(c)
           \/ \E i \in Ids : Age(i)
           \/ Inserting \/ UploadStart \/ NoticeStart \/ NoticeWriting \/ MintStart \/ MintSaving
           \/ JobBegin \/ CheckReading \/ CheckWrite \/ CheckFails
           \/ PackBeginning \/ PackSave \/ PackEnds \/ Crash
BY DEF Next, CreateTask, Inserting, UploadStart, NoticeStart, NoticeWriting, MintStart, MintSaving,
       CheckReading, PackBeginning, PackEnds

LEMMA Writers ==
    ASSUME [Next]_vars
    PROVE  /\ sourceFile' = sourceFile \/ Inserting \/ NoticeWriting \/ CheckWrite \/ MintSaving \/ PackSave
           /\ eventLock' = eventLock \/ NoticeWriting \/ CheckWrite
           /\ cars' = cars \/ PackSave
           /\ tasks' = tasks \/ PackBeginning
           /\ upload' = upload \/ Inserting \/ UploadStart \/ Crash
           /\ notice' = notice \/ NoticeStart \/ NoticeWriting \/ Crash
           /\ mint' = mint \/ MintStart \/ MintSaving \/ Crash
           /\ everLocked \subseteq everLocked'
           /\ \/ job' = job \/ JobBegin \/ CheckReading \/ CheckWrite \/ CheckFails
              \/ PackBeginning \/ PackSave \/ PackEnds \/ Crash
           /\ faults' = faults \/ CheckFails \/ PackBeginning \/ PackFails \/ Crash
<1> USE DEF payments, requests
<1>1. CASE UNCHANGED vars
  BY <1>1 DEF vars
<1>2. CASE \E c \in Cids : UserLocks(c) \/ ContractRefunds(c)
  BY <1>2 DEF UserLocks, ContractRefunds
<1>3. CASE \E i \in Ids : Age(i)
  BY <1>3 DEF Age
<1>4. CASE Inserting
  BY <1>4 DEF Inserting, UploadInsert
<1>5. CASE UploadStart
  BY <1>5 DEF UploadStart, UploadRead
<1>6. CASE NoticeStart
  BY <1>6 DEF NoticeStart, NoticeRead
<1>7. CASE NoticeWriting
  BY <1>7 DEF NoticeWriting, NoticeWrite
<1>8. CASE MintStart
  BY <1>8 DEF MintStart, MintRead
<1>9. CASE MintSaving
  BY <1>9 DEF MintSaving, MintSave
<1>10. CASE JobBegin
  BY <1>10 DEF JobBegin
<1>11. CASE CheckReading
  BY <1>11 DEF CheckReading, CheckRead, CheckNext
<1>12. CASE CheckWrite
  BY <1>12 DEF CheckWrite
<1>13. CASE CheckFails
  BY <1>13 DEF CheckFails
<1>14. CASE PackBeginning
  BY <1>14 DEF PackBeginning, PackBegin
<1>15. CASE PackSave
  BY <1>15 DEF PackSave
<1>16. CASE PackEnds
  BY <1>16 DEF PackEnds, PackNothing, PackRefused, PackFails
<1>17. CASE Crash
  BY <1>17 DEF Crash
<1>18. QED
  BY <1>1, <1>2, <1>3, <1>4, <1>5, <1>6, <1>7, <1>8, <1>9, <1>10, <1>11, <1>12, <1>13, <1>14, <1>15,
     <1>16, <1>17, Steps

\* Only an insert makes a row.
LEMMA IdsOf ==
    ASSUME Shape, [Next]_vars
    PROVE  Inserting \/ Ids' = Ids
<1>1. CASE NoticeWriting
  <2>1. PICK r \in Notices : NoticeWrite(r)
    BY <1>1 DEF NoticeWriting
  <2>2. notice[r].file \in Ids /\ notice[r].from \in {"owner", "other"}
    BY <2>1, NoticeShape DEF Shape, NoticeWrite
  <2>3. CreateEventLockPayment(notice[r].file, notice[r].ev, notice[r].from)
    BY <2>1 DEF NoticeWrite
  <2>4. QED
    BY <2>2, <2>3, EventCreated
<1>2. CASE CheckWrite
  <2>1. job.file \in Ids /\ CreateEventLockPayment(job.file, job.ev, "owner")
    BY <1>2, JobOf DEF CheckWrite
  <2>2. QED
    BY <2>1, EventCreated
<1>3. CASE MintSaving
  BY <1>3, MintSaved DEF MintSaving
<1>4. CASE PackSave
  BY <1>4, Saved
<1>5. CASE sourceFile' = sourceFile
  BY <1>5 DEF Ids
<1>6. QED
  BY <1>1, <1>2, <1>3, <1>4, <1>5, Writers

LEMMA BoxShape ==
    ASSUME Shape, [Next]_vars
    PROVE  Shape' /\ RowsKept /\ CarsKept
BY StutterShape, StepShape

(***************************************************************************)
(* The times of the rows of one cid.                                       *)
(***************************************************************************)
LEMMA TimesKept ==
    ASSUME Shape, TimesDiffer, RowsKept, Ids' = Ids,
           \A r \in Uploads : upload'[r].stage = "new" => upload'[r] = upload[r]
    PROVE  TimesDiffer'
<1>1. \A i, j \in Ids : i # j /\ sourceFile'[i].cid = sourceFile'[j].cid => sourceFile'[i].at # sourceFile'[j].at
  BY DEF TimesDiffer, RowsKept
<1>2. SUFFICES ASSUME NEW r \in Uploads, upload'[r].stage = "new"
               PROVE  /\ \A i \in Ids : sourceFile'[i].cid = upload'[r].cid => sourceFile'[i].at # upload'[r].at
                      /\ \A q \in Uploads : upload'[q].stage = "new" /\ upload'[q].cid = upload'[r].cid /\ q # r
                            => upload'[q].at # upload'[r].at
  BY <1>1 DEF TimesDiffer, RowsOf, Uploading
<1>3. upload'[r] = upload[r] /\ upload[r].stage = "new"
  BY <1>2
<1>4. /\ \A i \in Ids : sourceFile[i].cid = upload[r].cid => sourceFile[i].at # upload[r].at
      /\ \A q \in Uploads : upload[q].stage = "new" /\ upload[q].cid = upload[r].cid /\ q # r
            => upload[q].at # upload[r].at
  BY <1>3 DEF TimesDiffer, RowsOf, Uploading
<1>5. QED
  BY <1>3, <1>4 DEF RowsKept

LEMMA TimesUploadRead ==
    ASSUME Shape, TimesDiffer, NEW r \in Uploads, NEW c \in Cids, UploadRead(r, c)
    PROVE  TimesDiffer'
<1> DEFINE now == 1 + Max({0} \cup {upload[q].at : q \in Uploading(c)})
           begun(type) == [stage |-> "new", cid |-> c, type |-> type, at |-> now]
<1>1. now \in Nat /\ \A q \in Uploading(c) : upload[q].at < now
  BY NewTime DEF Shape
<1>2. PICK type \in FileTypes :
         /\ upload[r].stage = "idle"
         /\ upload' = [upload EXCEPT ![r] = IF RowsOf(c) = {} THEN begun(type) ELSE Done]
  BY DEF UploadRead
<1>3. UNCHANGED sourceFile
  BY DEF UploadRead
<1> HIDE DEF now
<1>4. \A q \in Uploads : q # r => upload'[q] = upload[q]
  BY <1>2, TypeParts DEF Shape, Types, UploadTypes
<1>5. upload'[r] = IF RowsOf(c) = {} THEN begun(type) ELSE Done
  BY <1>2, TypeParts DEF Shape, Types, UploadTypes
<1>6. RowsKept /\ Ids' = Ids
  BY <1>3 DEF RowsKept, Ids
<1>7. CASE RowsOf(c) # {}
  <2>1. upload'[r].stage # "new"
    BY <1>5, <1>7 DEF Done
  <2>2. QED
    BY <1>4, <1>6, <2>1, TimesKept
<1>8. CASE RowsOf(c) = {}
  <2>1. upload'[r].stage = "new" /\ upload'[r].cid = c /\ upload'[r].at = now
    BY <1>5, <1>8
  <2>2. \A i, j \in Ids : i # j /\ sourceFile[i].cid = sourceFile[j].cid => sourceFile[i].at # sourceFile[j].at
    BY DEF TimesDiffer
  <2>3. SUFFICES ASSUME NEW p \in Uploads, upload'[p].stage = "new"
                 PROVE  /\ \A i \in Ids : sourceFile[i].cid = upload'[p].cid => sourceFile[i].at # upload'[p].at
                        /\ \A q \in Uploads : upload'[q].stage = "new" /\ upload'[q].cid = upload'[p].cid /\ q # p
                              => upload'[q].at # upload'[p].at
    BY <1>3, <1>6, <2>2 DEF TimesDiffer, RowsOf, Uploading
  <2>4. \A q \in Uploads : q # r /\ upload[q].stage = "new" /\ upload[q].cid = c => upload[q].at # now
    <3>1. \A q \in Uploading(c) : upload[q].at \in Nat
      BY UploadShape DEF Shape, Uploading
    <3>2. QED
      BY <1>1, <3>1 DEF Uploading
  <2>5. \A i \in Ids : sourceFile[i].cid # c
    BY <1>8 DEF RowsOf
  <2>6. CASE p = r
    BY <1>4, <2>1, <2>4, <2>5, <2>6
  <2>7. CASE p # r
    <3>1. upload'[p] = upload[p] /\ upload[p].stage = "new"
      BY <1>4, <2>3, <2>7
    <3>2. /\ \A i \in Ids : sourceFile[i].cid = upload[p].cid => sourceFile[i].at # upload[p].at
          /\ \A q \in Uploads : upload[q].stage = "new" /\ upload[q].cid = upload[p].cid /\ q # p
                => upload[q].at # upload[p].at
      BY <3>1 DEF TimesDiffer, RowsOf, Uploading
    <3>3. ASSUME NEW q \in Uploads, upload'[q].stage = "new", upload'[q].cid = upload'[p].cid, q # p
          PROVE  upload'[q].at # upload'[p].at
      <4>1. CASE q = r
        <5>1. upload[p].at # now
          BY <2>1, <2>4, <2>7, <3>1, <3>3, <4>1
        <5>2. QED
          BY <2>1, <3>1, <4>1, <5>1
      <4>2. CASE q # r
        BY <1>4, <3>1, <3>2, <3>3, <4>2
      <4>3. QED
        BY <4>1, <4>2
    <3>4. QED
      BY <3>1, <3>2, <3>3
  <2>8. QED
    BY <2>6, <2>7
<1>9. QED
  BY <1>7, <1>8

LEMMA TimesInsert ==
    ASSUME Shape, TimesDiffer, NEW r \in Uploads, UploadInsert(r)
    PROVE  TimesDiffer'
<1> DEFINE row == [cid |-> upload[r].cid, type |-> upload[r].type, status |-> "Created", at |-> upload[r].at]
           new == Len(sourceFile) + 1
<1>1. row.cid = upload[r].cid /\ row.at = upload[r].at
  OBVIOUS
<1>2. /\ upload[r].stage = "new"
      /\ Ids' = Ids \cup {new} /\ new \notin Ids
      /\ \A i \in Ids : sourceFile'[i] = sourceFile[i]
      /\ sourceFile'[new] = row
  BY InsertRow DEF Shape
<1> HIDE DEF row, new
<1>3. \A q \in Uploads : upload'[q].stage = "new" => q # r /\ upload'[q] = upload[q]
  BY TypeParts DEF Shape, Types, UploadTypes, UploadInsert, Done
<1>4. \A i, j \in Ids : i # j /\ sourceFile[i].cid = sourceFile[j].cid => sourceFile[i].at # sourceFile[j].at
  BY DEF TimesDiffer
<1>5. \A p \in Uploads : upload[p].stage = "new" =>
         /\ \A i \in Ids : sourceFile[i].cid = upload[p].cid => sourceFile[i].at # upload[p].at
         /\ \A q \in Uploads : upload[q].stage = "new" /\ upload[q].cid = upload[p].cid /\ q # p
               => upload[q].at # upload[p].at
  BY DEF TimesDiffer, RowsOf, Uploading
<1>6. \A i, j \in Ids' : i # j /\ sourceFile'[i].cid = sourceFile'[j].cid => sourceFile'[i].at # sourceFile'[j].at
  <2>1. SUFFICES ASSUME NEW i \in Ids', NEW j \in Ids', i # j, sourceFile'[i].cid = sourceFile'[j].cid
                 PROVE  sourceFile'[i].at # sourceFile'[j].at
    OBVIOUS
  <2>2. CASE i \in Ids /\ j \in Ids
    BY <1>2, <1>4, <2>1, <2>2
  <2>3. CASE i = new /\ j \in Ids
    BY <1>1, <1>2, <1>5, <2>1, <2>3
  <2>4. CASE i \in Ids /\ j = new
    BY <1>1, <1>2, <1>5, <2>1, <2>4
  <2>5. QED
    BY <1>2, <2>1, <2>2, <2>3, <2>4
<1>7. ASSUME NEW p \in Uploads, upload'[p].stage = "new"
      PROVE  /\ \A i \in Ids' : sourceFile'[i].cid = upload'[p].cid => sourceFile'[i].at # upload'[p].at
             /\ \A q \in Uploads : upload'[q].stage = "new" /\ upload'[q].cid = upload'[p].cid /\ q # p
                   => upload'[q].at # upload'[p].at
  <2>1. p # r /\ upload'[p] = upload[p] /\ upload[p].stage = "new"
    BY <1>3, <1>7
  <2>2. upload[p].cid = upload[r].cid => upload[p].at # upload[r].at
    BY <1>2, <1>5, <2>1
  <2>3. \A i \in Ids' : sourceFile'[i].cid = upload'[p].cid => sourceFile'[i].at # upload'[p].at
    BY <1>1, <1>2, <1>5, <2>1, <2>2
  <2>4. QED
    BY <1>3, <1>5, <2>1, <2>3
<1>8. QED
  BY <1>6, <1>7 DEF TimesDiffer, RowsOf, Uploading

LEMMA TimesStep ==
    ASSUME Shape, TimesDiffer, [Next]_vars
    PROVE  TimesDiffer'
<1>1. CASE Inserting
  BY <1>1, TimesInsert DEF Inserting
<1>2. CASE UploadStart
  BY <1>2, TimesUploadRead DEF UploadStart
<1>3. CASE ~Inserting /\ ~UploadStart
  <2>1. \A r \in Uploads : upload'[r].stage = "new" => upload'[r] = upload[r]
    <3>1. CASE Crash
      BY <3>1, UploadShape DEF Shape, Crash, Done
    <3>2. CASE upload' = upload
      BY <3>2
    <3>3. QED
      BY <1>3, <3>1, <3>2, Writers
  <2>2. QED
    BY <1>3, <2>1, IdsOf, BoxShape, TimesKept
<1>4. QED
  BY <1>1, <1>2, <1>3

(***************************************************************************)
(* Only the earliest row of a file gets event rows, and is packed.         *)
(***************************************************************************)
\* First(i) of the next state.
StaysFirst(i) ==
    \A j \in Ids' : sourceFile'[j].cid = sourceFile'[i].cid /\ j < i => sourceFile'[j].at > sourceFile'[i].at

\* An insert does not change which row is the earliest: rows come at the end.
LEMMA FirstKept ==
    ASSUME Shape, [Next]_vars, NEW i \in Ids, First(i)
    PROVE  StaysFirst(i)
<1>1. Shape' /\ RowsKept
  BY BoxShape
<1>2. Ids = 1 .. Len(sourceFile) /\ Ids' = 1 .. Len(sourceFile')
      /\ Len(sourceFile) \in Nat /\ Len(sourceFile') \in Nat
  BY <1>1, TypeParts DEF Shape, Types, Ids
<1>3. SUFFICES ASSUME NEW j \in Ids', sourceFile'[j].cid = sourceFile'[i].cid, j < i
               PROVE  sourceFile'[j].at > sourceFile'[i].at
  BY DEF StaysFirst
<1>4. j \in Ids
  BY <1>2, <1>3
<1>5. QED
  BY <1>1, <1>3, <1>4 DEF First, RowsOf, RowsKept

LEMMA FirstRowIsFirst ==
    ASSUME TypeOK, TimesDiffer, NEW c \in Cids, RowsOf(c) # {}
    PROVE  First(FirstRow(c))
<1> DEFINE f == FirstRow(c)
<1>1. f \in RowsOf(c) /\ f \in Ids /\ \A j \in RowsOf(c) : sourceFile[f].at <= sourceFile[j].at
  BY FirstRowOf
<1> HIDE DEF f
<1>2. SUFFICES ASSUME NEW j \in RowsOf(c), j < f PROVE sourceFile[j].at > sourceFile[f].at
  BY <1>1 DEF First, RowsOf, f
<1>3. sourceFile[j].at # sourceFile[f].at
  BY <1>1, <1>2, Rows DEF TimesDiffer, RowsOf
<1>4. sourceFile[j].at \in Nat /\ sourceFile[f].at \in Nat
  BY <1>1, Rows
<1>5. QED
  BY <1>1, <1>3, <1>4

\* The files to be packed have event rows.
LEMMA NeedEvents ==
    ASSUME Shape, NEW S \in SUBSET Ids, PackBegin(S), NEW i \in S
    PROVE  /\ sourceFile[i].status = "Paid"
           /\ \E k \in DOMAIN eventLock[sourceFile[i].cid] : eventLock[sourceFile[i].cid][k].file = i
<1>1. PICK left \in SUBSET Need2Car : S \in Packable(Need2Car \ left)
  BY DEF PackBegin
<1>2. S \subseteq Need2Car
  BY <1>1 DEF Packable, Taken
<1>3. QED
  BY <1>2 DEF Need2Car, EventsOfFile

\* The conjuncts of EventsOfFirst.
EventRowsFirst == \A c \in Cids : \A k \in DOMAIN eventLock[c] : First(eventLock[c][k].file)
NoticesFirst == \A r \in Notices : notice[r].stage = "read" => First(notice[r].file)
JobFirst == (job.file # 0 => First(job.file)) /\ (job.stage = "tasked" => \A i \in job.todo : First(i))
CarsFirst == \A n \in DOMAIN cars : \A i \in cars[n] : First(i)

LEMMA FirstParts ==
    /\ EventsOfFirst <=> EventRowsFirst /\ NoticesFirst /\ JobFirst /\ CarsFirst
    /\ EventsOfFirst' <=> EventRowsFirst' /\ NoticesFirst' /\ JobFirst' /\ CarsFirst'
<1>1. CarsFirst <=> FirstRowIsPacked
  BY Zenon DEF CarsFirst, First, FirstRowIsPacked
<1>2. CarsFirst' <=> FirstRowIsPacked'
  BY Zenon DEF CarsFirst, First, FirstRowIsPacked
<1>3. QED
  BY <1>1, <1>2 DEF EventsOfFirst, EventRowsFirst, NoticesFirst, JobFirst

LEMMA FirstPartsNext ==
    /\ (\A c \in Cids : \A k \in DOMAIN eventLock'[c] : StaysFirst(eventLock'[c][k].file)) => EventRowsFirst'
    /\ (\A r \in Notices : notice'[r].stage = "read" => StaysFirst(notice'[r].file)) => NoticesFirst'
    /\ (job'.file # 0 => StaysFirst(job'.file)) /\ (job'.stage = "tasked" => \A i \in job'.todo : StaysFirst(i))
          => JobFirst'
    /\ (\A n \in DOMAIN cars' : \A i \in cars'[n] : StaysFirst(i)) => CarsFirst'
BY DEF EventRowsFirst, NoticesFirst, JobFirst, CarsFirst, First, StaysFirst, RowsOf

LEMMA EventWritten ==
    ASSUME Shape, [Next]_vars, EventRowsFirst, NEW i \in Ids, First(i), NEW ev,
           NEW from \in {"owner", "other"}, CreateEventLockPayment(i, ev, from)
    PROVE  EventRowsFirst'
<1> DEFINE c == sourceFile[i].cid
           row == [file |-> i, from |-> from]
<1>1. /\ \A d \in Cids : d # c => eventLock'[d] = eventLock[d]
      /\ \A k \in DOMAIN eventLock'[c] :
            \/ k \in DOMAIN eventLock[c] /\ eventLock'[c][k] = eventLock[c][k]
            \/ eventLock'[c][k] = row
  BY EventCreated
<1>2. row.file = i
  OBVIOUS
<1> HIDE DEF c, row
<1>3. SUFFICES ASSUME NEW d \in Cids, NEW k \in DOMAIN eventLock'[d]
               PROVE  StaysFirst(eventLock'[d][k].file)
  BY FirstPartsNext
<1>4. CASE k \in DOMAIN eventLock[d] /\ eventLock'[d][k] = eventLock[d][k]
  <2>1. eventLock[d][k].file \in Ids /\ First(eventLock[d][k].file)
    BY <1>4, EventShape DEF Shape, EventRowsFirst, RowsOf
  <2>2. QED
    BY <1>4, <2>1, FirstKept
<1>5. CASE eventLock'[d][k] = row
  BY <1>2, <1>5, FirstKept
<1>6. QED
  BY <1>1, <1>3, <1>4, <1>5

LEMMA EventRowsFirstStep ==
    ASSUME Shape, [Next]_vars, EventRowsFirst, NoticesFirst, JobFirst
    PROVE  EventRowsFirst'
<1>1. CASE NoticeWriting
  <2>1. PICK r \in Notices : NoticeWrite(r)
    BY <1>1 DEF NoticeWriting
  <2>2. notice[r].file \in Ids /\ notice[r].from \in {"owner", "other"} /\ First(notice[r].file)
    BY <2>1, NoticeShape DEF Shape, NoticeWrite, NoticesFirst
  <2>3. CreateEventLockPayment(notice[r].file, notice[r].ev, notice[r].from)
    BY <2>1 DEF NoticeWrite
  <2>4. QED
    BY <2>2, <2>3, EventWritten
<1>2. CASE CheckWrite
  <2>1. job.file \in Ids /\ First(job.file) /\ CreateEventLockPayment(job.file, job.ev, "owner")
    BY <1>2, JobOf DEF CheckWrite, JobFirst
  <2>2. QED
    BY <2>1, EventWritten
<1>3. CASE eventLock' = eventLock
  <2>1. \A c \in Cids : \A k \in DOMAIN eventLock[c] :
            eventLock[c][k].file \in Ids /\ First(eventLock[c][k].file)
    BY EventShape DEF Shape, EventRowsFirst, RowsOf
  <2>2. QED
    BY <1>3, <2>1, FirstKept, FirstPartsNext
<1>4. QED
  BY <1>1, <1>2, <1>3, Writers

LEMMA NoticesFirstStep ==
    ASSUME Shape, TimesDiffer, [Next]_vars, NoticesFirst
    PROVE  NoticesFirst'
<1>1. SUFFICES ASSUME NEW r \in Notices, notice'[r].stage = "read"
               PROVE  StaysFirst(notice'[r].file)
  BY FirstPartsNext
<1>2. CASE notice'[r] = notice[r]
  <2>1. notice[r].file \in Ids /\ First(notice[r].file)
    BY <1>1, <1>2, NoticeShape DEF Shape, NoticesFirst
  <2>2. QED
    BY <1>2, <2>1, FirstKept
<1>3. CASE NoticeStart
  <2>1. PICK q \in Notices, c \in Cids : NoticeRead(q, c)
    BY <1>3 DEF NoticeStart
  <2>2. FirstRow(c) \in Ids /\ First(FirstRow(c))
    BY <2>1, FirstRowOf, FirstRowIsFirst DEF Shape, NoticeRead
  <2>3. PICK ev \in EventsOf(c), from \in ClientForms \cup (IF c \in locked THEN {"owner"} ELSE {}) :
           notice' = [notice EXCEPT ![q] = [stage |-> "read", file |-> FirstRow(c), ev |-> ev, from |-> from]]
    BY <2>1 DEF NoticeRead
  <2>4. CASE r = q
    <3>1. notice'[r].file = FirstRow(c)
      BY <2>3, <2>4, TypeParts DEF Shape, Types, NoticeTypes
    <3>2. QED
      BY <2>2, <3>1, FirstKept
  <2>5. CASE r # q
    BY <1>2, <2>3, <2>5, TypeParts DEF Shape, Types, NoticeTypes
  <2>6. QED
    BY <2>4, <2>5
<1>4. CASE NoticeWriting
  <2>1. PICK q \in Notices : NoticeWrite(q)
    BY <1>4 DEF NoticeWriting
  <2>2. notice'[r] = notice[r]
    BY <1>1, <2>1, TypeParts DEF Shape, Types, NoticeTypes, NoticeWrite, Done
  <2>3. QED
    BY <1>2, <2>2
<1>5. CASE Crash
  BY <1>1, <1>5, NoticeShape DEF Shape, Crash, Done
<1>6. QED
  BY <1>2, <1>3, <1>4, <1>5, Writers

LEMMA JobFirstStep ==
    ASSUME Shape, TimesDiffer, [Next]_vars, EventRowsFirst, JobFirst
    PROVE  JobFirst'
<1>1. CASE job' = job
  BY <1>1, JobOf, FirstKept, FirstPartsNext DEF JobFirst
<1>2. CASE JobBegin \/ CheckWrite \/ CheckFails \/ PackSave
  <2>1. job'.file = 0 /\ job'.stage # "tasked"
    BY <1>2, JobOf DEF JobBegin, CheckWrite, CheckFails, PackSave, JobIdle
  <2>2. QED
    BY <2>1, FirstPartsNext
<1>3. CASE PackEnds \/ Crash
  <2>1. job' = JobIdle
    BY <1>3 DEF PackEnds, PackNothing, PackRefused, PackFails, Crash
  <2>2. QED
    BY <2>1, FirstPartsNext DEF JobIdle
<1>4. CASE CheckReading
  <2>1. PICK i \in Ids : CheckRead(i)
    BY <1>4 DEF CheckReading
  <2> DEFINE c == sourceFile[i].cid
  <2>2. FirstRow(c) \in Ids /\ First(FirstRow(c))
    BY Rows, FirstRowOf, FirstRowIsFirst DEF Shape, RowsOf
  <2>3. job.stage = "check" /\ job.file = 0 /\ (CheckTake(i, FirstRow(c)) \/ CheckSkip(i))
    BY <2>1 DEF CheckRead, CheckNext
  <2> HIDE DEF c
  <2>4. job'.stage = "check" /\ job'.file \in {0, FirstRow(c)}
    BY <2>3, JobOf DEF CheckTake, CheckSkip
  <2>5. QED
    BY <2>2, <2>4, FirstKept, FirstPartsNext
<1>5. CASE PackBeginning
  <2>1. PICK S \in SUBSET Ids : PackBegin(S)
    BY <1>5 DEF PackBeginning
  <2>2. job'.file = 0 /\ job'.todo = S
    BY <2>1 DEF PackBegin, JobIdle
  <2>3. \A i \in S : First(i)
    <3>1. SUFFICES ASSUME NEW i \in S PROVE First(i)
      OBVIOUS
    <3>2. sourceFile[i].cid \in Cids
      BY Rows DEF Shape
    <3>3. QED
      BY <2>1, <3>2, NeedEvents DEF EventRowsFirst
  <2>4. \A i \in S : StaysFirst(i)
    BY <2>3, FirstKept
  <2>5. QED
    BY <2>2, <2>4, FirstPartsNext
<1>6. QED
  BY <1>1, <1>2, <1>3, <1>4, <1>5, Writers

LEMMA CarsFirstStep ==
    ASSUME Shape, [Next]_vars, JobFirst, CarsFirst
    PROVE  CarsFirst'
<1>1. \A n \in DOMAIN cars : cars[n] \in SUBSET Ids
  BY TypeParts DEF Shape, Types
<1>2. CASE cars' = cars
  BY <1>1, <1>2, FirstKept, FirstPartsNext DEF CarsFirst
<1>3. CASE PackSave
  <2>1. SUFFICES ASSUME NEW n \in DOMAIN cars', NEW i \in cars'[n] PROVE StaysFirst(i)
    BY FirstPartsNext
  <2>2. CASE n \in DOMAIN cars
    BY <1>1, <1>3, <2>1, <2>2, Saved, FirstKept DEF CarsFirst, CarsKept
  <2>3. CASE n = Len(cars) + 1
    <3>1. i \in job.todo /\ job.stage = "tasked" /\ job.todo \in SUBSET Ids
      BY <1>3, <2>1, <2>3, Saved, JobOf DEF PackSave
    <3>2. QED
      BY <3>1, FirstKept DEF JobFirst
  <2>4. QED
    BY <1>3, <2>1, <2>2, <2>3, Saved
<1>4. QED
  BY <1>2, <1>3, Writers

LEMMA FirstStep ==
    ASSUME Shape, TimesDiffer, EventsOfFirst, [Next]_vars
    PROVE  EventsOfFirst'
<1>1. EventRowsFirst /\ NoticesFirst /\ JobFirst /\ CarsFirst
  BY FirstParts
<1>2. EventRowsFirst' /\ NoticesFirst' /\ JobFirst' /\ CarsFirst'
  BY <1>1, EventRowsFirstStep, NoticesFirstStep, JobFirstStep, CarsFirstStep
<1>3. QED
  BY <1>2, FirstParts

(***************************************************************************)
(* Before the first notice: what is packed was locked in the contract.     *)
(***************************************************************************)
LEMMA NoticesQuiet ==
    ASSUME Shape, [Next]_vars, NoNotices'
    PROVE  NoNotices /\ ~NoticeWriting /\ ~NoticeStart
<1>1. \A r \in Notices : notice'[r].stage = "idle"
  BY DEF NoNotices
<1>2. ~NoticeStart
  BY <1>1, TypeParts DEF Shape, Types, NoticeTypes, NoticeStart, NoticeRead
<1>3. ~NoticeWriting
  BY <1>1, TypeParts DEF Shape, Types, NoticeTypes, NoticeWriting, NoticeWrite, Done
<1>4. CASE notice' = notice
  BY <1>1, <1>2, <1>3, <1>4 DEF NoNotices
<1>5. CASE Crash
  BY <1>1, <1>2, <1>3, <1>5 DEF NoNotices, Crash, Done
<1>6. QED
  BY <1>2, <1>3, <1>4, <1>5, Writers

LEMMA MintsQuiet ==
    ASSUME Shape, [Next]_vars, NoMints'
    PROVE  NoMints /\ ~MintSaving /\ ~MintStart
<1>1. \A r \in Mints : mint'[r].stage = "idle"
  BY DEF NoMints
<1>2. ~MintStart
  BY <1>1, TypeParts DEF Shape, Types, MintTypes, MintStart, MintRead
<1>3. ~MintSaving
  BY <1>1, TypeParts DEF Shape, Types, MintTypes, MintSaving, MintSave, Done
<1>4. CASE mint' = mint
  BY <1>1, <1>2, <1>3, <1>4 DEF NoMints
<1>5. CASE Crash
  BY <1>1, <1>2, <1>3, <1>5 DEF NoMints, Crash, Done
<1>6. QED
  BY <1>2, <1>3, <1>4, <1>5, Writers

LockedEvents == \A c \in Cids : eventLock[c] # <<>> => c \in everLocked
LockedJob == /\ job.file # 0 => sourceFile[job.file].cid \in everLocked
             /\ job.stage = "tasked" => \A i \in job.todo : sourceFile[i].cid \in everLocked
LockedCars == \A n \in DOMAIN cars : \A i \in cars[n] : sourceFile[i].cid \in everLocked

LEMMA LockedParts ==
    /\ OnlyLocked <=> (NoNotices => LockedEvents /\ LockedJob /\ LockedCars)
    /\ OnlyLocked' <=> (NoNotices' => LockedEvents' /\ LockedJob' /\ LockedCars')
BY DEF OnlyLocked, LockedEvents, LockedJob, LockedCars

LEMMA LockedEventsStep ==
    ASSUME Shape, [Next]_vars, ~NoticeWriting, LockedEvents, LockedJob
    PROVE  LockedEvents'
<1>1. everLocked \subseteq everLocked'
  BY Writers
<1>2. CASE eventLock' = eventLock
  BY <1>1, <1>2 DEF LockedEvents
<1>3. CASE CheckWrite
  <2>1. job.file \in Ids /\ job.file # 0 /\ CreateEventLockPayment(job.file, job.ev, "owner")
    BY <1>3, JobOf DEF CheckWrite
  <2> DEFINE c == sourceFile[job.file].cid
  <2>2. \A d \in Cids : d # c => eventLock'[d] = eventLock[d]
    BY <2>1, EventCreated
  <2>3. c \in everLocked
    BY <2>1 DEF LockedJob
  <2> HIDE DEF c
  <2>4. QED
    BY <1>1, <2>2, <2>3 DEF LockedEvents
<1>4. QED
  BY <1>2, <1>3, Writers

LEMMA LockedJobStep ==
    ASSUME Shape, [Next]_vars, LockedEvents, LockedJob
    PROVE  LockedJob'
<1>1. everLocked \subseteq everLocked' /\ RowsKept
  BY Writers, BoxShape
<1>2. CASE job' = job
  BY <1>1, <1>2, JobOf DEF LockedJob, RowsKept
<1>3. CASE JobBegin \/ CheckWrite \/ CheckFails \/ PackSave
  <2>1. job'.file = 0 /\ job'.stage # "tasked"
    BY <1>3, JobOf DEF JobBegin, CheckWrite, CheckFails, PackSave, JobIdle
  <2>2. QED
    BY <2>1 DEF LockedJob
<1>4. CASE PackEnds \/ Crash
  <2>1. job' = JobIdle
    BY <1>4 DEF PackEnds, PackNothing, PackRefused, PackFails, Crash
  <2>2. QED
    BY <2>1 DEF LockedJob, JobIdle
<1>5. CASE CheckReading
  <2>1. PICK i \in Ids : CheckRead(i)
    BY <1>5 DEF CheckReading
  <2> DEFINE c == sourceFile[i].cid
  <2>2. FirstRow(c) \in Ids /\ sourceFile[FirstRow(c)].cid = c
    BY Rows, FirstRowOf DEF Shape, RowsOf
  <2>3. /\ job.stage = "check" /\ job.file = 0
        /\ (c \in locked /\ CheckTake(i, FirstRow(c))) \/ CheckSkip(i)
    BY <2>1 DEF CheckRead, CheckNext
  <2>4. locked \subseteq everLocked
    BY TypeParts DEF Shape, Types
  <2> HIDE DEF c
  <2>5. job'.stage = "check" /\ (job'.file = 0 \/ (job'.file = FirstRow(c) /\ c \in everLocked))
    BY <2>3, <2>4, JobOf DEF CheckTake, CheckSkip
  <2>6. QED
    BY <1>1, <2>2, <2>5 DEF LockedJob, RowsKept
<1>6. CASE PackBeginning
  <2>1. PICK S \in SUBSET Ids : PackBegin(S)
    BY <1>6 DEF PackBeginning
  <2>2. job'.file = 0 /\ job'.todo = S
    BY <2>1 DEF PackBegin, JobIdle
  <2>3. \A i \in S : sourceFile[i].cid \in everLocked
    <3>1. SUFFICES ASSUME NEW i \in S PROVE sourceFile[i].cid \in everLocked
      OBVIOUS
    <3>2. sourceFile[i].cid \in Cids
      BY Rows DEF Shape
    <3>3. eventLock[sourceFile[i].cid] # <<>>
      BY <2>1, <3>2, NeedEvents, EventShape DEF Shape
    <3>4. QED
      BY <3>2, <3>3 DEF LockedEvents
  <2>4. QED
    BY <1>1, <2>2, <2>3 DEF LockedJob, RowsKept
<1>7. QED
  BY <1>2, <1>3, <1>4, <1>5, <1>6, Writers

LEMMA LockedCarsStep ==
    ASSUME Shape, [Next]_vars, LockedJob, LockedCars
    PROVE  LockedCars'
<1>1. everLocked \subseteq everLocked' /\ RowsKept /\ \A n \in DOMAIN cars : cars[n] \in SUBSET Ids
  BY Writers, BoxShape, TypeParts DEF Shape, Types
<1>2. CASE cars' = cars
  BY <1>1, <1>2 DEF LockedCars, RowsKept
<1>3. CASE PackSave
  <2>1. SUFFICES ASSUME NEW n \in DOMAIN cars', NEW i \in cars'[n] PROVE sourceFile'[i].cid \in everLocked'
    BY DEF LockedCars
  <2>2. CASE n \in DOMAIN cars
    BY <1>1, <1>3, <2>1, <2>2, Saved DEF LockedCars, CarsKept, RowsKept
  <2>3. CASE n = Len(cars) + 1
    <3>1. i \in job.todo /\ job.stage = "tasked" /\ job.todo \in SUBSET Ids
      BY <1>3, <2>1, <2>3, Saved, JobOf DEF PackSave
    <3>2. QED
      BY <1>1, <3>1 DEF LockedJob, RowsKept
  <2>4. QED
    BY <1>3, <2>1, <2>2, <2>3, Saved
<1>4. QED
  BY <1>2, <1>3, Writers

LEMMA LockedStep ==
    ASSUME Shape, OnlyLocked, [Next]_vars
    PROVE  OnlyLocked'
BY NoticesQuiet, LockedParts, LockedEventsStep, LockedJobStep, LockedCarsStep

(***************************************************************************)
(* A file of one row, before the first notice and mint record.             *)
(***************************************************************************)
Forward(i) ==
    /\ Cardinality(Packed(i)) <= 1
    /\ Packed(i) # {} => sourceFile[i].status = "TaskCreated"
    /\ job.stage = "check" /\ (i \in job.todo \/ i = job.file) => sourceFile[i].status = "Created"
    /\ i = job.file => i \notin job.todo
    /\ job.stage = "tasked" /\ i \in job.todo => sourceFile[i].status = "Paid"

LEMMA ForwardParts ==
    /\ SingleRowForward <=>
          (NoNotices /\ NoMints => \A i \in Ids : RowsOf(sourceFile[i].cid) = {i} => Forward(i))
    /\ SingleRowForward' <=>
          (NoNotices' /\ NoMints' => \A i \in Ids' : RowsOf(sourceFile[i].cid)' = {i} => Forward(i)')
BY DEF SingleRowForward, Forward

LEMMA ForwardNew ==
    ASSUME Shape, Inserting, NEW i \in Ids' \ Ids
    PROVE  Forward(i)'
<1>1. PICK r \in Uploads : UploadInsert(r)
  BY DEF Inserting
<1> DEFINE row == [cid |-> upload[r].cid, type |-> upload[r].type, status |-> "Created", at |-> upload[r].at]
           new == Len(sourceFile) + 1
<1>2. row.status = "Created"
  OBVIOUS
<1>3. Ids' = Ids \cup {new} /\ sourceFile'[new] = row /\ new # 0
  BY <1>1, InsertRow, Rows DEF Shape
<1> HIDE DEF row, new
<1>4. UNCHANGED <<cars, job>>
  BY <1>1 DEF UploadInsert
<1>5. job.todo \in SUBSET Ids /\ job.file \in {0} \cup Ids /\ \A n \in DOMAIN cars : cars[n] \in SUBSET Ids
  BY JobOf, TypeParts DEF Shape, Types
<1>6. i = new
  BY <1>3
<1>7. Packed(i)' = {}
  BY <1>4, <1>5 DEF Packed
<1>8. Cardinality(Packed(i)') = 0
  BY <1>7, FS_EmptySet
<1>9. sourceFile'[i].status = "Created"
  BY <1>2, <1>3, <1>6
<1>10. i \notin job'.todo /\ i # job'.file
  BY <1>3, <1>4, <1>5, <1>6
<1>11. QED
  BY <1>7, <1>8, <1>9, <1>10 DEF Forward

\* The job takes a file it has read off its list.
LEMMA ForwardChecked ==
    ASSUME Shape, CheckReading, NEW i \in Ids, RowsOf(sourceFile[i].cid) = {i}, Forward(i)
    PROVE  Forward(i)'
<1>1. PICK j \in Ids : CheckRead(j)
  BY DEF CheckReading
<1> DEFINE c == sourceFile[j].cid
<1>2. FirstRow(c) \in RowsOf(c) /\ c \in Cids /\ j \in RowsOf(c)
  BY Rows, FirstRowOf DEF Shape, RowsOf
<1>3. /\ job.stage = "check" /\ job.file = 0 /\ j \in job.todo /\ UNCHANGED <<sourceFile, cars>>
      /\ CheckTake(j, FirstRow(c)) \/ CheckSkip(j)
  BY <1>1 DEF CheckRead, CheckNext
<1>4. i = FirstRow(c) => i = j
  BY <1>2 DEF RowsOf
<1>5. i # 0
  BY Rows DEF Shape
<1> HIDE DEF c
<1>6. /\ job'.stage = "check" /\ job'.todo = job.todo \ {j}
      /\ job'.file \in {0, FirstRow(c)}
  BY <1>3, JobOf DEF CheckTake, CheckSkip
<1>7. Packed(i)' = Packed(i)
  BY <1>3 DEF Packed
<1>8. i = job'.file => i = j
  BY <1>4, <1>5, <1>6
<1>9. i \in job'.todo \/ i = job'.file => i \in job.todo
  BY <1>3, <1>6, <1>8
<1>10. i = job'.file => i \notin job'.todo
  BY <1>6, <1>8
<1>11. QED
  BY <1>3, <1>6, <1>7, <1>9, <1>10 DEF Forward

LEMMA ForwardWritten ==
    ASSUME Shape, CheckWrite, NEW i \in Ids, Forward(i)
    PROVE  Forward(i)'
<1>1. job.file \in Ids /\ CreateEventLockPayment(job.file, job.ev, "owner") /\ job.stage = "check"
  BY JobOf DEF CheckWrite
<1>2. /\ \A j \in Ids : sourceFile'[j].status \in {sourceFile[j].status, "Paid"}
      /\ \A j \in Ids : j # job.file => sourceFile'[j] = sourceFile[j]
  BY <1>1, EventCreated
<1>3. job'.stage = "check" /\ job'.file = 0 /\ job'.todo = job.todo /\ cars' = cars
  BY <1>1, JobOf DEF CheckWrite
<1>4. Packed(i)' = Packed(i)
  BY <1>3 DEF Packed
<1>5. i # 0
  BY Rows DEF Shape
<1>6. CASE i = job.file
  <2>1. sourceFile[i].status = "Created" /\ Packed(i) = {} /\ i \notin job.todo
    BY <1>1, <1>6 DEF Forward
  <2>2. QED
    BY <1>3, <1>4, <1>5, <2>1 DEF Forward
<1>7. CASE i # job.file
  BY <1>1, <1>2, <1>3, <1>4, <1>5, <1>7 DEF Forward
<1>8. QED
  BY <1>6, <1>7

LEMMA ForwardSaved ==
    ASSUME Shape, PackSave, NEW i \in Ids, Forward(i)
    PROVE  Forward(i)'
<1>1. job'.stage = "check" /\ job'.todo = {} /\ job'.file = 0 /\ job.stage = "tasked"
  BY DEF PackSave, JobIdle
<1>2. i # 0
  BY Rows DEF Shape
<1>3. CASE i \in job.todo
  <2>1. Packed(i) = {}
    BY <1>1, <1>3 DEF Forward
  <2>2. Packed(i)' = {Len(cars) + 1}
    BY <1>3, <2>1, Saved DEF Packed, CarsKept
  <2>3. Cardinality(Packed(i)') = 1
    BY <2>2, FS_Singleton
  <2>4. sourceFile'[i].status = "TaskCreated"
    <3>1. sourceFile'[i] = [sourceFile[i] EXCEPT !.status = "TaskCreated"] /\ sourceFile[i] \in Row
      BY <1>3, Saved, Rows DEF Shape
    <3>2. QED
      BY <3>1 DEF Row
  <2>5. QED
    BY <1>1, <1>2, <2>3, <2>4 DEF Forward
<1>4. CASE i \notin job.todo
  <2>1. Packed(i)' = Packed(i)
    BY <1>4, Saved DEF Packed, CarsKept
  <2>2. sourceFile'[i] = sourceFile[i]
    BY <1>4, Saved
  <2>3. QED
    BY <1>1, <1>2, <2>1, <2>2 DEF Forward
<1>5. QED
  BY <1>3, <1>4

LEMMA ForwardOther ==
    ASSUME Shape, [Next]_vars, sourceFile' = sourceFile, ~PackSave, ~CheckWrite, ~CheckReading,
           NEW i \in Ids, Forward(i)
    PROVE  Forward(i)'
<1>1. cars' = cars
  BY Writers
<1>2. Packed(i)' = Packed(i) /\ i # 0
  BY <1>1, Rows DEF Packed, Shape
<1>3. CASE job' = job
  BY <1>2, <1>3 DEF Forward
<1>4. CASE JobBegin
  <2>1. job'.stage = "check" /\ job'.file = 0 /\ job'.todo = {j \in Ids : sourceFile[j].status = "Created"}
    BY <1>4 DEF JobBegin, JobIdle
  <2>2. QED
    BY <1>2, <2>1 DEF Forward
<1>5. CASE CheckFails
  <2>1. job'.stage = job.stage /\ job'.file = 0 /\ job'.todo = job.todo
    BY <1>5, JobOf DEF CheckFails
  <2>2. QED
    BY <1>2, <2>1 DEF Forward
<1>6. CASE PackBeginning
  <2>1. PICK S \in SUBSET Ids : PackBegin(S)
    BY <1>6 DEF PackBeginning
  <2>2. job'.stage = "tasked" /\ job'.file = 0 /\ job'.todo = S
    BY <2>1 DEF PackBegin, JobIdle
  <2>3. i \in S => sourceFile[i].status = "Paid"
    BY <2>1, NeedEvents
  <2>4. QED
    BY <1>2, <2>2, <2>3 DEF Forward
<1>7. CASE PackEnds \/ Crash
  <2>1. job' = JobIdle
    BY <1>7 DEF PackEnds, PackNothing, PackRefused, PackFails, Crash
  <2>2. QED
    BY <1>2, <2>1 DEF Forward, JobIdle
<1>8. QED
  BY <1>3, <1>4, <1>5, <1>6, <1>7, Writers

LEMMA ForwardStep ==
    ASSUME Shape, SingleRowForward, [Next]_vars
    PROVE  SingleRowForward'
<1>1. SUFFICES ASSUME NoNotices', NoMints', NEW i \in Ids', RowsOf(sourceFile[i].cid)' = {i}
               PROVE  Forward(i)'
  BY ForwardParts
<1>2. NoNotices /\ NoMints /\ ~NoticeWriting /\ ~MintSaving
  BY <1>1, NoticesQuiet, MintsQuiet
<1>3. CASE i \in Ids
  <2>1. RowsOf(sourceFile[i].cid) = {i}
    BY <1>1, <1>3, BoxShape DEF RowsOf, RowsKept
  <2>2. Forward(i)
    BY <1>2, <1>3, <2>1, ForwardParts
  <2>3. CASE Inserting
    <3>1. UNCHANGED <<cars, job>> /\ sourceFile'[i] = sourceFile[i]
      BY <1>3, <2>3, InsertRow DEF Shape, Inserting, UploadInsert
    <3>2. QED
      BY <2>2, <3>1 DEF Forward, Packed
  <2>4. QED
    BY <1>2, <1>3, <2>1, <2>2, <2>3, Writers, ForwardChecked, ForwardWritten, ForwardSaved, ForwardOther
<1>4. CASE i \notin Ids
  BY <1>1, <1>4, IdsOf, ForwardNew
<1>5. QED
  BY <1>3, <1>4

(***************************************************************************)
(* Tasks and car files.                                                    *)
(***************************************************************************)
Matches(s, x) == {m \in DOMAIN s : s[m] = x}

LEMMA MatchesFinite ==
    ASSUME NEW T, NEW s \in Seq(T), NEW x
    PROVE  IsFiniteSet(Matches(s, x)) /\ Cardinality(Matches(s, x)) \in Nat
<1>1. DOMAIN s = 1 .. Len(s) /\ Len(s) \in Nat
  OBVIOUS
<1>2. IsFiniteSet(1 .. Len(s))
  BY <1>1, FS_Interval
<1>3. Matches(s, x) \subseteq 1 .. Len(s)
  BY <1>1 DEF Matches
<1>4. QED
  BY <1>2, <1>3, FS_Subset, FS_CardinalityType

LEMMA MatchesAppend ==
    ASSUME NEW T, NEW s \in Seq(T), NEW e \in T, NEW x
    PROVE  Cardinality(Matches(Append(s, e), x)) = Cardinality(Matches(s, x)) + (IF e = x THEN 1 ELSE 0)
<1> DEFINE t == Append(s, e)
           new == Len(s) + 1
<1>1. /\ DOMAIN t = DOMAIN s \cup {new} /\ new \notin DOMAIN s
      /\ t[new] = e /\ \A m \in DOMAIN s : t[m] = s[m]
  OBVIOUS
<1>2. IsFiniteSet(Matches(s, x)) /\ Cardinality(Matches(s, x)) \in Nat
  BY MatchesFinite
<1> HIDE DEF t, new
<1>3. CASE e = x
  <2>1. Matches(t, x) = Matches(s, x) \cup {new} /\ new \notin Matches(s, x)
    BY <1>1, <1>3 DEF Matches
  <2>2. Cardinality(Matches(t, x)) = Cardinality(Matches(s, x)) + 1
    BY <1>2, <2>1, FS_AddElement
  <2>3. QED
    BY <1>3, <2>2 DEF t
<1>4. CASE e # x
  <2>1. Matches(t, x) = Matches(s, x)
    BY <1>1, <1>4 DEF Matches
  <2>2. QED
    BY <1>2, <1>4, <2>1 DEF t
<1>5. QED
  BY <1>3, <1>4

LEMMA TasksParts ==
    /\ TasksForCars <=> \A S \in SUBSET Ids :
          Cardinality(Matches(cars, S)) + InTask(S) <= Cardinality(Matches(tasks, S))
    /\ TasksForCars' <=> \A S \in SUBSET Ids' :
          Cardinality(Matches(cars', S)) + InTask(S)' <= Cardinality(Matches(tasks', S))
BY DEF TasksForCars, Matches

\* Sets that hold a row that is being inserted have no task and no car file.
LEMMA TasksForNoOther ==
    ASSUME Shape, TasksForCars
    PROVE  \A S : Cardinality(Matches(cars, S)) + InTask(S) <= Cardinality(Matches(tasks, S))
<1>1. SUFFICES ASSUME NEW S, S \notin SUBSET Ids
               PROVE  Cardinality(Matches(cars, S)) + InTask(S) <= Cardinality(Matches(tasks, S))
  BY TasksParts
<1>2. cars \in Seq(SUBSET Ids) /\ tasks \in Seq(SUBSET Ids) /\ job.todo \in SUBSET Ids
  BY JobOf, TypeParts DEF Shape, Types
<1>3. Matches(cars, S) = {}
  BY <1>1, <1>2 DEF Matches
<1>4. InTask(S) = 0
  BY <1>1, <1>2 DEF InTask
<1>5. Cardinality(Matches(tasks, S)) \in Nat
  BY <1>2, MatchesFinite
<1>6. QED
  BY <1>3, <1>4, <1>5, FS_EmptySet

LEMMA CheckStages ==
    ASSUME Shape, JobBegin \/ CheckReading \/ CheckWrite \/ CheckFails
    PROVE  job.stage # "tasked" /\ job'.stage # "tasked"
<1>1. CASE JobBegin
  BY <1>1 DEF JobBegin, JobIdle
<1>2. CASE CheckReading
  <2>1. PICK i \in Ids : CheckRead(i)
    BY <1>2 DEF CheckReading
  <2>2. job.stage = "check" /\ (CheckTake(i, FirstRow(sourceFile[i].cid)) \/ CheckSkip(i))
    BY <2>1 DEF CheckRead, CheckNext
  <2>3. job'.stage = "check"
    BY <2>2, JobOf DEF CheckTake, CheckSkip
  <2>4. QED
    BY <2>2, <2>3
<1>3. CASE CheckWrite \/ CheckFails
  BY <1>3, JobOf DEF CheckWrite, CheckFails
<1>4. QED
  BY <1>1, <1>2, <1>3

LEMMA InTaskType == ASSUME NEW S PROVE InTask(S) \in {0, 1} /\ InTask(S)' \in {0, 1}
BY DEF InTask

LEMMA Begun ==
    ASSUME Shape, NEW S \in SUBSET Ids, PackBegin(S)
    PROVE  /\ job.stage = "check"
           /\ job'.stage = "tasked" /\ job'.todo = S /\ job'.twice \in BOOLEAN
           /\ tasks' = Append(tasks, S) \/ (job'.twice /\ tasks' = tasks)
           /\ cars' = cars /\ faults <= faults'
           /\ \E files \in SUBSET Need2Car :
                 /\ Cardinality(S) <= Length(files) /\ Length(files) <= Listed(S) /\ S \subseteq files
                 /\ job'.twice = (Cardinality(S) < Length(files))
<1>1. PICK left \in SUBSET Need2Car :
         LET files == Need2Car \ left
             twice == Cardinality(S) < Length(files)
         IN /\ S \in Packable(files)
            /\ IF left = {} THEN UNCHANGED faults ELSE Fault
            /\ Len(tasks) < MaxCars \/ twice
            /\ tasks' = IF Len(tasks) < MaxCars THEN Append(tasks, S) ELSE tasks
            /\ job' = [JobIdle EXCEPT !.stage = "tasked", !.todo = S, !.twice = twice]
  BY DEF PackBegin
<1> DEFINE files == Need2Car \ left
           twice == Cardinality(S) < Length(files)
<1>2. job.stage = "check" /\ cars' = cars
  BY DEF PackBegin, Checked
<1>3. twice \in BOOLEAN /\ files \in SUBSET Need2Car
  OBVIOUS
<1>4. Cardinality(S) <= Length(files) /\ Length(files) <= Listed(S) /\ S \subseteq files
  BY <1>1 DEF Packable, Taken
<1>5. Len(tasks) < MaxCars \/ twice
  BY <1>1
<1>6. job' = [JobIdle EXCEPT !.stage = "tasked", !.todo = S, !.twice = twice]
  BY <1>1
<1>7. faults <= faults'
  BY <1>1, TypeParts DEF Shape, Types, Fault
<1>8. tasks' = IF Len(tasks) < MaxCars THEN Append(tasks, S) ELSE tasks
  BY <1>1
<1>9. job'.twice = twice
  BY <1>6 DEF JobIdle
<1> HIDE DEF twice
<1>10. job'.stage = "tasked" /\ job'.todo = S
  BY <1>6 DEF JobIdle
<1>11. tasks' = Append(tasks, S) \/ (job'.twice /\ tasks' = tasks)
  BY <1>5, <1>8, <1>9
<1>12. QED
  BY <1>2, <1>3, <1>4, <1>7, <1>9, <1>10, <1>11 DEF twice

LEMMA TasksForCarsStep ==
    ASSUME Shape, TasksForCars, [Next]_vars
    PROVE  TasksForCars'
<1>1. SUFFICES ASSUME NEW S \in SUBSET Ids'
               PROVE  Cardinality(Matches(cars', S)) + InTask(S)' <= Cardinality(Matches(tasks', S))
  BY TasksParts
<1> DEFINE made == Cardinality(Matches(cars, S))
           asked == Cardinality(Matches(tasks, S))
<1>2. cars \in Seq(SUBSET Ids) /\ tasks \in Seq(SUBSET Ids) /\ job.todo \in SUBSET Ids
  BY JobOf, TypeParts DEF Shape, Types
<1>3. made \in Nat /\ asked \in Nat /\ made + InTask(S) <= asked
  BY <1>2, MatchesFinite, TasksForNoOther
<1>4. CASE PackBeginning
  <2>1. PICK T \in SUBSET Ids : PackBegin(T)
    BY <1>4 DEF PackBeginning
  <2>2. /\ job'.stage = "tasked" /\ job'.todo = T /\ cars' = cars
        /\ tasks' = Append(tasks, T) \/ (job'.twice /\ tasks' = tasks)
    BY <2>1, Begun
  <2>3. CASE tasks' = Append(tasks, T)
    <3>1. Cardinality(Matches(tasks', S)) = asked + (IF T = S THEN 1 ELSE 0)
      BY <1>2, <2>3, MatchesAppend
    <3>2. InTask(S)' <= IF T = S THEN 1 ELSE 0
      BY <2>2 DEF InTask
    <3>3. Cardinality(Matches(cars', S)) = made
      BY <2>2
    <3> HIDE DEF made, asked
    <3>4. QED
      BY <1>3, <3>1, <3>2, <3>3, InTaskType
  <2>4. CASE job'.twice /\ tasks' = tasks
    <3>1. InTask(S)' = 0
      BY <2>4 DEF InTask
    <3>2. Cardinality(Matches(cars', S)) = made /\ Cardinality(Matches(tasks', S)) = asked
      BY <2>2, <2>4
    <3> HIDE DEF made, asked
    <3>3. QED
      BY <1>3, <3>1, <3>2, InTaskType
  <2>5. QED
    BY <2>2, <2>3, <2>4
<1>5. CASE PackSave
  <2>1. cars' = Append(cars, job.todo) /\ tasks' = tasks /\ job'.stage = "check"
    BY <1>5 DEF PackSave, JobIdle
  <2>2. InTask(S) = IF job.todo = S THEN 1 ELSE 0
    BY <1>5 DEF PackSave, InTask
  <2>3. InTask(S)' = 0
    BY <2>1 DEF InTask
  <2>4. Cardinality(Matches(cars', S)) = made + (IF job.todo = S THEN 1 ELSE 0)
    BY <1>2, <2>1, MatchesAppend
  <2>5. Cardinality(Matches(tasks', S)) = asked
    BY <2>1
  <2> HIDE DEF made, asked
  <2>6. QED
    BY <1>3, <2>2, <2>3, <2>4, <2>5
<1>6. CASE ~PackBeginning /\ ~PackSave
  <2>1. cars' = cars /\ tasks' = tasks
    BY <1>6, Writers
  <2>2. InTask(S)' <= InTask(S)
    <3>1. CASE job' = job
      BY <3>1, InTaskType DEF InTask
    <3>2. CASE JobBegin \/ CheckReading \/ CheckWrite \/ CheckFails \/ PackEnds \/ Crash
      <4>1. job'.stage # "tasked"
        BY <3>2, CheckStages DEF PackEnds, PackNothing, PackRefused, PackFails, Crash, JobIdle
      <4>2. QED
        BY <4>1, InTaskType DEF InTask
    <3>3. QED
      BY <1>6, <3>1, <3>2, Writers
  <2>3. Cardinality(Matches(cars', S)) = made /\ Cardinality(Matches(tasks', S)) = asked
    BY <2>1
  <2> HIDE DEF made, asked
  <2>4. QED
    BY <1>3, <2>2, <2>3, InTaskType
<1>7. QED
  BY <1>4, <1>5, <1>6

\* With one event row for each file the list names no file twice.
LEMMA ListedOnce ==
    ASSUME Shape, \A c \in Cids : Len(eventLock[c]) <= 1, NEW S \in SUBSET Ids
    PROVE  /\ IsFiniteSet(S) /\ Cardinality(S) \in Nat /\ Listed(S) \in Int
           /\ Listed(S) <= Cardinality(S)
<1> DEFINE pairs == UNION {{i} \X EventsOfFile(i) : i \in S}
<1>1. IsFiniteSet(S) /\ Cardinality(S) \in Nat
  <2>1. Ids = 1 .. Len(sourceFile) /\ Len(sourceFile) \in Nat
    BY Rows DEF Shape
  <2>2. IsFiniteSet(Ids)
    BY <2>1, FS_Interval
  <2>3. QED
    BY <2>2, FS_Subset, FS_CardinalityType
<1>2. \A i \in S : EventsOfFile(i) \subseteq {1}
  <2>1. SUFFICES ASSUME NEW i \in S PROVE EventsOfFile(i) \subseteq {1}
    OBVIOUS
  <2>2. sourceFile[i].cid \in Cids
    BY Rows DEF Shape
  <2> DEFINE rows == eventLock[sourceFile[i].cid]
  <2>3. DOMAIN rows = 1 .. Len(rows) /\ Len(rows) \in Nat /\ Len(rows) <= 1
    BY <2>2, EventShape DEF Shape
  <2>4. EventsOfFile(i) \subseteq DOMAIN rows
    BY DEF EventsOfFile
  <2> HIDE DEF rows
  <2>5. QED
    BY <2>3, <2>4
<1>3. pairs \subseteq S \X {1}
  BY <1>2
<1>4. IsFiniteSet(S \X {1}) /\ Cardinality(S \X {1}) = Cardinality(S)
  <2>1. IsFiniteSet({1}) /\ Cardinality({1}) = 1
    BY FS_Singleton
  <2>2. IsFiniteSet(S \X {1}) /\ Cardinality(S \X {1}) = Cardinality(S) * Cardinality({1})
    BY <1>1, <2>1, FS_Product
  <2>3. QED
    BY <1>1, <2>1, <2>2
<1>5. Listed(S) = Cardinality(pairs)
  BY DEF Listed
<1> HIDE DEF pairs
<1>6. Cardinality(pairs) \in Nat /\ Cardinality(pairs) <= Cardinality(S)
  BY <1>3, <1>4, FS_Subset, FS_CardinalityType
<1>7. QED
  BY <1>1, <1>5, <1>6

LEMMA LengthType ==
    ASSUME Shape, \A c \in Cids : Len(eventLock[c]) <= 1, NEW S \in SUBSET Ids
    PROVE  Length(S) \in Int
<1>1. Listed(S) \in Int /\ MinFileSize \in Int
  BY ListedOnce, ConstantsAssumption
<1> DEFINE two == {MinFileSize, Listed(S)}
<1>2. \E x \in two : \A y \in two : x <= y
  BY <1>1
<1>3. Length(S) \in two
  <2>1. Length(S) = CHOOSE x \in two : \A y \in two : x <= y
    BY DEF Length, Min
  <2> HIDE DEF two
  <2>2. QED
    BY <1>2, <2>1
<1>4. QED
  BY <1>1, <1>3

LEMMA EventsGrow ==
    ASSUME Shape, [Next]_vars, NEW c \in Cids
    PROVE  Len(eventLock[c]) <= Len(eventLock'[c]) /\ Len(eventLock[c]) \in Nat /\ Len(eventLock'[c]) \in Nat
<1>1. Len(eventLock[c]) \in Nat /\ Len(eventLock'[c]) \in Nat
  BY BoxShape, TypeParts DEF Shape, Types
<1>2. CASE eventLock' = eventLock
  BY <1>1, <1>2
<1>3. ASSUME NEW i \in Ids, NEW ev, NEW from \in {"owner", "other"}, CreateEventLockPayment(i, ev, from)
      PROVE  Len(eventLock[c]) <= Len(eventLock'[c])
  <2> DEFINE d == sourceFile[i].cid
  <2>1. Len(eventLock'[d]) >= Len(eventLock[d]) /\ \A b \in Cids : b # d => eventLock'[b] = eventLock[b]
    BY <1>3, EventCreated
  <2> HIDE DEF d
  <2>2. QED
    BY <1>1, <2>1
<1>4. CASE NoticeWriting
  <2>1. PICK r \in Notices : NoticeWrite(r)
    BY <1>4 DEF NoticeWriting
  <2>2. notice[r].file \in Ids /\ notice[r].from \in {"owner", "other"}
    BY <2>1, NoticeShape DEF Shape, NoticeWrite
  <2>3. QED
    BY <1>1, <1>3, <2>1, <2>2 DEF NoticeWrite
<1>5. CASE CheckWrite
  <2>1. job.file \in Ids /\ CreateEventLockPayment(job.file, job.ev, "owner")
    BY <1>5, JobOf DEF CheckWrite
  <2>2. QED
    BY <1>1, <1>3, <2>1
<1>6. QED
  BY <1>2, <1>4, <1>5, Writers

LEMMA TasksLeftOverStep ==
    ASSUME Shape, TasksLeftOver, [Next]_vars
    PROVE  TasksLeftOver'
<1>1. SUFFICES ASSUME \A c \in Cids : Len(eventLock'[c]) <= 1
               PROVE  /\ job'.stage = "tasked" => ~job'.twice
                      /\ Len(tasks') <= Len(cars') + faults' + (IF job'.stage = "tasked" THEN 1 ELSE 0)
  BY DEF TasksLeftOver
<1>2. \A c \in Cids : Len(eventLock[c]) <= 1
  BY <1>1, EventsGrow
<1>3. /\ job.stage = "tasked" => ~job.twice
      /\ Len(tasks) <= Len(cars) + faults + (IF job.stage = "tasked" THEN 1 ELSE 0)
  BY <1>2 DEF TasksLeftOver
<1>4. tasks \in Seq(SUBSET Ids) /\ cars \in Seq(SUBSET Ids) /\ faults \in Nat
  BY TypeParts, ConstantsAssumption DEF Shape, Types
<1>5. Len(tasks) \in Nat /\ Len(cars) \in Nat
  BY <1>4
<1>6. faults' \in Nat
  BY BoxShape, TypeParts, ConstantsAssumption DEF Shape, Types
<1>7. CASE PackBeginning
  <2>1. PICK S \in SUBSET Ids : PackBegin(S)
    BY <1>7 DEF PackBeginning
  <2>2. PICK files \in SUBSET Need2Car :
           /\ Cardinality(S) <= Length(files) /\ Length(files) <= Listed(S) /\ S \subseteq files
           /\ job'.twice = (Cardinality(S) < Length(files))
    BY <2>1, Begun
  <2>3. files \in SUBSET Ids
    BY DEF Need2Car
  <2>4. Listed(S) <= Cardinality(S) /\ Listed(S) \in Int /\ Cardinality(S) \in Nat /\ Length(files) \in Int
    BY <1>2, <2>3, ListedOnce, LengthType
  <2>5. ~(Cardinality(S) < Length(files))
    BY <2>2, <2>4
  <2>6. ~job'.twice
    BY <2>2, <2>5
  <2>7. tasks' = Append(tasks, S) /\ cars' = cars /\ faults <= faults' /\ job.stage = "check" /\ job'.stage = "tasked"
    BY <2>1, <2>6, Begun
  <2>8. Len(tasks') = Len(tasks) + 1
    BY <1>4, <2>7
  <2>9. QED
    BY <1>3, <1>4, <1>5, <1>6, <2>6, <2>7, <2>8
<1>8. CASE PackSave
  <2>1. /\ Len(cars') = Len(cars) + 1 /\ tasks' = tasks /\ faults' = faults
        /\ job.stage = "tasked" /\ job'.stage = "check"
    BY <1>8, Saved DEF PackSave, JobIdle
  <2>2. QED
    BY <1>3, <1>4, <1>5, <2>1
<1>9. CASE PackEnds \/ Crash
  <2>1. /\ job'.stage = "idle" /\ tasks' = tasks /\ cars' = cars
        /\ (job.stage = "tasked" /\ ~job.twice) => faults' = faults + 1
        /\ faults' = faults \/ faults' = faults + 1
    BY <1>9 DEF PackEnds, PackNothing, Checked, PackRefused, PackFails, Crash, JobIdle, Fault
  <2>2. QED
    BY <1>3, <1>4, <1>5, <2>1
<1>10. CASE ~PackBeginning /\ ~PackSave /\ ~PackEnds /\ ~Crash
  <2>1. tasks' = tasks /\ cars' = cars
    BY <1>10, Writers
  <2>2. faults <= faults'
    BY <1>4, <1>10, Writers DEF CheckFails, PackEnds, Fault
  <2>3. CASE job' = job
    BY <1>3, <1>4, <1>5, <1>6, <2>1, <2>2, <2>3
  <2>4. CASE JobBegin \/ CheckReading \/ CheckWrite \/ CheckFails
    <3>1. job.stage # "tasked" /\ job'.stage # "tasked"
      BY <2>4, CheckStages
    <3>2. QED
      BY <1>3, <1>4, <1>5, <1>6, <2>1, <2>2, <3>1
  <2>5. QED
    BY <1>10, <2>3, <2>4, Writers
<1>11. QED
  BY <1>7, <1>8, <1>9, <1>10

(***************************************************************************)
(* The invariant.                                                          *)
(***************************************************************************)
LEMMA Start ==
    ASSUME Init
    PROVE  IInv
<1>1. Ids = {} /\ (\A c : RowsOf(c) = {}) /\ sourceFile \in Seq(Row)
  BY DEF Init, Ids, RowsOf
<1>2. \A r \in Uploads : upload[r] = [stage |-> "idle"]
  BY DEF Init
<1>3. \A r \in Notices : notice[r] = [stage |-> "idle"]
  BY DEF Init
<1>4. \A r \in Mints : mint[r] = [stage |-> "idle"]
  BY DEF Init
<1>5. job.stage = "idle" /\ job.file = 0 /\ job.todo = {} /\ job \in JobTypes(Ids)
  BY DEF Init, JobIdle, JobTypes
<1>6. /\ eventLock = [c \in Cids |-> <<>>] /\ cars = <<>> /\ tasks = <<>>
      /\ locked = {} /\ everLocked = {} /\ aged = {} /\ faults = 0
  BY DEF Init
<1>7. TypeOK
  <2>1. upload \in UploadTypes
    BY DEF Init, UploadTypes
  <2>2. notice \in NoticeTypes(Ids)
    BY DEF Init, NoticeTypes
  <2>3. mint \in MintTypes(Ids)
    BY DEF Init, MintTypes
  <2>4. eventLock \in [Cids -> Seq(EventRow)] /\ EventsKnown
    BY <1>6 DEF EventsKnown
  <2>5. faults \in 0 .. MaxFaults
    BY <1>6, ConstantsAssumption
  <2>6. Types
    BY <1>1, <1>5, <1>6, <2>1, <2>2, <2>3, <2>4, <2>5 DEF Types
  <2>7. QED
    BY <2>6, TypeParts
<1>8. JobShape /\ MintRowsKnown /\ TimesDiffer /\ TaskCreatedIsPacked
  BY <1>1, <1>2, <1>4, <1>5 DEF JobShape, MintRowsKnown, TimesDiffer, TaskCreatedIsPacked
<1>9. TasksForCars
  <2>1. SUFFICES ASSUME NEW S \in SUBSET Ids
                 PROVE  Cardinality(Matches(cars, S)) + InTask(S) <= Cardinality(Matches(tasks, S))
    BY TasksParts
  <2>2. Matches(cars, S) = {} /\ Matches(tasks, S) = {} /\ InTask(S) = 0
    BY <1>5, <1>6 DEF Matches, InTask
  <2>3. QED
    BY <2>2, FS_EmptySet
<1>10. TasksLeftOver
  BY <1>5, <1>6 DEF TasksLeftOver
<1>11. EventsOfFirst
  <2>1. EventRowsFirst /\ NoticesFirst /\ JobFirst /\ CarsFirst
    BY <1>3, <1>5, <1>6 DEF EventRowsFirst, NoticesFirst, JobFirst, CarsFirst
  <2>2. QED
    BY <2>1, FirstParts
<1>12. SingleRowForward
  BY <1>1 DEF SingleRowForward
<1>13. OnlyLocked
  <2>1. LockedEvents /\ LockedJob /\ LockedCars
    BY <1>5, <1>6 DEF LockedEvents, LockedJob, LockedCars
  <2>2. QED
    BY <2>1, LockedParts
<1>14. QED
  BY <1>7, <1>8, <1>9, <1>10, <1>11, <1>12, <1>13 DEF IInv

LEMMA Step ==
    ASSUME IInv, [Next]_vars
    PROVE  IInv'
<1>1. Shape
  BY DEF IInv, Shape
<1>2. Shape' /\ TimesDiffer'
  BY <1>1, BoxShape, TimesStep DEF IInv
<1>3. TasksForCars' /\ TasksLeftOver'
  BY <1>1, TasksForCarsStep, TasksLeftOverStep DEF IInv
<1>4. EventsOfFirst' /\ SingleRowForward' /\ OnlyLocked'
  BY <1>1, FirstStep, ForwardStep, LockedStep DEF IInv
<1>5. QED
  BY <1>2, <1>3, <1>4 DEF IInv, Shape

\* In every state requests and job have read what is still so: see the conjuncts of IInv
\* above, one for each table, request or stage of the job.
THEOREM Invariant == Spec => []IInv
<1>1. QED
  BY Start, Step, PTL DEF Spec

LEMMA CarsHaveTasksHolds ==
    ASSUME IInv
    PROVE  CarsHaveTasks
<1>1. ASSUME NEW n \in DOMAIN cars
      PROVE  Cardinality({m \in DOMAIN cars : cars[m] = cars[n]}) <=
             Cardinality({m \in DOMAIN tasks : tasks[m] = cars[n]})
  <2>1. cars \in Seq(SUBSET Ids) /\ tasks \in Seq(SUBSET Ids)
    BY TypeParts DEF IInv, Types
  <2> DEFINE S == cars[n]
             made == Cardinality(Matches(cars, S))
             asked == Cardinality(Matches(tasks, S))
  <2>2. S \in SUBSET Ids
    BY <1>1, <2>1
  <2> HIDE DEF S
  <2>3. made \in Nat /\ asked \in Nat
    BY <2>1, MatchesFinite
  <2>4. made + InTask(S) <= asked /\ InTask(S) \in {0, 1}
    BY <2>2, TasksParts, InTaskType DEF IInv
  <2> HIDE DEF made, asked
  <2>5. made <= asked
    BY <2>3, <2>4
  <2>6. QED
    BY <2>5 DEF made, asked, S, Matches
<1>2. QED
  BY <1>1 DEF IInv, TasksLeftOver, CarsHaveTasks

\* A source file is TaskCreated only if it is in a car file, and each car file in the
\* database has a task of its own on the Swan platform: whatever fails between CmdTask and
\* the end of saveCarInfo2DB, and whatever the requests write meanwhile.
THEOREM FilesKept == Spec => []FilesInv
<1>1. IInv => FilesInv
  BY CarsHaveTasksHolds DEF IInv, FilesInv
<1>2. QED
  BY <1>1, Invariant, PTL

\* Of the rows that uploads at once make of one file, only one that was the earliest by
\* create_at when it was inserted is ever packed.
THEOREM FirstPacked == Spec => []FirstRowIsPacked
<1>1. IInv => FirstRowIsPacked
  BY DEF IInv, EventsOfFirst
<1>2. QED
  BY <1>1, Invariant, PTL

\* Before the first notice and mint record a file of which there is one row is in at most
\* one car file, also if tasks fail, the process crashes and the job starts again.
THEOREM PackedOnceBefore == Spec => []SingleRowPackedOnce
<1>1. IInv => SingleRowPackedOnce
  BY Zenon DEF IInv, SingleRowForward, SingleRowPackedOnce
<1>2. QED
  BY <1>1, Invariant, PTL

\* Before the first notice all files that are packed were paid in the contract.
THEOREM PackedWasLocked == Spec => []PackedIsLocked
<1>1. IInv => PackedIsLocked
  BY DEF IInv, OnlyLocked, PackedIsLocked, Packed
<1>2. QED
  BY <1>1, Invariant, PTL
=============================================================================
