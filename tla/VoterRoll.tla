------------------------------ MODULE VoterRoll ------------------------------
(***************************************************************************)
(* Who is on the roll: enrolment of voters one by one and in batches and   *)
(* their deletion (services/voter_service.py), and the bulk import with    *)
(* its preview, confirmation and cancellation (services/import_service.py).*)
(*                                                                         *)
(* An enrolled voter's number is also the primary key of the row, so that  *)
(* the database refuses a second one; an imported voter's key is a UUID    *)
(* and nothing but the preview keeps its number unique.  A request is one  *)
(* READ COMMITTED transaction, used once; a unique key that another        *)
(* transaction has inserted makes an INSERT wait until that one ends.      *)
(***************************************************************************)
EXTENDS Naturals, FiniteSets, Sequences

CONSTANTS
  Numbers,    \* voter_id_number: the official number of a person, as written
  Upper,      \* the number stripped and in upper case
  Elections,  \* rows of elections
  Enrols,     \* requests to POST /voters and /voters/batch
  Uploads,    \* requests to POST /imports/upload; each names the job it creates
  Confirms,   \* requests to POST /imports/confirm
  Cancels,    \* requests to DELETE /imports/{job_id}
  Deletes,    \* requests to DELETE /voters/{id} and /voters/bulk
  Batches,    \* bound: the numbers that an enrolment may list, in order
  None        \* no job, no election, no owner of a lock

Requests == Enrols \cup Uploads \cup Confirms \cup Cancels \cup Deletes

Kinds == <<Enrols, Uploads, Confirms, Cancels, Deletes>>

ASSUME RollAssumption ==
  /\ \A i, j \in DOMAIN Kinds : i # j => Kinds[i] \cap Kinds[j] = {}
  /\ Upper \in [Numbers -> Numbers] /\ \A n \in Numbers : Upper[Upper[n]] = Upper[n]
  /\ Batches \subseteq Seq(Numbers) \ {<<>>}
  /\ None \notin Requests \cup Elections

VARIABLES
  voters,      \* rows of voters
  job_status,  \* import_jobs.status, "NONE" before the upload, "DELETED" after
               \* the cancellation
  records,     \* import_jobs.report_json: the numbers that a job is to import
  job_for,     \* import_jobs.election_id
  job_lock,    \* the request that holds the lock on a job's row
  pc,          \* the request's next statement
  batch,       \* the numbers that an enrolment has still to enter
  election,    \* the election that an enrolment or an upload names
  entered,     \* the rows that an enrolment has inserted and not committed
  job,         \* the job that a confirmation or cancellation names
  chosen,      \* the keys that a deletion names
  before,      \* history: the rows a check for duplicates could see
  overlapped   \* history: pairs of requests on one job, in flight together

jobs    == <<job_status, records, job_for>>
locals  == <<batch, election, entered, job, chosen>>
history == <<before, overlapped>>
vars    == <<voters, jobs, job_lock, pc, locals, history>>

\* A voter's row; by is the request that inserted it.
Row == [number : Numbers, election : Elections, by : Enrols \cup Confirms]

\* The primary key: the number alone for an enrolled voter.
Key(x) == [number |-> x.number, by |-> IF x.by \in Enrols THEN None ELSE x.by]

Keys == [number : Numbers, by : Confirms \cup {None}]

JobStatus == {"NONE", "PREVIEW_READY", "COMPLETED", "DELETED"}

Step == {"new", "check", "insert", "flush", "commit", "done", "failed"}

InFlight(r) == pc[r] \notin {"new", "done", "failed"}

Goto(r, step) == pc' = [pc EXCEPT ![r] = step]

\* The end of a request: what it inserted and did not commit is gone, its
\* locks are free.
End(r, step) ==
  /\ Goto(r, step)
  /\ entered' = [entered EXCEPT ![r] = {}]
  /\ batch' = [batch EXCEPT ![r] = <<>>]
  /\ job_lock' = [j \in Uploads |-> IF job_lock[j] = r THEN None ELSE job_lock[j]]
  /\ UNCHANGED <<election, job, chosen>>

Fail(r) == End(r, "failed") /\ UNCHANGED <<voters, jobs>>

Init ==
  /\ voters = {}
  /\ job_status = [j \in Uploads |-> "NONE"]
  /\ records = [j \in Uploads |-> {}]
  /\ job_for = [j \in Uploads |-> None]
  /\ job_lock = [j \in Uploads |-> None]
  /\ pc = [r \in Requests |-> "new"]
  /\ batch = [r \in Requests |-> <<>>]
  /\ election = [r \in Requests |-> None]
  /\ entered = [r \in Requests |-> {}]
  /\ job = [r \in Requests |-> None]
  /\ chosen = [r \in Requests |-> {}]
  /\ before = [r \in Requests |-> {}]
  /\ overlapped = {}

(***************************************************************************)
(* create_voter and create_batch: for one entry after another a query for  *)
(* the number and the INSERT, of the number as it is written.              *)
(***************************************************************************)
EnrolStart(r, numbers, e) ==
  /\ pc[r] = "new"
  /\ Goto(r, "check")
  /\ batch' = [batch EXCEPT ![r] = numbers]
  /\ election' = [election EXCEPT ![r] = e]
  /\ UNCHANGED <<voters, jobs, job_lock, entered, job, chosen, history>>

\* A row of any election with that key or number, one of the same batch
\* included, refuses the whole request.
EnrolCheck(r) ==
  LET n == Head(batch[r]) IN
  /\ pc[r] = "check"
  /\ before' = [before EXCEPT ![r] = @ \cup {x \in voters : x.number = n}]
  /\ IF \E x \in voters \cup entered[r] : x.number = n
       THEN Fail(r)
       ELSE Goto(r, "insert") /\ UNCHANGED <<voters, jobs, job_lock, locals>>
  /\ UNCHANGED overlapped

\* q has inserted the key that r is about to insert.
WaitsFor(r, q) ==
  /\ r # q
  /\ pc[r] = "insert"
  /\ \E x \in entered[q] : x.number = Head(batch[r])

EnrolInsert(r) ==
  LET n == Head(batch[r]) IN
  /\ pc[r] = "insert"
  /\ \A q \in Enrols : ~WaitsFor(r, q)
  /\ IF \E x \in voters : Key(x) = [number |-> n, by |-> None]
       THEN Fail(r)
       ELSE /\ entered' = [entered EXCEPT ![r] =
                             @ \cup {[number |-> n, election |-> election[r], by |-> r]}]
            /\ batch' = [batch EXCEPT ![r] = Tail(@)]
            /\ Goto(r, IF Len(batch[r]) = 1 THEN "commit" ELSE "check")
            /\ UNCHANGED <<voters, jobs, job_lock, election, job, chosen>>
  /\ UNCHANGED history

EnrolCommit(r) ==
  /\ pc[r] = "commit"
  /\ voters' = voters \cup entered[r]
  /\ End(r, "done")
  /\ UNCHANGED <<jobs, history>>

(***************************************************************************)
(* process_upload_and_preview.  A number of the file is put in upper case  *)
(* and then compared with those on the roll, which are not.  The rows of   *)
(* the file that name a number twice, or none, are left out; the job       *)
(* becomes visible with the commit.                                        *)
(***************************************************************************)
\* Mutant of UploadRead: duplicates are looked for in the file alone.
UploadReadFileOnly(u, file, e) ==
  /\ pc[u] = "new"
  /\ Goto(u, "commit")
  /\ records' = [records EXCEPT ![u] = {Upper[n] : n \in file}]
  /\ election' = [election EXCEPT ![u] = e]
  /\ before' = [before EXCEPT ![u] = voters]
  /\ UNCHANGED <<voters, job_status, job_for, job_lock, batch, entered, job, chosen, overlapped>>

UploadRead(u, file, e) ==
  /\ pc[u] = "new"
  /\ Goto(u, "commit")
  /\ records' = [records EXCEPT ![u] =
                    {Upper[n] : n \in file} \ {x.number : x \in {y \in voters : y.election = e}}]
  /\ election' = [election EXCEPT ![u] = e]
  /\ before' = [before EXCEPT ![u] = voters]
  /\ UNCHANGED <<voters, job_status, job_for, job_lock, batch, entered, job, chosen, overlapped>>

UploadCommit(u) ==
  /\ pc[u] = "commit"
  /\ job_status' = [job_status EXCEPT ![u] = "PREVIEW_READY"]
  /\ job_for' = [job_for EXCEPT ![u] = election[u]]
  /\ End(u, "done")
  /\ UNCHANGED <<voters, records, history>>

(***************************************************************************)
(* confirm_bulk_import and cancel_import.  Both read the job without a     *)
(* lock; the UPDATE and the DELETE are by primary key.                     *)
(***************************************************************************)
\* Mutant of ReadJob: a completed job may be confirmed again.
ReadJobAnyStatus(r, j) ==
  /\ pc[r] = "new"
  /\ job_status[j] \in {"PREVIEW_READY", "COMPLETED"}
  /\ Goto(r, "flush")
  /\ job' = [job EXCEPT ![r] = j]
  /\ overlapped' = overlapped \cup {{r, q} : q \in {p \in Requests : InFlight(p) /\ job[p] = j}}
  /\ UNCHANGED <<voters, jobs, job_lock, batch, election, entered, chosen, before>>

ReadJob(r, j) ==
  /\ pc[r] = "new"
  /\ job_status[j] = "PREVIEW_READY"
  /\ Goto(r, "flush")
  /\ job' = [job EXCEPT ![r] = j]
  /\ overlapped' = overlapped \cup {{r, q} : q \in {p \in Requests : InFlight(p) /\ job[p] = j}}
  /\ UNCHANGED <<voters, jobs, job_lock, batch, election, entered, chosen, before>>

\* Mutant of FlushConfirm: a job that is gone is no error.
FlushConfirmGone(c) ==
  /\ pc[c] = "flush"
  /\ job_lock[job[c]] = None
  /\ job_lock' = [job_lock EXCEPT ![job[c]] = c]
  /\ Goto(c, "commit")
  /\ UNCHANGED <<voters, jobs, locals, history>>

\* The voters' rows are inserted and the job's row is updated, which is an
\* error of the ORM if it is gone.
FlushConfirm(c) ==
  /\ pc[c] = "flush"
  /\ job_lock[job[c]] = None
  /\ IF job_status[job[c]] = "DELETED"
       THEN Fail(c)
       ELSE /\ job_lock' = [job_lock EXCEPT ![job[c]] = c]
            /\ Goto(c, "commit")
            /\ UNCHANGED <<voters, jobs, locals>>
  /\ UNCHANGED history

ConfirmCommit(c) ==
  LET j == job[c] IN
  /\ pc[c] = "commit"
  /\ voters' = voters \cup [number : records[j], election : {job_for[j]}, by : {c}]
  /\ job_status' = [job_status EXCEPT ![j] = "COMPLETED"]
  /\ End(c, "done")
  /\ UNCHANGED <<records, job_for, history>>

\* A job that is gone by then is no error, and its row has no lock.
FlushCancel(x) ==
  /\ pc[x] = "flush"
  /\ job_lock[job[x]] = None
  /\ job_lock' = IF job_status[job[x]] = "DELETED"
                   THEN job_lock ELSE [job_lock EXCEPT ![job[x]] = x]
  /\ Goto(x, "commit")
  /\ UNCHANGED <<voters, jobs, locals, history>>

CancelCommit(x) ==
  /\ pc[x] = "commit"
  /\ job_status' = [job_status EXCEPT ![job[x]] = "DELETED"]
  /\ End(x, "done")
  /\ UNCHANGED <<voters, records, job_for, history>>

(***************************************************************************)
(* delete_voter and delete_voters_bulk: every key must name a row, and the *)
(* DELETE is by key, whatever row has it by then.                          *)
(***************************************************************************)
DeleteRead(d, keys) ==
  /\ pc[d] = "new"
  /\ keys # {} /\ keys \subseteq {Key(x) : x \in voters}
  /\ Goto(d, "commit")
  /\ chosen' = [chosen EXCEPT ![d] = keys]
  /\ UNCHANGED <<voters, jobs, job_lock, batch, election, entered, job, history>>

DeleteCommit(d) ==
  /\ pc[d] = "commit"
  /\ voters' = {x \in voters : Key(x) \notin chosen[d]}
  /\ End(d, "done")
  /\ UNCHANGED <<jobs, history>>

(***************************************************************************)
(* The surroundings: a request fails at any statement; batches that wait   *)
(* for each other's numbers are among those that do, as PostgreSQL ends    *)
(* one of them.                                                            *)
(***************************************************************************)
Abort(r) ==
  /\ InFlight(r)
  /\ Fail(r)
  /\ UNCHANGED history

Arrive ==
  \/ \E r \in Enrols, numbers \in Batches, e \in Elections : EnrolStart(r, numbers, e)
  \/ \E u \in Uploads, file \in SUBSET Numbers, e \in Elections : UploadRead(u, file, e)
  \/ \E r \in Confirms \cup Cancels, j \in Uploads : ReadJob(r, j)
  \/ \E d \in Deletes, keys \in SUBSET {Key(x) : x \in voters} : DeleteRead(d, keys)

EnrolStep(r)   == EnrolCheck(r) \/ EnrolInsert(r) \/ EnrolCommit(r)
UploadStep(u)  == UploadCommit(u)
ConfirmStep(c) == FlushConfirm(c) \/ ConfirmCommit(c)
CancelStep(x)  == FlushCancel(x) \/ CancelCommit(x)
DeleteStep(d)  == DeleteCommit(d)

Serve ==
  \/ \E r \in Enrols : EnrolStep(r)
  \/ \E u \in Uploads : UploadStep(u)
  \/ \E c \in Confirms : ConfirmStep(c)
  \/ \E x \in Cancels : CancelStep(x)
  \/ \E d \in Deletes : DeleteStep(d)

Idle == (\A r \in Requests : ~InFlight(r)) /\ UNCHANGED vars

Next == Arrive \/ Serve \/ (\E r \in Requests : Abort(r)) \/ Idle

Spec == Init /\ [][Next]_vars

-----------------------------------------------------------------------------
(***************************************************************************)
(* Properties.                                                             *)
(***************************************************************************)
\* Every variable has its type.
TypeOK ==
  /\ voters \subseteq Row
  /\ job_status \in [Uploads -> JobStatus]
  /\ records \in [Uploads -> SUBSET Numbers]
  /\ job_for \in [Uploads -> Elections \cup {None}]
  /\ job_lock \in [Uploads -> Confirms \cup Cancels \cup {None}]
  /\ pc \in [Requests -> Step]
  /\ batch \in [Requests -> Seq(Numbers)]
  /\ election \in [Requests -> Elections \cup {None}]
  /\ entered \in [Requests -> SUBSET Row]
  /\ job \in [Requests -> Uploads \cup {None}]
  /\ chosen \in [Requests -> SUBSET Keys]
  /\ before \in [Requests -> SUBSET Row]
  /\ overlapped \subseteq SUBSET Requests

\* The rows that the check before a row's insertion could see: for an import,
\* the check is that of the preview.
SeenBefore(x) == before[IF x.by \in Enrols THEN x.by ELSE job[x.by]]

\* The row was enrolled under a number that an import would write otherwise.
EnrolledAsWritten(x) == x.by \in Enrols /\ x.number # Upper[x.number]

\* Only an enrolment under a number in lower case lets no check tell two rows.
Undetected(x, y) == x.number # y.number /\ (EnrolledAsWritten(x) \/ EnrolledAsWritten(y))

\* A person who is twice on the roll of an election was entered by requests
\* that overlapped: neither of the two rows was there when the other's
\* request, or the preview it confirms, looked for duplicates.  The exception
\* is a person who was enrolled under a number that is not in upper case, and
\* is there again under another way to write it.
DuplicatesFromOverlap ==
  \A x, y \in voters :
    x # y /\ Upper[x.number] = Upper[y.number] /\ x.election = y.election
    => x \notin SeenBefore(y) \/ Undetected(x, y)

\* The records of a job are on the roll once, unless two confirmations of it
\* were in flight together.
ImportedOnce ==
  \A x, y \in voters :
    /\ x.by \in Confirms /\ y.by \in Confirms /\ x.by # y.by
    /\ job[x.by] = job[y.by]
    => {x.by, y.by} \in overlapped

\* A job whose records were imported says so, unless a cancellation that had
\* found it unconfirmed was in flight with the confirmation: nobody cancels an
\* import that is complete.
ImportsAccountedFor ==
  \A x \in voters : x.by \in Confirms =>
    LET j == job[x.by] IN
    \/ job_status[j] = "COMPLETED"
    \/ job_status[j] = "DELETED" /\ \E c \in Cancels : {x.by, c} \in overlapped

\* A job that is cancelled leaves nothing on the roll later: its records come
\* on to the roll while its row is there, even if the confirmation read the job
\* before the cancellation.
CancelledStaysOut ==
  \A x \in voters' \ voters :
    x.by \in Confirms => job_status[job[x.by]] \in {"PREVIEW_READY", "COMPLETED"}

\* Rows come on to the roll all at once: a batch or a job is entered whole by
\* one step, or not at all.
EnteredWhole ==
  \A r \in Enrols \cup Confirms :
    LET new == {x.number : x \in {y \in voters' \ voters : y.by = r}}
        all == IF r \in Enrols THEN {x.number : x \in entered[r]} ELSE records[job[r]]
    IN  new # {} => pc[r] = "commit" /\ new = all /\ pc'[r] = "done"

\* The roll is well formed and holds no duplicate that a check could have seen.
RollConsistent == TypeOK /\ DuplicatesFromOverlap

\* A job's records are on the roll once, and the job says so, unless requests
\* on the job overlapped.
ImportsInOrder == ImportedOnce /\ ImportsAccountedFor

\* Whatever comes on to the roll comes whole, and never from a cancelled job.
EntriesInOrder == [][CancelledStaysOut /\ EnteredWhole]_vars
=============================================================================
