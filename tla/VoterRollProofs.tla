--------------------------- MODULE VoterRollProofs ---------------------------
(***************************************************************************)
(* The roll is consistent and imports are in order at every moment, for    *)
(* any number of people, elections and requests of each kind.              *)
(***************************************************************************)
EXTENDS VoterRoll, SequenceTheorems, TLAPS

\* What a request holds at which step, and how far a job is.
RequestsInOrder ==
  /\ \A r \in Enrols : InFlight(r) => election[r] \in Elections
  /\ \A r \in Enrols : pc[r] \in {"check", "insert"} => batch[r] # <<>>
  /\ \A r \in Requests : pc[r] = "new" => entered[r] = {}
  /\ \A r \in Requests : \A x \in entered[r] : x.by = r /\ x.election = election[r]
  /\ \A c \in Confirms \cup Cancels : pc[c] # "new" => job[c] \in Uploads /\ job_status[job[c]] # "NONE"
  /\ \A u \in Uploads : pc[u] \in {"commit", "done"} => election[u] \in Elections
  /\ \A u \in Uploads : job_status[u] # "NONE" => pc[u] = "done" /\ job_for[u] = election[u]

\* Before its commit a confirmation holds the job, which is there; so does a
\* cancellation, unless the job is gone.
JobsHeld ==
  /\ \A c \in Confirms : pc[c] = "commit" => job_lock[job[c]] = c /\ job_status[job[c]] # "DELETED"
  /\ \A x \in Cancels : pc[x] = "commit" => job_lock[job[x]] = x \/ job_status[job[x]] = "DELETED"

\* Two rows of a number in an election: neither was there when the other's
\* number was looked for.
SameNumberUnseen ==
  \A x, y \in voters :
    x # y /\ x.number = y.number /\ x.election = y.election => x \notin SeenBefore(y)

\* Whoever has a row on the roll, now or when a check saw it, has ended; what
\* was imported is in upper case.
RowsInOrder ==
  /\ \A x \in voters : pc[x.by] = "done" /\ (x.by \in Confirms => Upper[x.number] = x.number)
  /\ \A r \in Requests : \A x \in before[r] : pc[x.by] = "done"

\* An enrolment whose check sees a row fails, and a preview leaves out the
\* numbers of the election that it sees and has the others in upper case.
ChecksInOrder ==
  /\ \A u \in Uploads : \A n \in records[u] : Upper[n] = n
  /\ \A r \in Enrols : pc[r] # "failed" => before[r] = {}
  /\ \A u \in Uploads : pc[u] \in {"commit", "done"} =>
       \A x \in before[u] : x.election = election[u] => x.number \notin records[u]

\* Requests on a job that are in flight together are known to be, and so is one
\* in flight with a confirmation whose rows are on the roll.
OverlapsKnown ==
  /\ \A q, r \in Confirms \cup Cancels :
       q # r /\ InFlight(q) /\ InFlight(r) /\ job[q] = job[r] => {q, r} \in overlapped
  /\ \A x \in voters, r \in Confirms \cup Cancels :
       x.by \in Confirms /\ x.by # r /\ InFlight(r) /\ job[r] = job[x.by] => {x.by, r} \in overlapped

\* The inductive invariant.
IInv ==
  /\ TypeOK /\ SameNumberUnseen /\ ImportedOnce /\ ImportsAccountedFor
  /\ RequestsInOrder /\ JobsHeld /\ RowsInOrder /\ ChecksInOrder /\ OverlapsKnown

-----------------------------------------------------------------------------
\* The kinds of requests are apart.
LEMMA KindsApart ==
  /\ Enrols \cap Uploads = {} /\ Enrols \cap Confirms = {} /\ Enrols \cap Cancels = {}
  /\ Enrols \cap Deletes = {} /\ Uploads \cap Confirms = {} /\ Uploads \cap Cancels = {}
  /\ Uploads \cap Deletes = {} /\ Confirms \cap Cancels = {} /\ Confirms \cap Deletes = {}
  /\ Cancels \cap Deletes = {}
  /\ Enrols \subseteq Requests /\ Uploads \subseteq Requests /\ Confirms \subseteq Requests
  /\ Cancels \subseteq Requests /\ Deletes \subseteq Requests
  /\ None \notin Requests /\ None \notin Elections
<1>1. DOMAIN Kinds = 1..5 /\ Kinds[1] = Enrols /\ Kinds[2] = Uploads /\ Kinds[3] = Confirms
      /\ Kinds[4] = Cancels /\ Kinds[5] = Deletes
  BY DEF Kinds
<1>2. \A i, j \in 1..5 : i # j => Kinds[i] \cap Kinds[j] = {}
  BY <1>1, RollAssumption DEF RollAssumption
<1> QED
  BY <1>1, <1>2, RollAssumption DEF RollAssumption, Requests

\* What the proofs use of the types.
LEMMA Typed ==
  ASSUME TypeOK
  PROVE  /\ voters \subseteq Row
         /\ job_status \in [Uploads -> JobStatus] /\ records \in [Uploads -> SUBSET Numbers]
         /\ job_for \in [Uploads -> Elections \cup {None}]
         /\ job_lock \in [Uploads -> Confirms \cup Cancels \cup {None}]
         /\ pc \in [Requests -> Step] /\ batch \in [Requests -> Seq(Numbers)]
         /\ election \in [Requests -> Elections \cup {None}]
         /\ entered \in [Requests -> SUBSET Row] /\ job \in [Requests -> Uploads \cup {None}]
         /\ chosen \in [Requests -> SUBSET Keys] /\ before \in [Requests -> SUBSET Row]
         /\ overlapped \subseteq SUBSET Requests
BY DEF TypeOK

\* A row is what its columns say.
LEMMA Rows ==
  /\ \A x \in Row : x.number \in Numbers /\ x.election \in Elections /\ x.by \in Enrols \cup Confirms
  /\ \A x \in Row : x.by \in Requests
  /\ \A x, y \in Row : x.number = y.number /\ x.election = y.election /\ x.by = y.by => x = y
<1>1. \A x \in Row : x.number \in Numbers /\ x.election \in Elections /\ x.by \in Enrols \cup Confirms
  BY DEF Row
<1>2. \A x, y \in Row : x.number = y.number /\ x.election = y.election /\ x.by = y.by => x = y
  BY DEF Row
<1> QED
  BY <1>1, <1>2, KindsApart

\* The end of a request.
LEMMA EndEffect ==
  ASSUME TypeOK, NEW r \in Requests, NEW step \in Step, End(r, step)
  PROVE  /\ pc' = [pc EXCEPT ![r] = step] /\ entered' = [entered EXCEPT ![r] = {}]
         /\ batch' = [batch EXCEPT ![r] = <<>>]
         /\ job_lock' = [j \in Uploads |-> IF job_lock[j] = r THEN None ELSE job_lock[j]]
         /\ election' = election /\ job' = job /\ chosen' = chosen
         /\ pc' \in [Requests -> Step] /\ entered' \in [Requests -> SUBSET Row]
         /\ batch' \in [Requests -> Seq(Numbers)]
         /\ job_lock' \in [Uploads -> Confirms \cup Cancels \cup {None}]
<1>1. /\ pc' = [pc EXCEPT ![r] = step] /\ entered' = [entered EXCEPT ![r] = {}]
      /\ batch' = [batch EXCEPT ![r] = <<>>]
      /\ job_lock' = [j \in Uploads |-> IF job_lock[j] = r THEN None ELSE job_lock[j]]
      /\ election' = election /\ job' = job /\ chosen' = chosen
  BY DEF End, Goto
<1>2. <<>> \in Seq(Numbers)
  OBVIOUS
<1>3. /\ pc' \in [Requests -> Step] /\ entered' \in [Requests -> SUBSET Row]
      /\ batch' \in [Requests -> Seq(Numbers)]
  BY <1>1, <1>2, Typed
<1>4. job_lock' \in [Uploads -> Confirms \cup Cancels \cup {None}]
  BY <1>1, Typed
<1> QED
  BY <1>1, <1>3, <1>4

\* A request that ends unsuccessfully keeps everything in order, its check
\* having perhaps seen rows.
LEMMA FailStep ==
  ASSUME IInv, NEW r \in Requests, InFlight(r), Fail(r),
         overlapped' = overlapped,
         \/ before' = before
         \/ /\ r \in Enrols /\ before' \in [Requests -> SUBSET Row]
            /\ before'[r] \subseteq before[r] \cup voters
            /\ \A q \in Requests : q # r => before'[q] = before[q]
  PROVE  IInv'
<1> USE DEF IInv
<1>1. "failed" \in Step /\ UNCHANGED <<voters, job_status, records, job_for, overlapped>> /\ End(r, "failed")
  BY DEF Fail, jobs, Step
<1>2. /\ pc' = [pc EXCEPT ![r] = "failed"] /\ entered' = [entered EXCEPT ![r] = {}]
      /\ batch' = [batch EXCEPT ![r] = <<>>]
      /\ job_lock' = [j \in Uploads |-> IF job_lock[j] = r THEN None ELSE job_lock[j]]
      /\ election' = election /\ job' = job /\ chosen' = chosen
      /\ pc' \in [Requests -> Step] /\ entered' \in [Requests -> SUBSET Row]
      /\ batch' \in [Requests -> Seq(Numbers)]
      /\ job_lock' \in [Uploads -> Confirms \cup Cancels \cup {None}]
  BY <1>1, EndEffect
<1>3. /\ before' \in [Requests -> SUBSET Row] /\ \A q \in Requests : q # r => before'[q] = before[q]
      /\ before'[r] \subseteq before[r] \cup voters /\ (before'[r] # before[r] => r \in Enrols)
  BY Typed
<1>4. pc[r] \notin {"new", "done", "failed"}
  BY DEF InFlight
<1>5. TypeOK'
  BY <1>1, <1>2, <1>3 DEF TypeOK
<1>6. SameNumberUnseen'
  <2> SUFFICES ASSUME NEW x \in voters, NEW y \in voters,
                      x # y, x.number = y.number, x.election = y.election
               PROVE  x \notin SeenBefore(y)'
    BY <1>1 DEF SameNumberUnseen
  <2>1. x \notin SeenBefore(y) /\ pc[y.by] = "done" /\ y.by \in Enrols \cup Confirms
    BY Typed, Rows DEF SameNumberUnseen, RowsInOrder
  <2>2. y.by \notin Enrols => job[y.by] \in Uploads
    BY <2>1 DEF RequestsInOrder
  <2>3. SeenBefore(y)' = SeenBefore(y)
    BY <1>2, <1>3, <1>4, <2>1, <2>2, KindsApart DEF SeenBefore
  <2> QED
    BY <2>1, <2>3
<1>7. ImportedOnce' /\ ImportsAccountedFor'
  BY <1>1, <1>2 DEF ImportedOnce, ImportsAccountedFor
<1>8. RequestsInOrder'
  BY <1>1, <1>2, <1>4, Typed, KindsApart DEF RequestsInOrder, InFlight
<1>9. JobsHeld'
  BY <1>1, <1>2, <1>4, Typed, KindsApart DEF JobsHeld, RequestsInOrder
<1>10. RowsInOrder'
  BY <1>1, <1>2, <1>3, <1>4, Typed, Rows DEF RowsInOrder
<1>11. ChecksInOrder'
  BY <1>1, <1>2, <1>3, <1>4, Typed, KindsApart DEF ChecksInOrder
<1>12. OverlapsKnown'
  BY <1>1, <1>2, <1>4, Typed, KindsApart DEF OverlapsKnown, InFlight
<1> QED
  BY <1>5, <1>6, <1>7, <1>8, <1>9, <1>10, <1>11, <1>12

-----------------------------------------------------------------------------
(***************************************************************************)
(* create_voter and create_batch.                                          *)
(***************************************************************************)
LEMMA EnrolStartStep ==
  ASSUME IInv, NEW r \in Enrols, NEW numbers \in Batches, NEW e \in Elections, EnrolStart(r, numbers, e)
  PROVE  IInv'
<1> USE DEF IInv
<1>1. /\ pc[r] = "new" /\ pc' = [pc EXCEPT ![r] = "check"] /\ batch' = [batch EXCEPT ![r] = numbers]
      /\ election' = [election EXCEPT ![r] = e]
      /\ UNCHANGED <<voters, job_status, records, job_for, job_lock, entered, job, chosen, before, overlapped>>
  BY DEF EnrolStart, Goto, jobs, history
<1>2. numbers \in Seq(Numbers) /\ numbers # <<>> /\ r \in Requests
  BY RollAssumption, KindsApart DEF RollAssumption
<1>3. pc' \in [Requests -> Step] /\ batch' \in [Requests -> Seq(Numbers)] /\ election' \in [Requests -> Elections \cup {None}]
  BY <1>1, <1>2, Typed DEF Step
<1>4. TypeOK'
  BY <1>1, <1>3 DEF TypeOK
<1>5. SameNumberUnseen' /\ ImportedOnce' /\ ImportsAccountedFor'
  BY <1>1 DEF SameNumberUnseen, SeenBefore, ImportedOnce, ImportsAccountedFor
<1>6. RequestsInOrder'
  BY <1>1, <1>2, Typed, KindsApart DEF RequestsInOrder, InFlight
<1>7. JobsHeld'
  BY <1>1, Typed, KindsApart DEF JobsHeld
<1>8. RowsInOrder'
  BY <1>1, Typed, Rows DEF RowsInOrder
<1>9. ChecksInOrder'
  BY <1>1, Typed, KindsApart DEF ChecksInOrder
<1>10. OverlapsKnown'
  BY <1>1, Typed, KindsApart DEF OverlapsKnown, InFlight
<1> QED
  BY <1>4, <1>5, <1>6, <1>7, <1>8, <1>9, <1>10

LEMMA EnrolCheckStep ==
  ASSUME IInv, NEW r \in Enrols, EnrolCheck(r)
  PROVE  IInv'
<1> USE DEF IInv
<1> DEFINE n == Head(batch[r])
<1> DEFINE same == {x \in voters : x.number = n}
<1>1. /\ pc[r] = "check" /\ before' = [before EXCEPT ![r] = @ \cup same] /\ overlapped' = overlapped
      /\ r \in Requests /\ InFlight(r)
  BY KindsApart DEF EnrolCheck, InFlight
<1>2. /\ before' \in [Requests -> SUBSET Row] /\ before'[r] = before[r] \cup same
      /\ same \subseteq voters /\ \A q \in Requests : q # r => before'[q] = before[q]
  BY <1>1, Typed
<1>3. CASE \E x \in voters \cup entered[r] : x.number = n
  BY <1>1, <1>2, <1>3, FailStep DEF EnrolCheck
<1>4. CASE ~\E x \in voters \cup entered[r] : x.number = n
  <2>1. /\ pc' = [pc EXCEPT ![r] = "insert"] /\ before'[r] = before[r]
        /\ UNCHANGED <<voters, job_status, records, job_for, job_lock, batch, election, entered, job, chosen>>
    BY <1>2, <1>4 DEF EnrolCheck, Goto, jobs, locals
  <2>2. before' = before
    BY <1>1, <1>2, <2>1, Typed
  <2>3. TypeOK'
    BY <1>1, <2>1, <2>2, Typed DEF TypeOK, Step
  <2>4. SameNumberUnseen' /\ ImportedOnce' /\ ImportsAccountedFor'
    BY <1>1, <2>1, <2>2 DEF SameNumberUnseen, SeenBefore, ImportedOnce, ImportsAccountedFor
  <2>5. RequestsInOrder'
    BY <1>1, <2>1, Typed, KindsApart DEF RequestsInOrder, InFlight
  <2>6. JobsHeld'
    BY <2>1, Typed, KindsApart DEF JobsHeld
  <2>7. RowsInOrder'
    BY <1>1, <2>1, <2>2, Typed, Rows DEF RowsInOrder
  <2>8. ChecksInOrder'
    BY <1>1, <2>1, <2>2, Typed, KindsApart DEF ChecksInOrder
  <2>9. OverlapsKnown'
    BY <1>1, <2>1, Typed, KindsApart DEF OverlapsKnown, InFlight
  <2> QED
    BY <2>3, <2>4, <2>5, <2>6, <2>7, <2>8, <2>9
<1> QED
  BY <1>3, <1>4

LEMMA EnrolInsertStep ==
  ASSUME IInv, NEW r \in Enrols, EnrolInsert(r)
  PROVE  IInv'
<1> USE DEF IInv
<1> DEFINE n == Head(batch[r])
<1> DEFINE new == [number |-> n, election |-> election[r], by |-> r]
<1> DEFINE taken == \E x \in voters : Key(x) = [number |-> n, by |-> None]
<1>1. pc[r] = "insert" /\ before' = before /\ overlapped' = overlapped /\ r \in Requests /\ InFlight(r)
  BY KindsApart DEF EnrolInsert, InFlight, history
<1>2. CASE taken
  <2>1. Fail(r)
    <3>1. IF taken THEN Fail(r) ELSE TRUE
      BY DEF EnrolInsert
    <3> QED
      BY <1>2, <3>1
  <2> QED
    BY <1>1, <2>1, FailStep
<1>3. CASE ~taken
  <2> DEFINE step == IF Len(batch[r]) = 1 THEN "commit" ELSE "check"
  <2>1. /\ entered' = [entered EXCEPT ![r] = @ \cup {new}] /\ batch' = [batch EXCEPT ![r] = Tail(@)]
        /\ pc' = [pc EXCEPT ![r] = step]
        /\ UNCHANGED <<voters, job_status, records, job_for, job_lock, election, job, chosen>>
    BY <1>3 DEF EnrolInsert, Goto, jobs, Key
  <2>2. /\ batch[r] \in Seq(Numbers) /\ batch[r] # <<>>
        /\ n \in Numbers /\ Tail(batch[r]) \in Seq(Numbers) /\ (Len(batch[r]) # 1 => Tail(batch[r]) # <<>>)
    <3>1. batch[r] \in Seq(Numbers) /\ batch[r] # <<>>
      BY <1>1, Typed DEF RequestsInOrder
    <3>2. n \in Numbers /\ Tail(batch[r]) \in Seq(Numbers) /\ Len(Tail(batch[r])) = Len(batch[r]) - 1
      BY <3>1, HeadTailProperties
    <3>3. Len(batch[r]) # 1 => Tail(batch[r]) # <<>>
      <4>1. Len(<<>>) = 0 /\ Len(batch[r]) \in Nat
        BY <3>1, LenProperties
      <4>2. Tail(batch[r]) = <<>> => Len(Tail(batch[r])) = 0
        BY <4>1
      <4>3. Tail(batch[r]) = <<>> => Len(batch[r]) = 1
        BY <3>2, <4>1, <4>2
      <4> QED
        BY <4>3
    <3> QED
      BY <3>1, <3>2, <3>3
  <2>3. new \in Row /\ new.by = r /\ new.election = election[r]
    BY <1>1, <2>2 DEF Row, RequestsInOrder
  <2>4. /\ step \in Step /\ step \in {"commit", "check"} /\ (step = "check" => Tail(batch[r]) # <<>>)
    BY <2>2 DEF Step
  <2> HIDE DEF new, step, n
  <2>5. /\ entered' \in [Requests -> SUBSET Row] /\ pc' \in [Requests -> Step] /\ batch' \in [Requests -> Seq(Numbers)]
    BY <1>1, <2>1, <2>2, <2>3, <2>4, Typed
  <2>6. TypeOK'
    BY <1>1, <2>1, <2>5 DEF TypeOK
  <2>7. SameNumberUnseen' /\ ImportedOnce' /\ ImportsAccountedFor'
    BY <1>1, <2>1 DEF SameNumberUnseen, SeenBefore, ImportedOnce, ImportsAccountedFor
  <2>8. RequestsInOrder'
    <3>1. /\ \A q \in Enrols : InFlight(q)' => election'[q] \in Elections
          /\ \A q \in Enrols : pc'[q] \in {"check", "insert"} => batch'[q] # <<>>
          /\ \A q \in Requests : pc'[q] = "new" => entered'[q] = {}
      BY <1>1, <2>1, <2>4, Typed, KindsApart DEF RequestsInOrder, InFlight
    <3>2. \A q \in Requests : \A x \in entered'[q] : x.by = q /\ x.election = election'[q]
      BY <1>1, <2>1, <2>3, Typed DEF RequestsInOrder
    <3>3. /\ \A c \in Confirms \cup Cancels : pc'[c] # "new" => job'[c] \in Uploads /\ job_status'[job'[c]] # "NONE"
          /\ \A u \in Uploads : pc'[u] \in {"commit", "done"} => election'[u] \in Elections
          /\ \A u \in Uploads : job_status'[u] # "NONE" => pc'[u] = "done" /\ job_for'[u] = election'[u]
      BY <2>1, Typed, KindsApart DEF RequestsInOrder
    <3> QED
      BY <3>1, <3>2, <3>3 DEF RequestsInOrder
  <2>9. JobsHeld'
    BY <2>1, Typed, KindsApart DEF JobsHeld
  <2>10. RowsInOrder'
    BY <1>1, <2>1, Typed, Rows DEF RowsInOrder
  <2>11. ChecksInOrder'
    BY <1>1, <2>1, <2>4, Typed, KindsApart DEF ChecksInOrder
  <2>12. OverlapsKnown'
    BY <1>1, <2>1, Typed, KindsApart DEF OverlapsKnown, InFlight
  <2> QED
    BY <2>6, <2>7, <2>8, <2>9, <2>10, <2>11, <2>12
<1> HIDE DEF taken
<1> QED
  BY <1>2, <1>3

LEMMA EnrolCommitStep ==
  ASSUME IInv, NEW r \in Enrols, EnrolCommit(r)
  PROVE  IInv'
<1> USE DEF IInv
<1>1. /\ pc[r] = "commit" /\ voters' = voters \cup entered[r] /\ "done" \in Step /\ r \in Requests
      /\ job_status' = job_status /\ records' = records /\ job_for' = job_for
      /\ before' = before /\ overlapped' = overlapped /\ End(r, "done")
  BY KindsApart DEF EnrolCommit, jobs, history, Step
<1>2. /\ pc' = [pc EXCEPT ![r] = "done"] /\ entered' = [entered EXCEPT ![r] = {}]
      /\ batch' = [batch EXCEPT ![r] = <<>>]
      /\ job_lock' = [j \in Uploads |-> IF job_lock[j] = r THEN None ELSE job_lock[j]]
      /\ election' = election /\ job' = job /\ chosen' = chosen
      /\ pc' \in [Requests -> Step] /\ entered' \in [Requests -> SUBSET Row]
      /\ batch' \in [Requests -> Seq(Numbers)]
      /\ job_lock' \in [Uploads -> Confirms \cup Cancels \cup {None}]
  BY <1>1, EndEffect
<1>3. /\ voters' \subseteq Row /\ \A x \in voters' : x \in voters \/ (x \in entered[r] /\ x.by = r)
      /\ \A x \in entered[r] : x.by = r /\ x.election = election[r]
      /\ \A x \in voters : x.by # r
  BY <1>1, Typed DEF RequestsInOrder, RowsInOrder
<1>4. TypeOK'
  BY <1>1, <1>2, <1>3 DEF TypeOK
<1>5. SameNumberUnseen'
  <2> SUFFICES ASSUME NEW x \in voters', NEW y \in voters',
                      x # y, x.number = y.number, x.election = y.election
               PROVE  x \notin SeenBefore(y)
    BY <1>1, <1>2 DEF SameNumberUnseen, SeenBefore
  <2>1. CASE y \in entered[r]
    BY <1>1, <1>3, <2>1 DEF SeenBefore, ChecksInOrder
  <2>2. CASE y \in voters /\ x \in voters
    BY <2>2 DEF SameNumberUnseen
  <2>3. CASE y \in voters /\ x \in entered[r]
    <3>1. SeenBefore(y) = before[IF y.by \in Enrols THEN y.by ELSE job[y.by]]
      BY DEF SeenBefore
    <3>2. (IF y.by \in Enrols THEN y.by ELSE job[y.by]) \in Requests
      BY <2>3, Typed, Rows, KindsApart DEF RowsInOrder, RequestsInOrder
    <3> QED
      BY <1>1, <1>3, <2>3, <3>1, <3>2 DEF RowsInOrder
  <2> QED
    BY <1>3, <2>1, <2>2, <2>3
<1>6. ImportedOnce'
  BY <1>1, <1>2, <1>3, KindsApart DEF ImportedOnce
<1>7. ImportsAccountedFor'
  <2>1. \A x \in voters' : x.by \in Confirms => x \in voters
    BY <1>3, KindsApart
  <2> QED
    BY <1>1, <1>2, <2>1 DEF ImportsAccountedFor
<1>8. RequestsInOrder'
  BY <1>1, <1>2, Typed, KindsApart DEF RequestsInOrder, InFlight
<1>9. JobsHeld'
  BY <1>1, <1>2, Typed, KindsApart DEF JobsHeld, RequestsInOrder
<1>10. RowsInOrder'
  <2>1. \A x \in voters' : x.by \in Confirms => x \in voters
    BY <1>3, KindsApart
  <2>2. \A x \in voters' : x.by \in Confirms => Upper[x.number] = x.number
    BY <2>1 DEF RowsInOrder
  <2>3. \A x \in voters' : pc'[x.by] = "done"
    BY <1>1, <1>2, <1>3, Typed, Rows, KindsApart DEF RowsInOrder
  <2>4. \A q \in Requests : \A x \in before'[q] : pc'[x.by] = "done"
    BY <1>1, <1>2, Typed, Rows, KindsApart DEF RowsInOrder
  <2> QED
    BY <2>2, <2>3, <2>4 DEF RowsInOrder
<1>11. ChecksInOrder'
  BY <1>1, <1>2, Typed, KindsApart DEF ChecksInOrder
<1>12. OverlapsKnown'
  BY <1>1, <1>2, <1>3, Typed, KindsApart DEF OverlapsKnown, InFlight
<1> QED
  BY <1>4, <1>5, <1>6, <1>7, <1>8, <1>9, <1>10, <1>11, <1>12

-----------------------------------------------------------------------------
(***************************************************************************)
(* process_upload_and_preview.                                             *)
(***************************************************************************)
LEMMA UploadReadStep ==
  ASSUME IInv, NEW u \in Uploads, NEW file \in SUBSET Numbers, NEW e \in Elections, UploadRead(u, file, e)
  PROVE  IInv'
<1> USE DEF IInv
<1> DEFINE there == {x.number : x \in {y \in voters : y.election = e}}
<1> DEFINE upper == {Upper[n] : n \in file}
<1>1. /\ pc[u] = "new" /\ pc' = [pc EXCEPT ![u] = "commit"]
      /\ records' = [records EXCEPT ![u] = upper \ there] /\ election' = [election EXCEPT ![u] = e]
      /\ before' = [before EXCEPT ![u] = voters] /\ overlapped' = overlapped
      /\ voters' = voters /\ job_status' = job_status /\ job_for' = job_for /\ job_lock' = job_lock
      /\ batch' = batch /\ entered' = entered /\ job' = job /\ chosen' = chosen
  BY DEF UploadRead, Goto
<1>2. \A x \in voters : x.election = e => x.number \in there
  OBVIOUS
<1>13. upper \subseteq Numbers /\ \A n \in upper : Upper[n] = n
  BY RollAssumption DEF RollAssumption
<1> HIDE DEF there, upper
<1>3. u \in Requests /\ u \notin Enrols /\ u \notin Confirms /\ u \notin Cancels /\ job_status[u] = "NONE"
  BY <1>1, KindsApart DEF RequestsInOrder
<1>4. /\ pc' \in [Requests -> Step] /\ records' \in [Uploads -> SUBSET Numbers]
      /\ election' \in [Requests -> Elections \cup {None}] /\ before' \in [Requests -> SUBSET Row]
  BY <1>1, <1>3, <1>13, Typed DEF Step
<1>5. TypeOK'
  BY <1>1, <1>4 DEF TypeOK
<1>6. SameNumberUnseen'
  <2> SUFFICES ASSUME NEW x \in voters, NEW y \in voters,
                      x # y, x.number = y.number, x.election = y.election
               PROVE  x \notin SeenBefore(y)'
    BY <1>1 DEF SameNumberUnseen
  <2>1. x \notin SeenBefore(y) /\ pc[y.by] = "done" /\ y.by \in Enrols \cup Confirms
    BY Typed, Rows DEF SameNumberUnseen, RowsInOrder
  <2>2. y.by \notin Enrols => job[y.by] \in Uploads /\ job[y.by] # u
    BY <1>3, <2>1 DEF RequestsInOrder
  <2>3. SeenBefore(y)' = SeenBefore(y)
    BY <1>1, <1>3, <2>1, <2>2, Typed, KindsApart DEF SeenBefore
  <2> QED
    BY <2>1, <2>3
<1>7. ImportedOnce' /\ ImportsAccountedFor'
  BY <1>1 DEF ImportedOnce, ImportsAccountedFor
<1>8. RequestsInOrder'
  <2>1. /\ \A r \in Enrols : InFlight(r)' => election'[r] \in Elections
        /\ \A r \in Enrols : pc'[r] \in {"check", "insert"} => batch'[r] # <<>>
        /\ \A r \in Requests : pc'[r] = "new" => entered'[r] = {}
    BY <1>1, <1>3, Typed, KindsApart DEF RequestsInOrder, InFlight
  <2>2. \A r \in Requests : \A x \in entered'[r] : x.by = r /\ x.election = election'[r]
    BY <1>1, <1>3, Typed DEF RequestsInOrder
  <2>3. /\ \A c \in Confirms \cup Cancels : pc'[c] # "new" => job'[c] \in Uploads /\ job_status'[job'[c]] # "NONE"
        /\ \A v \in Uploads : pc'[v] \in {"commit", "done"} => election'[v] \in Elections
        /\ \A v \in Uploads : job_status'[v] # "NONE" => pc'[v] = "done" /\ job_for'[v] = election'[v]
    BY <1>1, <1>3, Typed, KindsApart DEF RequestsInOrder
  <2> QED
    BY <2>1, <2>2, <2>3 DEF RequestsInOrder
<1>9. JobsHeld'
  BY <1>1, <1>3, Typed, KindsApart DEF JobsHeld
<1>10. RowsInOrder'
  BY <1>1, <1>3, Typed, Rows DEF RowsInOrder
<1>11. ChecksInOrder'
  <2>1. \A r \in Enrols : pc'[r] # "failed" => before'[r] = {}
    BY <1>1, <1>3, Typed, KindsApart DEF ChecksInOrder
  <2>2. ASSUME NEW v \in Uploads, pc'[v] \in {"commit", "done"}, NEW x \in before'[v], x.election = election'[v]
        PROVE  x.number \notin records'[v]
    BY <1>1, <1>2, <1>3, <2>2, Typed, KindsApart DEF ChecksInOrder
  <2>3. \A v \in Uploads : \A n \in records'[v] : Upper[n] = n
    BY <1>1, <1>13, Typed DEF ChecksInOrder
  <2> QED
    BY <2>1, <2>2, <2>3 DEF ChecksInOrder
<1>12. OverlapsKnown'
  BY <1>1, <1>3, Typed, KindsApart DEF OverlapsKnown, InFlight
<1> QED
  BY <1>5, <1>6, <1>7, <1>8, <1>9, <1>10, <1>11, <1>12

LEMMA UploadCommitStep ==
  ASSUME IInv, NEW u \in Uploads, UploadCommit(u)
  PROVE  IInv'
<1> USE DEF IInv
<1>1. /\ pc[u] = "commit" /\ job_status' = [job_status EXCEPT ![u] = "PREVIEW_READY"]
      /\ job_for' = [job_for EXCEPT ![u] = election[u]] /\ "done" \in Step /\ u \in Requests
      /\ voters' = voters /\ records' = records
      /\ before' = before /\ overlapped' = overlapped /\ End(u, "done")
  BY KindsApart DEF UploadCommit, history, Step
<1>2. /\ pc' = [pc EXCEPT ![u] = "done"] /\ entered' = [entered EXCEPT ![u] = {}]
      /\ batch' = [batch EXCEPT ![u] = <<>>]
      /\ job_lock' = [j \in Uploads |-> IF job_lock[j] = u THEN None ELSE job_lock[j]]
      /\ election' = election /\ job' = job /\ chosen' = chosen
      /\ pc' \in [Requests -> Step] /\ entered' \in [Requests -> SUBSET Row]
      /\ batch' \in [Requests -> Seq(Numbers)]
      /\ job_lock' \in [Uploads -> Confirms \cup Cancels \cup {None}]
  BY <1>1, EndEffect
<1>3. /\ u \notin Enrols /\ u \notin Confirms /\ u \notin Cancels /\ job_status[u] = "NONE"
      /\ job_status' \in [Uploads -> JobStatus] /\ job_for' \in [Uploads -> Elections \cup {None}]
  <2>1. u \notin Enrols /\ u \notin Confirms /\ u \notin Cancels /\ job_status[u] = "NONE"
    BY <1>1, KindsApart DEF RequestsInOrder
  <2>2. job_status' \in [Uploads -> JobStatus] /\ job_for' \in [Uploads -> Elections \cup {None}]
    BY <1>1, Typed DEF JobStatus
  <2> QED
    BY <2>1, <2>2
<1>4. TypeOK'
  BY <1>1, <1>2, <1>3 DEF TypeOK
<1>5. SameNumberUnseen' /\ ImportedOnce'
  BY <1>1, <1>2 DEF SameNumberUnseen, SeenBefore, ImportedOnce
<1>6. ImportsAccountedFor'
  <2> SUFFICES ASSUME NEW x \in voters, x.by \in Confirms
               PROVE  \/ job_status'[job[x.by]] = "COMPLETED"
                      \/ /\ job_status'[job[x.by]] = "DELETED"
                         /\ \E c \in Cancels : {x.by, c} \in overlapped
    BY <1>1, <1>2 DEF ImportsAccountedFor
  <2>1. job[x.by] \in Uploads /\ job_status[job[x.by]] # "NONE"
    BY KindsApart DEF RowsInOrder, RequestsInOrder
  <2>2. job_status'[job[x.by]] = job_status[job[x.by]]
    BY <1>1, <1>3, <2>1, Typed
  <2> QED
    BY <2>2 DEF ImportsAccountedFor
<1>7. RequestsInOrder'
  BY <1>1, <1>2, <1>3, Typed, KindsApart DEF RequestsInOrder, InFlight
<1>8. JobsHeld'
  BY <1>1, <1>2, <1>3, Typed, KindsApart DEF JobsHeld, RequestsInOrder
<1>9. RowsInOrder'
  BY <1>1, <1>2, Typed, Rows DEF RowsInOrder
<1>10. ChecksInOrder'
  BY <1>1, <1>2, Typed, KindsApart DEF ChecksInOrder
<1>11. OverlapsKnown'
  BY <1>1, <1>2, <1>3, Typed, KindsApart DEF OverlapsKnown, InFlight
<1> QED
  BY <1>4, <1>5, <1>6, <1>7, <1>8, <1>9, <1>10, <1>11

-----------------------------------------------------------------------------
(***************************************************************************)
(* confirm_bulk_import and cancel_import.                                  *)
(***************************************************************************)
LEMMA ReadJobStep ==
  ASSUME IInv, NEW r \in Confirms \cup Cancels, NEW j \in Uploads, ReadJob(r, j)
  PROVE  IInv'
<1> USE DEF IInv
<1> DEFINE others == {p \in Requests : InFlight(p) /\ job[p] = j}
<1>1. /\ pc[r] = "new" /\ job_status[j] = "PREVIEW_READY" /\ pc' = [pc EXCEPT ![r] = "flush"]
      /\ job' = [job EXCEPT ![r] = j] /\ overlapped' = overlapped \cup {{r, q} : q \in others}
      /\ voters' = voters /\ job_status' = job_status /\ records' = records /\ job_for' = job_for
      /\ job_lock' = job_lock /\ batch' = batch /\ election' = election /\ entered' = entered
      /\ chosen' = chosen /\ before' = before
  BY DEF ReadJob, Goto, jobs
<1>2. /\ r \in Requests /\ r \notin Enrols /\ r \notin Uploads
      /\ pc' \in [Requests -> Step] /\ job' \in [Requests -> Uploads \cup {None}]
      /\ overlapped' \subseteq SUBSET Requests /\ overlapped \subseteq overlapped'
  <2>1. r \in Requests /\ r \notin Enrols /\ r \notin Uploads
    BY KindsApart
  <2>2. pc' \in [Requests -> Step] /\ job' \in [Requests -> Uploads \cup {None}]
    BY <1>1, <2>1, Typed DEF Step
  <2>3. overlapped' \subseteq SUBSET Requests
    <3>1. \A q \in others : {r, q} \in SUBSET Requests
      BY <2>1
    <3>2. {{r, q} : q \in others} \subseteq SUBSET Requests
      BY <3>1
    <3>3. overlapped \subseteq SUBSET Requests
      BY Typed
    <3> QED
      BY <1>1, <3>2, <3>3
  <2> QED
    BY <1>1, <2>1, <2>2, <2>3
<1>3. \A q \in Requests : InFlight(q) /\ job[q] = j => {r, q} \in overlapped' /\ {q, r} \in overlapped'
  <2> SUFFICES ASSUME NEW q \in Requests, InFlight(q), job[q] = j
               PROVE  {r, q} \in overlapped' /\ {q, r} \in overlapped'
    OBVIOUS
  <2>1. {r, q} \in {{r, p} : p \in others}
    OBVIOUS
  <2>2. {q, r} = {r, q}
    OBVIOUS
  <2> QED
    BY <1>1, <2>1, <2>2
<1> HIDE DEF others
<1>4. \A x \in voters : x.by # r /\ x.by \in Requests /\ pc[x.by] = "done"
  BY <1>1, Typed, Rows DEF RowsInOrder
<1>5. \A x \in voters : x.by \in Confirms => job'[x.by] = job[x.by] /\ job[x.by] # j
  <2> SUFFICES ASSUME NEW x \in voters, x.by \in Confirms
               PROVE  job'[x.by] = job[x.by] /\ job[x.by] # j
    OBVIOUS
  <2>1. job_status[job[x.by]] \in {"COMPLETED", "DELETED"}
    BY DEF ImportsAccountedFor
  <2> QED
    BY <1>1, <1>2, <1>4, <2>1, Typed
<1>6. TypeOK'
  BY <1>1, <1>2 DEF TypeOK
<1>7. SameNumberUnseen'
  <2>1. \A y \in voters : SeenBefore(y)' = SeenBefore(y)
    BY <1>1, <1>5, Typed, Rows DEF SeenBefore
  <2> QED
    BY <1>1, <2>1 DEF SameNumberUnseen
<1>8. ImportedOnce'
  BY <1>1, <1>2, <1>5 DEF ImportedOnce
<1>9. ImportsAccountedFor'
  BY <1>1, <1>2, <1>5 DEF ImportsAccountedFor
<1>10. RequestsInOrder'
  <2>1. /\ \A q \in Enrols : InFlight(q)' => election'[q] \in Elections
        /\ \A q \in Enrols : pc'[q] \in {"check", "insert"} => batch'[q] # <<>>
        /\ \A q \in Requests : pc'[q] = "new" => entered'[q] = {}
    BY <1>1, <1>2, Typed, KindsApart DEF RequestsInOrder, InFlight
  <2>2. \A q \in Requests : \A x \in entered'[q] : x.by = q /\ x.election = election'[q]
    BY <1>1 DEF RequestsInOrder
  <2>3. /\ \A c \in Confirms \cup Cancels : pc'[c] # "new" => job'[c] \in Uploads /\ job_status'[job'[c]] # "NONE"
        /\ \A v \in Uploads : pc'[v] \in {"commit", "done"} => election'[v] \in Elections
        /\ \A v \in Uploads : job_status'[v] # "NONE" => pc'[v] = "done" /\ job_for'[v] = election'[v]
    BY <1>1, <1>2, Typed, KindsApart DEF RequestsInOrder
  <2> QED
    BY <2>1, <2>2, <2>3 DEF RequestsInOrder
<1>11. JobsHeld'
  BY <1>1, <1>2, Typed, KindsApart DEF JobsHeld
<1>12. RowsInOrder'
  BY <1>1, <1>2, Typed, Rows DEF RowsInOrder
<1>13. ChecksInOrder'
  BY <1>1, <1>2, Typed, KindsApart DEF ChecksInOrder
<1>14. OverlapsKnown'
  <2>1. ASSUME NEW p \in Confirms \cup Cancels, NEW q \in Confirms \cup Cancels,
               p # q, InFlight(p)', InFlight(q)', job'[p] = job'[q]
        PROVE  {p, q} \in overlapped'
    <3>1. p \in Requests /\ q \in Requests
      BY KindsApart
    <3>2. \A i \in Requests : IF i = r THEN job'[i] = j ELSE job'[i] = job[i] /\ InFlight(i)' = InFlight(i)
      BY <1>1, <1>2, Typed DEF InFlight
    <3>3. CASE p = r
      BY <1>3, <2>1, <3>1, <3>2, <3>3
    <3>4. CASE q = r
      BY <1>3, <2>1, <3>1, <3>2, <3>4
    <3>5. CASE p # r /\ q # r
      BY <1>2, <2>1, <3>1, <3>2, <3>5 DEF OverlapsKnown
    <3> QED
      BY <3>3, <3>4, <3>5
  <2>2. ASSUME NEW x \in voters, NEW q \in Confirms \cup Cancels,
               x.by \in Confirms, x.by # q, InFlight(q)', job'[q] = job'[x.by]
        PROVE  {x.by, q} \in overlapped'
    BY <1>1, <1>2, <1>5, <2>2, Typed, KindsApart DEF InFlight, OverlapsKnown
  <2> QED
    BY <1>1, <2>1, <2>2 DEF OverlapsKnown
<1> QED
  BY <1>6, <1>7, <1>8, <1>9, <1>10, <1>11, <1>12, <1>13, <1>14

\* A request that comes to its commit, having perhaps locked its job.
LEMMA FlushStep ==
  ASSUME IInv, NEW r \in Confirms \cup Cancels, pc[r] = "flush", job_lock[job[r]] = None, Goto(r, "commit"),
         \/ /\ job_lock' = [job_lock EXCEPT ![job[r]] = r]
            /\ r \in Confirms => job_status[job[r]] # "DELETED"
         \/ job_lock' = job_lock /\ r \in Cancels /\ job_status[job[r]] = "DELETED",
         UNCHANGED <<voters, jobs, locals, history>>
  PROVE  IInv'
<1> USE DEF IInv
<1>1. /\ pc' = [pc EXCEPT ![r] = "commit"] /\ voters' = voters /\ job_status' = job_status
      /\ records' = records /\ job_for' = job_for /\ batch' = batch /\ election' = election
      /\ entered' = entered /\ job' = job /\ chosen' = chosen /\ before' = before /\ overlapped' = overlapped
  BY DEF Goto, jobs, locals, history
<1>2. /\ r \in Requests /\ r \notin Enrols /\ r \notin Uploads /\ job[r] \in Uploads
      /\ pc' \in [Requests -> Step] /\ r # None /\ (r \in Confirms <=> r \notin Cancels)
  BY <1>1, Typed, KindsApart DEF Step, RequestsInOrder
<1>3. /\ job_lock' \in [Uploads -> Confirms \cup Cancels \cup {None}]
      /\ \A i \in Uploads : job_lock[i] # None => job_lock'[i] = job_lock[i]
      /\ r \in Confirms => job_lock'[job[r]] = r /\ job_status[job[r]] # "DELETED"
      /\ r \in Cancels => job_lock'[job[r]] = r \/ job_status[job[r]] = "DELETED"
  <2>1. CASE job_lock' = [job_lock EXCEPT ![job[r]] = r] /\ (r \in Confirms => job_status[job[r]] # "DELETED")
    BY <1>2, <2>1, Typed
  <2>2. CASE job_lock' = job_lock /\ r \in Cancels /\ job_status[job[r]] = "DELETED"
    BY <1>2, <2>2, Typed
  <2> QED
    BY <2>1, <2>2
<1>4. TypeOK'
  BY <1>1, <1>2, <1>3 DEF TypeOK
<1>5. SameNumberUnseen' /\ ImportedOnce' /\ ImportsAccountedFor'
  BY <1>1 DEF SameNumberUnseen, SeenBefore, ImportedOnce, ImportsAccountedFor
<1>6. RequestsInOrder'
  BY <1>1, <1>2, Typed, KindsApart DEF RequestsInOrder, InFlight
<1>7. JobsHeld'
  <2>1. \A c \in Confirms : pc[c] = "commit" => job[c] \in Uploads /\ job_lock[job[c]] # None
    BY KindsApart DEF JobsHeld, RequestsInOrder
  <2>2. \A x \in Cancels : pc[x] = "commit" => job[x] \in Uploads
    BY KindsApart DEF RequestsInOrder
  <2>3. \A c \in Confirms : pc'[c] = "commit" => job_lock'[job[c]] = c /\ job_status[job[c]] # "DELETED"
    BY <1>1, <1>2, <1>3, <2>1, Typed, KindsApart DEF JobsHeld
  <2>4. \A x \in Cancels : pc'[x] = "commit" => job_lock'[job[x]] = x \/ job_status[job[x]] = "DELETED"
    BY <1>1, <1>2, <1>3, <2>2, Typed, KindsApart DEF JobsHeld
  <2> QED
    BY <1>1, <2>3, <2>4 DEF JobsHeld
<1>8. RowsInOrder'
  BY <1>1, <1>2, Typed, Rows DEF RowsInOrder
<1>9. ChecksInOrder'
  BY <1>1, <1>2, Typed, KindsApart DEF ChecksInOrder
<1>10. OverlapsKnown'
  BY <1>1, <1>2, Typed, KindsApart DEF OverlapsKnown, InFlight
<1> QED
  BY <1>4, <1>5, <1>6, <1>7, <1>8, <1>9, <1>10

LEMMA FlushConfirmStep ==
  ASSUME IInv, NEW c \in Confirms, FlushConfirm(c)
  PROVE  IInv'
<1>1. pc[c] = "flush" /\ job_lock[job[c]] = None /\ UNCHANGED history /\ c \in Requests /\ InFlight(c)
  BY KindsApart DEF FlushConfirm, InFlight
<1>2. CASE job_status[job[c]] = "DELETED"
  <2>1. Fail(c) /\ before' = before /\ overlapped' = overlapped
    BY <1>1, <1>2 DEF FlushConfirm, history
  <2> QED
    BY <1>1, <2>1, FailStep
<1>3. CASE job_status[job[c]] # "DELETED"
  <2>1. /\ job_lock' = [job_lock EXCEPT ![job[c]] = c] /\ Goto(c, "commit")
        /\ UNCHANGED <<voters, jobs, locals, history>>
    BY <1>1, <1>3 DEF FlushConfirm
  <2> QED
    BY <1>1, <1>3, <2>1, FlushStep
<1> QED
  BY <1>2, <1>3

LEMMA FlushCancelStep ==
  ASSUME IInv, NEW x \in Cancels, FlushCancel(x)
  PROVE  IInv'
<1>1. /\ pc[x] = "flush" /\ job_lock[job[x]] = None /\ Goto(x, "commit")
      /\ UNCHANGED <<voters, jobs, locals, history>> /\ x \notin Confirms
      /\ \/ job_lock' = job_lock /\ job_status[job[x]] = "DELETED"
         \/ job_lock' = [job_lock EXCEPT ![job[x]] = x] /\ job_status[job[x]] # "DELETED"
  BY KindsApart DEF FlushCancel
<1> QED
  BY <1>1, FlushStep

LEMMA ConfirmCommitStep ==
  ASSUME IInv, NEW c \in Confirms, ConfirmCommit(c)
  PROVE  IInv'
<1> USE DEF IInv
<1> DEFINE j == job[c]
<1> DEFINE new == [number : records[j], election : {job_for[j]}, by : {c}]
<1>1. /\ pc[c] = "commit" /\ voters' = voters \cup new
      /\ job_status' = [job_status EXCEPT ![j] = "COMPLETED"] /\ "done" \in Step /\ c \in Requests
      /\ records' = records /\ job_for' = job_for
      /\ before' = before /\ overlapped' = overlapped /\ End(c, "done")
  BY KindsApart DEF ConfirmCommit, history, Step
<1>2. /\ pc' = [pc EXCEPT ![c] = "done"] /\ entered' = [entered EXCEPT ![c] = {}]
      /\ batch' = [batch EXCEPT ![c] = <<>>]
      /\ job_lock' = [i \in Uploads |-> IF job_lock[i] = c THEN None ELSE job_lock[i]]
      /\ election' = election /\ job' = job /\ chosen' = chosen
      /\ pc' \in [Requests -> Step] /\ entered' \in [Requests -> SUBSET Row]
      /\ batch' \in [Requests -> Seq(Numbers)]
      /\ job_lock' \in [Uploads -> Confirms \cup Cancels \cup {None}]
  BY <1>1, EndEffect
<1>3. /\ j \in Uploads /\ j \in Requests /\ job_status[j] \notin {"NONE", "DELETED"} /\ job_lock[j] = c
      /\ job_for[j] = election[j] /\ election[j] \in Elections /\ pc[j] = "done"
      /\ c \notin Enrols /\ c \notin Cancels /\ c \notin Uploads
  BY <1>1, KindsApart DEF RequestsInOrder, JobsHeld
<1>4. \A x \in new : x \in Row /\ x.by = c /\ x.election = job_for[j] /\ x.number \in records[j]
  BY <1>3, Typed DEF Row
<1> HIDE DEF new
<1>5. /\ job_status' \in [Uploads -> JobStatus] /\ voters' \subseteq Row
      /\ \A x \in voters : x.by # c /\ x.by \in Requests
  <2>1. job_status' \in [Uploads -> JobStatus]
    BY <1>1, <1>3, Typed DEF JobStatus
  <2>2. voters' \subseteq Row
    BY <1>1, <1>4, Typed
  <2>3. \A x \in voters : x.by # c /\ x.by \in Requests
    BY <1>1, Typed, Rows DEF RowsInOrder
  <2> QED
    BY <2>1, <2>2, <2>3
<1>6. TypeOK'
  BY <1>1, <1>2, <1>5 DEF TypeOK
<1>7. SameNumberUnseen'
  <2> SUFFICES ASSUME NEW x \in voters', NEW y \in voters',
                      x # y, x.number = y.number, x.election = y.election
               PROVE  x \notin SeenBefore(y)
    BY <1>1, <1>2 DEF SameNumberUnseen, SeenBefore
  <2>1. CASE x \in new
    <3>1. x.by = c /\ pc[c] # "done"
      BY <1>1, <1>4, <2>1
    <3>2. (IF y.by \in Enrols THEN y.by ELSE job[y.by]) \in Requests
      BY <1>1, <1>3, <1>4, <1>5, Typed, Rows, KindsApart DEF RowsInOrder, RequestsInOrder
    <3> QED
      BY <3>1, <3>2 DEF RowsInOrder, SeenBefore
  <2>2. CASE x \in voters /\ y \in voters
    BY <2>2 DEF SameNumberUnseen
  <2>3. CASE x \in voters /\ y \in new
    <3>1. SeenBefore(y) = before[j] /\ y.number \in records[j] /\ y.election = election[j]
      BY <1>3, <1>4, <2>3 DEF SeenBefore
    <3> QED
      BY <1>3, <3>1 DEF ChecksInOrder
  <2> QED
    BY <1>1, <2>1, <2>2, <2>3
<1>8. ImportedOnce'
  <2> SUFFICES ASSUME NEW x \in voters', NEW y \in voters', x.by \in Confirms, y.by \in Confirms,
                      x.by # y.by, job[x.by] = job[y.by]
               PROVE  {x.by, y.by} \in overlapped
    BY <1>1, <1>2 DEF ImportedOnce
  <2>1. InFlight(c)
    BY <1>1 DEF InFlight
  <2>2. CASE x \in voters /\ y \in voters
    BY <2>2 DEF ImportedOnce
  <2>3. CASE x \in new /\ y \in voters
    <3>1. {y.by, c} \in overlapped /\ {y.by, c} = {x.by, y.by}
      BY <1>4, <2>1, <2>3 DEF OverlapsKnown
    <3> QED
      BY <3>1
  <2>4. CASE x \in voters /\ y \in new
    BY <1>4, <2>1, <2>4 DEF OverlapsKnown
  <2>5. CASE x \in new /\ y \in new
    BY <1>4, <2>5
  <2> QED
    BY <1>1, <2>2, <2>3, <2>4, <2>5
<1>9. ImportsAccountedFor'
  <2> SUFFICES ASSUME NEW x \in voters', x.by \in Confirms
               PROVE  \/ job_status'[job[x.by]] = "COMPLETED"
                      \/ /\ job_status'[job[x.by]] = "DELETED"
                         /\ \E d \in Cancels : {x.by, d} \in overlapped
    BY <1>1, <1>2 DEF ImportsAccountedFor
  <2>1. CASE job[x.by] = j
    BY <1>1, <1>3, <2>1, Typed
  <2>2. CASE job[x.by] # j
    <3>1. x \in voters
      BY <1>1, <1>4, <2>2
    <3>2. job[x.by] \in Uploads
      BY <3>1, KindsApart DEF RowsInOrder, RequestsInOrder
    <3>3. job_status'[job[x.by]] = job_status[job[x.by]]
      BY <1>1, <2>2, <3>2, Typed
    <3> QED
      BY <3>1, <3>3 DEF ImportsAccountedFor
  <2> QED
    BY <2>1, <2>2
<1>10. RequestsInOrder'
  BY <1>1, <1>2, <1>3, Typed, KindsApart DEF RequestsInOrder, InFlight
<1>11. JobsHeld'
  BY <1>1, <1>2, <1>3, Typed, KindsApart DEF JobsHeld, RequestsInOrder
<1>12. RowsInOrder'
  <2>1. \A x \in new : Upper[x.number] = x.number
    BY <1>3, <1>4 DEF ChecksInOrder
  <2> QED
    BY <1>1, <1>2, <1>4, <2>1, Typed, Rows DEF RowsInOrder
<1>13. ChecksInOrder'
  BY <1>1, <1>2, <1>3, Typed, KindsApart DEF ChecksInOrder
<1>14. OverlapsKnown'
  <2>1. \A p, q \in Confirms \cup Cancels :
          p # q /\ InFlight(p)' /\ InFlight(q)' /\ job'[p] = job'[q] => {p, q} \in overlapped'
    BY <1>1, <1>2, Typed, KindsApart DEF OverlapsKnown, InFlight
  <2>2. ASSUME NEW x \in voters', NEW q \in Confirms \cup Cancels,
               x.by \in Confirms, x.by # q, InFlight(q)', job[q] = job[x.by]
        PROVE  {x.by, q} \in overlapped
    <3>1. InFlight(q) /\ q # c /\ InFlight(c)
      BY <1>1, <1>2, <2>2, Typed, KindsApart DEF InFlight
    <3>2. CASE x \in voters
      BY <2>2, <3>1, <3>2 DEF OverlapsKnown
    <3>3. CASE x \in new
      BY <1>4, <2>2, <3>1, <3>3 DEF OverlapsKnown
    <3> QED
      BY <1>1, <3>2, <3>3
  <2> QED
    BY <1>1, <1>2, <2>1, <2>2 DEF OverlapsKnown
<1> QED
  BY <1>6, <1>7, <1>8, <1>9, <1>10, <1>11, <1>12, <1>13, <1>14

LEMMA CancelCommitStep ==
  ASSUME IInv, NEW r \in Cancels, CancelCommit(r)
  PROVE  IInv'
<1> USE DEF IInv
<1> DEFINE j == job[r]
<1>1. /\ pc[r] = "commit" /\ job_status' = [job_status EXCEPT ![j] = "DELETED"] /\ "done" \in Step /\ r \in Requests
      /\ voters' = voters /\ records' = records /\ job_for' = job_for
      /\ before' = before /\ overlapped' = overlapped /\ End(r, "done")
  BY KindsApart DEF CancelCommit, history, Step
<1>2. /\ pc' = [pc EXCEPT ![r] = "done"] /\ entered' = [entered EXCEPT ![r] = {}]
      /\ batch' = [batch EXCEPT ![r] = <<>>]
      /\ job_lock' = [i \in Uploads |-> IF job_lock[i] = r THEN None ELSE job_lock[i]]
      /\ election' = election /\ job' = job /\ chosen' = chosen
      /\ pc' \in [Requests -> Step] /\ entered' \in [Requests -> SUBSET Row]
      /\ batch' \in [Requests -> Seq(Numbers)]
      /\ job_lock' \in [Uploads -> Confirms \cup Cancels \cup {None}]
  BY <1>1, EndEffect
<1>3. /\ j \in Uploads /\ job_status[j] # "NONE" /\ (job_lock[j] = r \/ job_status[j] = "DELETED")
      /\ r \notin Enrols /\ r \notin Confirms /\ r \notin Uploads /\ InFlight(r)
  BY <1>1, KindsApart DEF RequestsInOrder, JobsHeld, InFlight
<1>4. job_status' \in [Uploads -> JobStatus]
  BY <1>1, <1>3, Typed DEF JobStatus
<1>5. TypeOK'
  BY <1>1, <1>2, <1>4 DEF TypeOK
<1>6. SameNumberUnseen' /\ ImportedOnce'
  BY <1>1, <1>2 DEF SameNumberUnseen, SeenBefore, ImportedOnce
<1>7. ImportsAccountedFor'
  <2> SUFFICES ASSUME NEW x \in voters, x.by \in Confirms
               PROVE  \/ job_status'[job[x.by]] = "COMPLETED"
                      \/ /\ job_status'[job[x.by]] = "DELETED"
                         /\ \E d \in Cancels : {x.by, d} \in overlapped
    BY <1>1, <1>2 DEF ImportsAccountedFor
  <2>1. job[x.by] \in Uploads
    BY KindsApart DEF RowsInOrder, RequestsInOrder
  <2>2. CASE job[x.by] = j
    <3>1. {x.by, r} \in overlapped
      BY <1>3, <2>2 DEF OverlapsKnown
    <3> QED
      BY <1>1, <2>1, <2>2, <3>1, Typed
  <2>3. CASE job[x.by] # j
    <3>1. job_status'[job[x.by]] = job_status[job[x.by]]
      BY <1>1, <2>1, <2>3, Typed
    <3> QED
      BY <3>1 DEF ImportsAccountedFor
  <2> QED
    BY <2>2, <2>3
<1>8. RequestsInOrder'
  BY <1>1, <1>2, <1>3, Typed, KindsApart DEF RequestsInOrder, InFlight
<1>9. JobsHeld'
  BY <1>1, <1>2, <1>3, Typed, KindsApart DEF JobsHeld, RequestsInOrder
<1>10. RowsInOrder'
  BY <1>1, <1>2, Typed, Rows DEF RowsInOrder
<1>11. ChecksInOrder'
  BY <1>1, <1>2, <1>3, Typed, KindsApart DEF ChecksInOrder
<1>12. OverlapsKnown'
  BY <1>1, <1>2, Typed, KindsApart DEF OverlapsKnown, InFlight
<1> QED
  BY <1>5, <1>6, <1>7, <1>8, <1>9, <1>10, <1>11, <1>12

-----------------------------------------------------------------------------
(***************************************************************************)
(* delete_voter and delete_voters_bulk.                                    *)
(***************************************************************************)
LEMMA DeleteReadStep ==
  ASSUME IInv, NEW d \in Deletes, NEW keys, DeleteRead(d, keys)
  PROVE  IInv'
<1> USE DEF IInv
<1>1. /\ pc[d] = "new" /\ keys \subseteq {Key(x) : x \in voters} /\ pc' = [pc EXCEPT ![d] = "commit"]
      /\ chosen' = [chosen EXCEPT ![d] = keys]
      /\ voters' = voters /\ job_status' = job_status /\ records' = records /\ job_for' = job_for
      /\ job_lock' = job_lock /\ batch' = batch /\ election' = election /\ entered' = entered
      /\ job' = job /\ before' = before /\ overlapped' = overlapped
  BY DEF DeleteRead, Goto, jobs, history
<1>2. /\ d \in Requests /\ d \notin Enrols /\ d \notin Uploads /\ d \notin Confirms /\ d \notin Cancels
  BY KindsApart
<1>3. keys \subseteq Keys
  <2>1. \A x \in voters : Key(x) \in Keys
    BY Typed, Rows DEF Key, Keys
  <2> QED
    BY <1>1, <2>1
<1>4. pc' \in [Requests -> Step] /\ chosen' \in [Requests -> SUBSET Keys]
  BY <1>1, <1>2, <1>3, Typed DEF Step
<1>5. TypeOK'
  BY <1>1, <1>4 DEF TypeOK
<1>6. SameNumberUnseen' /\ ImportedOnce' /\ ImportsAccountedFor'
  BY <1>1 DEF SameNumberUnseen, SeenBefore, ImportedOnce, ImportsAccountedFor
<1>7. RequestsInOrder'
  BY <1>1, <1>2, Typed, KindsApart DEF RequestsInOrder, InFlight
<1>8. JobsHeld'
  BY <1>1, <1>2, Typed, KindsApart DEF JobsHeld
<1>9. RowsInOrder'
  BY <1>1, <1>2, Typed, Rows DEF RowsInOrder
<1>10. ChecksInOrder'
  BY <1>1, <1>2, Typed, KindsApart DEF ChecksInOrder
<1>11. OverlapsKnown'
  BY <1>1, <1>2, Typed, KindsApart DEF OverlapsKnown, InFlight
<1> QED
  BY <1>5, <1>6, <1>7, <1>8, <1>9, <1>10, <1>11

LEMMA DeleteCommitStep ==
  ASSUME IInv, NEW d \in Deletes, DeleteCommit(d)
  PROVE  IInv'
<1> USE DEF IInv
<1>1. /\ pc[d] = "commit" /\ voters' \subseteq voters /\ "done" \in Step /\ d \in Requests
      /\ job_status' = job_status /\ records' = records /\ job_for' = job_for
      /\ before' = before /\ overlapped' = overlapped /\ End(d, "done")
  BY KindsApart DEF DeleteCommit, jobs, history, Step
<1>2. /\ pc' = [pc EXCEPT ![d] = "done"] /\ entered' = [entered EXCEPT ![d] = {}]
      /\ batch' = [batch EXCEPT ![d] = <<>>]
      /\ job_lock' = [i \in Uploads |-> IF job_lock[i] = d THEN None ELSE job_lock[i]]
      /\ election' = election /\ job' = job /\ chosen' = chosen
      /\ pc' \in [Requests -> Step] /\ entered' \in [Requests -> SUBSET Row]
      /\ batch' \in [Requests -> Seq(Numbers)]
      /\ job_lock' \in [Uploads -> Confirms \cup Cancels \cup {None}]
  BY <1>1, EndEffect
<1>3. /\ d \notin Enrols /\ d \notin Confirms /\ d \notin Cancels /\ d \notin Uploads /\ voters' \subseteq Row
  BY <1>1, Typed, KindsApart
<1>4. TypeOK'
  BY <1>1, <1>2, <1>3 DEF TypeOK
<1>5. SameNumberUnseen' /\ ImportedOnce' /\ ImportsAccountedFor'
  BY <1>1, <1>2 DEF SameNumberUnseen, SeenBefore, ImportedOnce, ImportsAccountedFor
<1>6. RequestsInOrder'
  BY <1>1, <1>2, <1>3, Typed, KindsApart DEF RequestsInOrder, InFlight
<1>7. JobsHeld'
  BY <1>1, <1>2, <1>3, Typed, KindsApart DEF JobsHeld, RequestsInOrder
<1>8. RowsInOrder'
  BY <1>1, <1>2, Typed, Rows DEF RowsInOrder
<1>9. ChecksInOrder'
  BY <1>1, <1>2, <1>3, Typed, KindsApart DEF ChecksInOrder
<1>10. OverlapsKnown'
  BY <1>1, <1>2, <1>3, Typed, KindsApart DEF OverlapsKnown, InFlight
<1> QED
  BY <1>4, <1>5, <1>6, <1>7, <1>8, <1>9, <1>10

-----------------------------------------------------------------------------
(***************************************************************************)
(* The theorems.                                                           *)
(***************************************************************************)
LEMMA InitInvariant == Init => IInv
<1> SUFFICES ASSUME Init PROVE IInv
  OBVIOUS
<1>1. TypeOK
  <2>1. <<>> \in Seq(Numbers)
    OBVIOUS
  <2> QED
    BY <2>1 DEF Init, TypeOK, JobStatus, Step
<1>2. SameNumberUnseen /\ ImportedOnce /\ ImportsAccountedFor
  BY DEF Init, SameNumberUnseen, ImportedOnce, ImportsAccountedFor
<1>3. RequestsInOrder /\ JobsHeld /\ RowsInOrder /\ ChecksInOrder /\ OverlapsKnown
  BY KindsApart DEF Init, RequestsInOrder, JobsHeld, RowsInOrder, ChecksInOrder, OverlapsKnown, InFlight
<1> QED
  BY <1>1, <1>2, <1>3 DEF IInv

LEMMA AbortStep ==
  ASSUME IInv, NEW r \in Requests, Abort(r)
  PROVE  IInv'
<1>1. InFlight(r) /\ Fail(r) /\ before' = before /\ overlapped' = overlapped
  BY DEF Abort, history
<1> QED
  BY <1>1, FailStep

LEMMA NextInvariant == IInv /\ [Next]_vars => IInv'
<1> SUFFICES ASSUME IInv, [Next]_vars PROVE IInv'
  OBVIOUS
<1>1. CASE Arrive
  BY <1>1, EnrolStartStep, UploadReadStep, ReadJobStep, DeleteReadStep DEF Arrive
<1>2. CASE Serve
  BY <1>2, EnrolCheckStep, EnrolInsertStep, EnrolCommitStep, UploadCommitStep, FlushConfirmStep,
     ConfirmCommitStep, FlushCancelStep, CancelCommitStep, DeleteCommitStep
     DEF Serve, EnrolStep, UploadStep, ConfirmStep, CancelStep, DeleteStep
<1>3. CASE \E r \in Requests : Abort(r)
  BY <1>3, AbortStep
<1>4. CASE UNCHANGED vars
  <2>1. /\ voters' = voters /\ job_status' = job_status /\ records' = records /\ job_for' = job_for
        /\ job_lock' = job_lock /\ pc' = pc /\ batch' = batch /\ election' = election
        /\ entered' = entered /\ job' = job /\ chosen' = chosen /\ before' = before
        /\ overlapped' = overlapped
    BY <1>4 DEF vars, jobs, locals, history
  <2>2. TypeOK' /\ SameNumberUnseen' /\ ImportedOnce' /\ ImportsAccountedFor'
    BY <2>1 DEF IInv, TypeOK, SameNumberUnseen, SeenBefore, ImportedOnce, ImportsAccountedFor
  <2>3. RequestsInOrder'
    BY <2>1 DEF IInv, RequestsInOrder, InFlight
  <2>4. JobsHeld' /\ RowsInOrder' /\ ChecksInOrder'
    BY <2>1 DEF IInv, JobsHeld, RowsInOrder, ChecksInOrder
  <2>5. OverlapsKnown'
    BY <2>1 DEF IInv, OverlapsKnown, InFlight
  <2> QED
    BY <2>2, <2>3, <2>4, <2>5 DEF IInv
<1> QED
  BY <1>1, <1>2, <1>3, <1>4 DEF Next, Idle

\* The inductive invariant holds at every moment.
LEMMA Inductive == Spec => []IInv
BY InitInvariant, NextInvariant, PTL DEF Spec

\* A person is twice on the roll of an election only when the requests that
\* entered him overlapped, or when one enrolled him under a number in lower case
\* and the rows write his number otherwise (voter_service.py, import_service.py).
THEOREM RollStaysConsistent == Spec => []RollConsistent
<1>1. IInv => RollConsistent
  <2> SUFFICES ASSUME IInv
               PROVE  RollConsistent
    OBVIOUS
  <2>1. ASSUME NEW x \in voters, NEW y \in voters, x # y, x.election = y.election,
               Upper[x.number] = Upper[y.number], x \in SeenBefore(y)
        PROVE  Undetected(x, y)
    <3>1. x.number # y.number
      BY <2>1 DEF IInv, SameNumberUnseen
    <3>2. \A z \in voters : Upper[z.number] = z.number \/ z.by \in Enrols
      BY Typed, Rows DEF IInv, RowsInOrder
    <3> QED
      BY <2>1, <3>1, <3>2 DEF Undetected, EnrolledAsWritten
  <2> QED
    BY <2>1 DEF IInv, RollConsistent, DuplicatesFromOverlap
<1> QED
  BY <1>1, Inductive, PTL

\* The records of a job come on to the roll once, and the job says so, unless
\* requests on the job overlapped (import_service.py).
THEOREM ImportsStayInOrder == Spec => []ImportsInOrder
<1>1. IInv => ImportsInOrder
  BY DEF IInv, ImportsInOrder
<1> QED
  BY <1>1, Inductive, PTL

\* The rows that come on to the roll in a step are those of the one request
\* that commits in it.
LEMMA WhatComes ==
  ASSUME IInv, [Next]_vars
  PROVE  \/ voters' \subseteq voters
         \/ \E r \in Enrols : pc[r] = "commit" /\ pc'[r] = "done" /\ voters' = voters \cup entered[r]
         \/ \E c \in Confirms :
              /\ pc[c] = "commit" /\ pc'[c] = "done"
              /\ voters' = voters \cup [number : records[job[c]], election : {job_for[job[c]]}, by : {c}]
<1> USE DEF IInv
<1>1. CASE \E r \in Enrols : EnrolCommit(r)
  <2>1. PICK r \in Enrols : EnrolCommit(r)
    BY <1>1
  <2>2. pc[r] = "commit" /\ pc'[r] = "done" /\ voters' = voters \cup entered[r]
    BY <2>1, Typed, KindsApart DEF EnrolCommit, End, Goto
  <2> QED
    BY <2>2
<1>2. CASE \E c \in Confirms : ConfirmCommit(c)
  <2>1. PICK c \in Confirms : ConfirmCommit(c)
    BY <1>2
  <2>2. /\ pc[c] = "commit" /\ pc'[c] = "done"
        /\ voters' = voters \cup [number : records[job[c]], election : {job_for[job[c]]}, by : {c}]
    BY <2>1, Typed, KindsApart DEF ConfirmCommit, End, Goto
  <2> QED
    BY <2>2
<1>3. CASE Arrive
  BY <1>3 DEF Arrive, EnrolStart, UploadRead, ReadJob, DeleteRead
<1>4. CASE \E r \in Enrols : EnrolCheck(r) \/ EnrolInsert(r)
  BY <1>4 DEF EnrolCheck, EnrolInsert, Fail
<1>5. CASE \E u \in Uploads : UploadCommit(u)
  BY <1>5 DEF UploadCommit
<1>6. CASE \E c \in Confirms \cup Cancels : FlushConfirm(c) \/ FlushCancel(c) \/ CancelCommit(c)
  BY <1>6 DEF FlushConfirm, FlushCancel, CancelCommit, Fail
<1>7. CASE \E d \in Deletes : DeleteCommit(d)
  BY <1>7 DEF DeleteCommit
<1>8. CASE \E r \in Requests : Abort(r)
  BY <1>8 DEF Abort, Fail
<1>9. CASE UNCHANGED vars
  BY <1>9 DEF vars
<1> QED
  BY <1>1, <1>2, <1>3, <1>4, <1>5, <1>6, <1>7, <1>8, <1>9
     DEF Next, Idle, Serve, EnrolStep, UploadStep, ConfirmStep, CancelStep, DeleteStep

\* Whatever comes on to the roll comes whole, by the commit of its request, and
\* never from a job that is cancelled (voter_service.py, import_service.py).
THEOREM EntriesStayInOrder == Spec => EntriesInOrder
<1>1. IInv /\ [Next]_vars => CancelledStaysOut /\ EnteredWhole
  <2> SUFFICES ASSUME IInv, [Next]_vars PROVE CancelledStaysOut /\ EnteredWhole
    OBVIOUS
  <2> USE DEF IInv
  <2>1. CASE voters' \subseteq voters
    BY <2>1 DEF CancelledStaysOut, EnteredWhole
  <2>2. CASE \E r \in Enrols : pc[r] = "commit" /\ pc'[r] = "done" /\ voters' = voters \cup entered[r]
    <3>1. PICK r \in Enrols : pc[r] = "commit" /\ pc'[r] = "done" /\ voters' = voters \cup entered[r]
      BY <2>2
    <3>2. r \in Requests /\ r \notin Confirms /\ \A x \in entered[r] : x.by = r /\ x \notin voters
      BY <3>1, KindsApart DEF RequestsInOrder, RowsInOrder
    <3>3. CancelledStaysOut
      BY <3>1, <3>2 DEF CancelledStaysOut
    <3>4. {y \in voters' \ voters : y.by = r} = entered[r]
      BY <3>1, <3>2
    <3>5. \A q \in Enrols \cup Confirms : q # r => {y \in voters' \ voters : y.by = q} = {}
      BY <3>1, <3>2
    <3>6. EnteredWhole
      BY <3>1, <3>4, <3>5 DEF EnteredWhole
    <3> QED
      BY <3>3, <3>6
  <2>3. CASE \E c \in Confirms :
               /\ pc[c] = "commit" /\ pc'[c] = "done"
               /\ voters' = voters \cup [number : records[job[c]], election : {job_for[job[c]]}, by : {c}]
    <3>1. PICK c \in Confirms :
               /\ pc[c] = "commit" /\ pc'[c] = "done"
               /\ voters' = voters \cup [number : records[job[c]], election : {job_for[job[c]]}, by : {c}]
      BY <2>3
    <3> DEFINE new == [number : records[job[c]], election : {job_for[job[c]]}, by : {c}]
    <3>2. /\ c \in Requests /\ c \notin Enrols /\ job[c] \in Uploads
          /\ job_status[job[c]] \in {"PREVIEW_READY", "COMPLETED"}
      BY <3>1, Typed, KindsApart DEF RequestsInOrder, JobsHeld, JobStatus
    <3>3. \A x \in new : x.by = c /\ x \notin voters
      BY <3>1 DEF RowsInOrder
    <3>4. {x.number : x \in new} = records[job[c]]
      <4>1. \A n \in records[job[c]] : [number |-> n, election |-> job_for[job[c]], by |-> c] \in new
        OBVIOUS
      <4>2. \A n \in records[job[c]] : n \in {x.number : x \in new}
        <5> TAKE n \in records[job[c]]
        <5> DEFINE row == [number |-> n, election |-> job_for[job[c]], by |-> c]
        <5>1. row \in new /\ row.number = n
          BY <4>1
        <5> HIDE DEF new, row
        <5> QED
          BY <5>1
      <4>3. \A x \in new : x.number \in records[job[c]]
        OBVIOUS
      <4> HIDE DEF new
      <4> QED
        BY <4>2, <4>3
    <3> HIDE DEF new
    <3>5. voters' = voters \cup new
      BY <3>1 DEF new
    <3>6. CancelledStaysOut
      BY <3>2, <3>3, <3>5 DEF CancelledStaysOut
    <3>7. {y \in voters' \ voters : y.by = c} = new
      BY <3>3, <3>5
    <3>8. \A q \in Enrols \cup Confirms : q # c => {y \in voters' \ voters : y.by = q} = {}
      BY <3>3, <3>5
    <3>9. EnteredWhole
      BY <3>1, <3>2, <3>4, <3>7, <3>8 DEF EnteredWhole
    <3> QED
      BY <3>6, <3>9
  <2> QED
    BY <2>1, <2>2, <2>3, WhatComes
<1> QED
  BY <1>1, Inductive, PTL DEF Spec, EntriesInOrder
=============================================================================
