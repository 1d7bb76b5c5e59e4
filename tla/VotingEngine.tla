---------------------------- MODULE VotingEngine ----------------------------
(***************************************************************************)
(* The voting engine: ballot issue, ballot casting, check-in at a station, *)
(* the review and the deletion of a voter, as concurrent HTTP requests on  *)
(* one PostgreSQL database (services/voting_service.py, checkin_service.py,*)
(* voter_service.py).                                                      *)
(*                                                                         *)
(* A request is a process of its own, used once.  It runs in one READ      *)
(* COMMITTED transaction (core/database.py, get_db): what it reads is the  *)
(* last committed value, what it writes is visible when it commits, and    *)
(* any exception rolls it back.  A statement that writes or locks a row    *)
(* waits for the row lock, which is then kept until the transaction ends.  *)
(* One action is one statement that reads or locks a row, or the commit.   *)
(***************************************************************************)
EXTENDS FiniteSets

CONSTANTS
  Voters,      \* rows of the voters table, deleted ones included
  Elections,   \* rows of the elections table
  ElectionOf,  \* Voter.election_id
  Auths,       \* POST /voting/auth-ballot requests; each names the session it creates
  Casts,       \* POST /voting/cast requests; each names the ballot it records
  CheckIns,    \* POST /checkin/ requests
  Reviews,     \* verify and update requests on a voter
  Deletes,     \* DELETE requests on a voter
  None         \* SQL NULL, an id that no row has, an owner of no lock

Requests == Auths \cup Casts \cup CheckIns \cup Reviews \cup Deletes

ASSUME RequestsAssumption ==
  /\ Auths \cap Casts = {} /\ Auths \cap CheckIns = {} /\ Auths \cap Reviews = {}
  /\ Casts \cap CheckIns = {} /\ Casts \cap Reviews = {} /\ CheckIns \cap Reviews = {}
  /\ Deletes \cap (Auths \cup Casts \cup CheckIns \cup Reviews) = {}

ASSUME NoneAssumption ==
  None \notin Requests \cup Voters \cup Elections \cup {"VERIFIED", "CHECKED_IN", "BLOCKED"}

ASSUME RollAssumption == ElectionOf \in [Voters -> Elections]

(***************************************************************************)
(* The tables.  A voter's status string is kept as far as the guards tell  *)
(* its values apart: "BLOCKED" stands for BLOCKED, SUSPENDED, INELIGIBLE;  *)
(* "VERIFIED" for every status that is neither that nor CHECKED_IN.        *)
(***************************************************************************)
VotingStatus  == {"NOT_VOTED", "CHECKED_IN", "VOTED"}
VoterStatus   == {"VERIFIED", "CHECKED_IN", "BLOCKED"}
SessionStatus == {"NONE", "ACTIVE", "USED"}

VARIABLES
  live,            \* the elections whose status is LIVE
  roll,            \* the voters whose row exists; a deleted row's columns keep
                   \* their last values, and no request reads them
  has_voted,       \* voters.has_voted
  voting_status,   \* voters.voting_status
  status,          \* voters.status
  session_status,  \* voting_sessions.status, "NONE" when there is no row
  expired,         \* the sessions whose expires_at has passed
  ballots,         \* rows of ballots
  checkins,        \* rows of voter_checkins
  voter_lock,      \* the request that holds the lock on a voter's row
  session_lock,    \* the request that holds the lock on a session's row
  pc,              \* how far a request has come
  arg,             \* the parameters of a request
  seen             \* the two status columns of a voter as a request loaded them

voterVars   == <<roll, has_voted, voting_status, status>>
sessionVars == <<session_status, expired>>
tableVars   == <<voterVars, sessionVars, ballots, checkins>>
lockVars    == <<voter_lock, session_lock>>
vars        == <<live, tableVars, lockVars, pc, arg, seen>>

Step == {"new", "election_read", "voter_read",                  \* auth-ballot
         "session_read", "voter_locked", "recorded", "session_used",   \* cast
         "no_row", "flushed",                            \* check-in, review, delete
         "done", "failed"}

Args == [voter : Voters \cup {None}, election : Elections \cup {None},
         session : Auths \cup {None}, status : VoterStatus \cup {None}]

Params(v, e, s, t) == [voter |-> v, election |-> e, session |-> s, status |-> t]

Ended == {"done", "failed"}

InFlight(r) == pc[r] \notin {"new"} \cup Ended

Advance(r, step) == pc' = [pc EXCEPT ![r] = step]

\* The end of a transaction frees every row it had locked.
ReleaseLocks(r) ==
  /\ voter_lock'   = [v \in Voters |-> IF voter_lock[v] = r THEN None ELSE voter_lock[v]]
  /\ session_lock' = [s \in Auths |-> IF session_lock[s] = r THEN None ELSE session_lock[s]]

\* Mutant of Fail: the connection goes back to the pool with its transaction open.
FailKeepsLocks(r) == /\ Advance(r, "failed")
                     /\ UNCHANGED <<tableVars, lockVars, live, seen>>

\* An exception reaches get_db: every write is undone, every lock freed.
Fail(r) == /\ Advance(r, "failed")
           /\ ReleaseLocks(r)
           /\ UNCHANGED <<tableVars, live, seen>>

Loaded(v) == [status |-> status[v], voting_status |-> voting_status[v]]

\* The rows that a request has locked.
Holds(r) == {v \in Voters : voter_lock[v] = r}

AlreadyVoted(v) == has_voted[v] \/ voting_status[v] = "VOTED"

Barred(v) == status[v] = "BLOCKED"

(***************************************************************************)
(* Initially the roll is loaded, nobody has voted or checked in, and any   *)
(* of the elections may be open.                                           *)
(***************************************************************************)
Init ==
  /\ live \in SUBSET Elections
  /\ roll = Voters
  /\ has_voted = [v \in Voters |-> FALSE]
  /\ voting_status = [v \in Voters |-> "NOT_VOTED"]
  /\ status \in [Voters -> {"VERIFIED", "BLOCKED"}]
  /\ session_status = [s \in Auths |-> "NONE"]
  /\ expired = {}
  /\ ballots = {}
  /\ checkins = {}
  /\ voter_lock = [v \in Voters |-> None]
  /\ session_lock = [s \in Auths |-> None]
  /\ pc = [r \in Requests |-> "new"]
  /\ arg = [r \in Requests |-> Params(None, None, None, None)]
  /\ seen = [r \in Requests |-> None]

(***************************************************************************)
(* POST /voting/auth-ballot.                                               *)
(***************************************************************************)
AuthReadElection(a, e, v) ==
  /\ pc[a] = "new"
  /\ arg' = [arg EXCEPT ![a] = Params(v, e, None, None)]
  /\ IF e \in live
       THEN Advance(a, "election_read") /\ UNCHANGED <<tableVars, lockVars, live, seen>>
       ELSE Fail(a)

\* The voter is looked up by election and voter id number, without a lock.
AuthReadVoter(a) ==
  LET v == arg[a].voter IN
  /\ pc[a] = "election_read"
  /\ IF v \in roll /\ ElectionOf[v] = arg[a].election /\ ~AlreadyVoted(v) /\ ~Barred(v)
       THEN Advance(a, "voter_read") /\ UNCHANGED <<tableVars, lockVars, live, seen>>
       ELSE Fail(a)
  /\ UNCHANGED arg

\* The session row, with no reference to the voter, becomes visible.
AuthCommit(a) ==
  /\ pc[a] = "voter_read"
  /\ session_status' = [session_status EXCEPT ![a] = "ACTIVE"]
  /\ Advance(a, "done")
  /\ ReleaseLocks(a)
  /\ UNCHANGED <<live, voterVars, expired, ballots, checkins, arg, seen>>

\* The clock passes expires_at, fifteen minutes after the issue.  The row
\* keeps its status: nothing in the program sets EXPIRED.
Expire(s) ==
  /\ session_status[s] # "NONE"
  /\ s \notin expired
  /\ expired' = expired \cup {s}
  /\ UNCHANGED <<live, voterVars, session_status, ballots, checkins, lockVars, pc, arg, seen>>

(***************************************************************************)
(* POST /voting/cast.  The session is read without a lock, and nothing     *)
(* ties it to the voter or to the election the request names.              *)
(***************************************************************************)
CastReadSession(c, s, v, e) ==
  /\ pc[c] = "new"
  /\ arg' = [arg EXCEPT ![c] = Params(v, e, s, None)]
  /\ IF session_status[s] = "ACTIVE" /\ s \notin expired
       THEN Advance(c, "session_read") /\ UNCHANGED <<tableVars, lockVars, live, seen>>
       ELSE Fail(c)

\* Mutant of CastLockVoter: a SELECT without FOR UPDATE.
CastReadVoterUnlocked(c) ==
  LET v == arg[c].voter IN
  /\ pc[c] = "session_read"
  /\ IF v \notin roll \/ (v \in roll /\ AlreadyVoted(v))
       THEN Fail(c)
       ELSE Advance(c, "voter_locked") /\ UNCHANGED <<tableVars, lockVars, live, seen>>
  /\ UNCHANGED arg

\* SELECT ... FOR UPDATE on the voter, and the double-voting check on what
\* it returns.
CastLockVoter(c) ==
  LET v == arg[c].voter IN
  /\ pc[c] = "session_read"
  /\ IF v \notin roll
       THEN Fail(c)
       ELSE /\ voter_lock[v] = None
            /\ IF AlreadyVoted(v)
                 THEN Fail(c)
                 ELSE /\ voter_lock' = [voter_lock EXCEPT ![v] = c]
                      /\ Advance(c, "voter_locked")
                      /\ UNCHANGED <<tableVars, session_lock, live, seen>>
  /\ UNCHANGED arg

\* A selection names no position, or too many candidates for it.
CastRejectSelections(c) ==
  /\ pc[c] = "voter_locked"
  /\ Fail(c)
  /\ UNCHANGED arg

\* Mutant of CastRecordBallot: record_anonymous_ballot commits instead of flushing.
CastRecordBallotCommits(c) ==
  /\ pc[c] = "voter_locked"
  /\ ballots' = ballots \cup {[serial |-> c, election |-> arg[c].election]}
  /\ Advance(c, "recorded")
  /\ UNCHANGED <<live, voterVars, sessionVars, checkins, lockVars, arg, seen>>

\* The ballot, its votes and the voter's new columns are flushed: they are
\* in the transaction, not yet in the tables.
CastRecordBallot(c) ==
  /\ pc[c] = "voter_locked"
  /\ Advance(c, "recorded")
  /\ UNCHANGED <<live, tableVars, lockVars, arg, seen>>

\* Mutant of CastUseSession: the session is used up in a transaction of its own.
CastUseSessionCommits(c) ==
  LET s == arg[c].session IN
  /\ pc[c] = "recorded"
  /\ session_lock[s] = None
  /\ session_status' = [session_status EXCEPT ![s] = "USED"]
  /\ Advance(c, "session_used")
  /\ UNCHANGED <<live, voterVars, expired, ballots, checkins, lockVars, arg, seen>>

\* The session's UPDATE, flushed with the audit entry, locks its row; it is
\* by primary key and does not look at the status again.
CastUseSession(c) ==
  LET s == arg[c].session IN
  /\ pc[c] = "recorded"
  /\ session_lock[s] = None
  /\ session_lock' = [session_lock EXCEPT ![s] = c]
  /\ Advance(c, "session_used")
  /\ UNCHANGED <<live, tableVars, voter_lock, arg, seen>>

\* Mutant of CastCommit: voting_status is set and has_voted is not.
CastCommitLeavesMark(c) ==
  LET v == arg[c].voter IN
  /\ pc[c] = "session_used"
  /\ ballots' = ballots \cup {[serial |-> c, election |-> arg[c].election]}
  /\ voting_status' = [voting_status EXCEPT ![v] = "VOTED"]
  /\ session_status' = [session_status EXCEPT ![arg[c].session] = "USED"]
  /\ Advance(c, "done")
  /\ ReleaseLocks(c)
  /\ UNCHANGED <<live, roll, has_voted, status, expired, checkins, arg, seen>>

CastCommit(c) ==
  LET v == arg[c].voter IN
  /\ pc[c] = "session_used"
  /\ ballots' = ballots \cup {[serial |-> c, election |-> arg[c].election]}
  /\ has_voted' = [has_voted EXCEPT ![v] = TRUE]
  /\ voting_status' = [voting_status EXCEPT ![v] = "VOTED"]
  /\ session_status' = [session_status EXCEPT ![arg[c].session] = "USED"]
  /\ Advance(c, "done")
  /\ ReleaseLocks(c)
  /\ UNCHANGED <<live, roll, status, expired, checkins, arg, seen>>

(***************************************************************************)
(* POST /checkin/.  The voter is read without a lock; the UPDATE that      *)
(* follows sets voting_status and status, and only the columns whose value *)
(* differs from the one loaded.                                            *)
(***************************************************************************)
CheckInReadVoter(k, v, e) ==
  /\ pc[k] = "new"
  /\ arg' = [arg EXCEPT ![k] = Params(v, e, None, None)]
  /\ IF v \in roll /\ ElectionOf[v] = e /\ ~AlreadyVoted(v) /\ ~Barred(v)
       THEN /\ seen' = [seen EXCEPT ![k] = Loaded(v)]
            /\ Advance(k, "voter_read")
            /\ UNCHANGED <<tableVars, lockVars, live>>
       ELSE Fail(k)

CheckedIn(v) == \E row \in checkins : row.voter = v

CheckInFindRow(k) ==
  /\ pc[k] = "voter_read"
  /\ IF CheckedIn(arg[k].voter)
       THEN Fail(k)
       ELSE Advance(k, "no_row") /\ UNCHANGED <<tableVars, lockVars, live, seen>>
  /\ UNCHANGED arg

\* Mutant of CheckInFlush: no unique constraint on (election_id, voter_id).
CheckInFlushAnyRow(k) ==
  LET v == arg[k].voter IN
  /\ pc[k] = "no_row"
  /\ v \in roll
  /\ voter_lock[v] = None
  /\ voter_lock' = [voter_lock EXCEPT ![v] = k]
  /\ Advance(k, "flushed")
  /\ UNCHANGED <<live, tableVars, session_lock, arg, seen>>

\* UPDATE of the voter, then INSERT of the check-in row, which the unique
\* constraint on (election_id, voter_id) may refuse.  An UPDATE that finds no
\* row is an exception of the ORM.
CheckInFlush(k) ==
  LET v == arg[k].voter IN
  /\ pc[k] = "no_row"
  /\ voter_lock[v] = None
  /\ IF v \notin roll \/ CheckedIn(v)
       THEN Fail(k)
       ELSE /\ voter_lock' = [voter_lock EXCEPT ![v] = k]
            /\ Advance(k, "flushed")
            /\ UNCHANGED <<tableVars, session_lock, live, seen>>
  /\ UNCHANGED arg

\* Mutant of CheckInCommit: the UPDATE writes the whole row that was loaded.
CheckInCommitWholeRow(k) ==
  LET v == arg[k].voter IN
  /\ pc[k] = "flushed"
  /\ checkins' = checkins \cup {[voter |-> v, by |-> k]}
  /\ has_voted' = [has_voted EXCEPT ![v] = FALSE]
  /\ voting_status' = [voting_status EXCEPT ![v] = "CHECKED_IN"]
  /\ status' = [status EXCEPT ![v] = "CHECKED_IN"]
  /\ Advance(k, "done")
  /\ ReleaseLocks(k)
  /\ UNCHANGED <<live, roll, sessionVars, ballots, arg, seen>>

CheckInCommit(k) ==
  LET v == arg[k].voter IN
  /\ pc[k] = "flushed"
  /\ checkins' = checkins \cup {[voter |-> v, by |-> k]}
  /\ voting_status' =
       [voting_status EXCEPT ![v] = IF seen[k].voting_status = "CHECKED_IN" THEN @ ELSE "CHECKED_IN"]
  /\ status' = [status EXCEPT ![v] = IF seen[k].status = "CHECKED_IN" THEN @ ELSE "CHECKED_IN"]
  /\ Advance(k, "done")
  /\ ReleaseLocks(k)
  /\ UNCHANGED <<live, roll, has_voted, sessionVars, ballots, arg, seen>>

(***************************************************************************)
(* The review of a voter: verify sets VERIFIED whatever the status was,    *)
(* update sets the status it is given.  There is no UPDATE when it does    *)
(* not differ, but the row is referenced or read again, and must exist.    *)
(***************************************************************************)
ReviewReadVoter(w, v, new) ==
  /\ pc[w] = "new"
  /\ arg' = [arg EXCEPT ![w] = Params(v, None, None, new)]
  /\ IF v \notin roll
       THEN Fail(w)
       ELSE /\ seen' = [seen EXCEPT ![w] = Loaded(v)]
            /\ Advance(w, "voter_read")
            /\ UNCHANGED <<tableVars, lockVars, live>>

VerifyVoter(w, v) == ReviewReadVoter(w, v, "VERIFIED")

UpdateVoter(w, v, new) == ReviewReadVoter(w, v, new)

ReviewFlush(w) ==
  LET v == arg[w].voter IN
  /\ pc[w] = "voter_read"
  /\ IF v \notin roll
       THEN Fail(w)
       ELSE /\ IF seen[w].status = arg[w].status
                 THEN UNCHANGED voter_lock
                 ELSE /\ voter_lock[v] = None
                      /\ voter_lock' = [voter_lock EXCEPT ![v] = w]
            /\ Advance(w, "flushed")
            /\ UNCHANGED <<live, tableVars, session_lock, seen>>
  /\ UNCHANGED arg

ReviewCommit(w) ==
  /\ pc[w] = "flushed"
  /\ status' = [status EXCEPT ![arg[w].voter] =
                  IF seen[w].status = arg[w].status THEN @ ELSE arg[w].status]
  /\ Advance(w, "done")
  /\ ReleaseLocks(w)
  /\ UNCHANGED <<live, roll, has_voted, voting_status, sessionVars, ballots, checkins, arg, seen>>

(***************************************************************************)
(* The deletion of a voter, whatever the voter has done: the row and, by   *)
(* cascade, its check-in.  A row that is gone at the DELETE is no error,   *)
(* and then nothing is deleted.                                            *)
(***************************************************************************)
DeleteReadVoter(d, v) ==
  /\ pc[d] = "new"
  /\ arg' = [arg EXCEPT ![d] = Params(v, None, None, None)]
  /\ IF v \in roll
       THEN Advance(d, "voter_read") /\ UNCHANGED <<tableVars, lockVars, live, seen>>
       ELSE Fail(d)

DeleteFlush(d) ==
  LET v == arg[d].voter IN
  /\ pc[d] = "voter_read"
  /\ IF v \in roll
       THEN /\ voter_lock[v] = None
            /\ voter_lock' = [voter_lock EXCEPT ![v] = d]
       ELSE UNCHANGED voter_lock
  /\ Advance(d, "flushed")
  /\ UNCHANGED <<live, tableVars, session_lock, arg, seen>>

DeleteCommit(d) ==
  /\ pc[d] = "flushed"
  /\ roll' = roll \ Holds(d)
  /\ checkins' = {row \in checkins : row.voter \notin Holds(d)}
  /\ Advance(d, "done")
  /\ ReleaseLocks(d)
  /\ UNCHANGED <<live, has_voted, voting_status, status, sessionVars, ballots, arg, seen>>

(***************************************************************************)
(* The surroundings.  A transaction is rolled back at any point by a lost  *)
(* connection, the command timeout or a crash; other requests open, pause  *)
(* and close the elections.                                                *)
(***************************************************************************)
Abort(r) == /\ InFlight(r)
            /\ Fail(r)
            /\ UNCHANGED arg

ElectionChanges(e) ==
  /\ live' = IF e \in live THEN live \ {e} ELSE live \cup {e}
  /\ UNCHANGED <<tableVars, lockVars, pc, arg, seen>>

(***************************************************************************)
(* A request arrives with any parameters; from then on the server carries  *)
(* it through.                                                             *)
(***************************************************************************)
Arrive ==
  \/ \E a \in Auths, e \in Elections, v \in Voters \cup {None} : AuthReadElection(a, e, v)
  \/ \E c \in Casts, s \in Auths, v \in Voters \cup {None}, e \in Elections :
       CastReadSession(c, s, v, e)
  \/ \E k \in CheckIns, v \in Voters \cup {None}, e \in Elections : CheckInReadVoter(k, v, e)
  \/ \E w \in Reviews, v \in Voters \cup {None} :
       VerifyVoter(w, v) \/ \E new \in VoterStatus : UpdateVoter(w, v, new)
  \/ \E d \in Deletes, v \in Voters \cup {None} : DeleteReadVoter(d, v)

AuthStep(a)    == AuthReadVoter(a) \/ AuthCommit(a)
CastStep(c)    == CastLockVoter(c) \/ CastRejectSelections(c) \/ CastRecordBallot(c)
                    \/ CastUseSession(c) \/ CastCommit(c)
CheckInStep(k) == CheckInFindRow(k) \/ CheckInFlush(k) \/ CheckInCommit(k)
ReviewStep(w)  == ReviewFlush(w) \/ ReviewCommit(w)
DeleteStep(d)  == DeleteFlush(d) \/ DeleteCommit(d)

Serve == \/ \E a \in Auths : AuthStep(a)
         \/ \E c \in Casts : CastStep(c)
         \/ \E k \in CheckIns : CheckInStep(k)
         \/ \E w \in Reviews : ReviewStep(w)
         \/ \E d \in Deletes : DeleteStep(d)

Environment == \/ \E s \in Auths : Expire(s)
               \/ \E r \in Requests : Abort(r)
               \/ \E e \in Elections : ElectionChanges(e)

Next == Arrive \/ Serve \/ Environment

Spec == Init /\ [][Next]_vars

\* The event loop resumes every handler whose statement has returned, and a
\* statement that waits for a free row lock is granted it.
Fairness == /\ \A a \in Auths : WF_vars(AuthStep(a))
            /\ \A c \in Casts : WF_vars(CastStep(c))
            /\ \A k \in CheckIns : WF_vars(CheckInStep(k))
            /\ \A w \in Reviews : WF_vars(ReviewStep(w))
            /\ \A d \in Deletes : WF_vars(DeleteStep(d))

FairSpec == Spec /\ Fairness

-----------------------------------------------------------------------------
(***************************************************************************)
(* Properties.                                                             *)
(***************************************************************************)
VoterOf(b) == arg[b.serial].voter

\* Every variable has its type.
TypeOK ==
  /\ live \subseteq Elections
  /\ roll \subseteq Voters
  /\ has_voted \in [Voters -> BOOLEAN]
  /\ voting_status \in [Voters -> VotingStatus]
  /\ status \in [Voters -> VoterStatus]
  /\ session_status \in [Auths -> SessionStatus]
  /\ expired \subseteq Auths
  /\ ballots \subseteq [serial : Casts, election : Elections]
  /\ checkins \subseteq [voter : Voters, by : CheckIns]
  /\ voter_lock \in [Voters -> Requests \cup {None}]
  /\ session_lock \in [Auths -> Casts \cup {None}]
  /\ pc \in [Requests -> Step]
  /\ arg \in [Requests -> Args]
  /\ seen \in [Requests -> [status : VoterStatus, voting_status : VotingStatus] \cup {None}]

\* No voter casts two ballots, whatever sessions they hold and however the
\* requests interleave or fail: the purpose of the FOR UPDATE in cast_ballot.
NoDoubleVote == \A b1, b2 \in ballots : VoterOf(b1) = VoterOf(b2) => b1 = b2

\* A voter is marked as having voted exactly when a ballot of theirs is in
\* the vault: cast_ballot's two writes are never seen apart, even though no
\* column links them and check-ins and reviews write the same row.
VotedIffBallot == \A v \in Voters : has_voted[v] <=> \E b \in ballots : VoterOf(b) = v

\* A session is USED exactly when some ballot was cast with it.
UsedIffBallot ==
  \A s \in Auths : session_status[s] = "USED" <=> \E b \in ballots : arg[b.serial].session = s

\* The vault is accounted for on both sides, by the marks of the voters and by
\* the sessions that are used up, at every moment of every cast: the three
\* writes of cast_ballot, which no column links, are never seen apart.
BallotsAccountedFor == VotedIffBallot /\ UsedIffBallot

\* A check-in row is the only one of a voter who is on the roll, and the roll
\* shows the voter as checked in or voted exactly when there is a row or a
\* ballot to show for it, whatever check-ins, casts and deletions overlap.
CheckInsConsistent ==
  /\ \A x \in checkins : x.voter \in roll
  /\ \A x, y \in checkins : x.voter = y.voter => x = y
  /\ \A v \in roll :
       /\ CheckedIn(v) => voting_status[v] # "NOT_VOTED"
       /\ voting_status[v] = "CHECKED_IN" => CheckedIn(v)
       /\ voting_status[v] = "VOTED" => has_voted[v]

\* Who has voted and what is in the vault are never taken back by any later
\* step, a rollback, a late check-in or a review among them.
VotesAreFinal == [][/\ \A v \in Voters : has_voted[v] => has_voted'[v]
                    /\ ballots \subseteq ballots']_vars

\* Every request that was taken up ends, committed or refused: no order of
\* row locks leaves two of them waiting for each other.
EveryRequestEnds == \A r \in Requests : InFlight(r) ~> pc[r] \in Ended

\* The engine implements the abstract ballot box.
Box == INSTANCE BallotBox WITH
         Ballots <- Casts,
         voted   <- {v \in Voters : has_voted[v]},
         box     <- {b.serial : b \in ballots}

ImplementsBallotBox == Box!Spec

\* The audit of the roll against the vault: as many voters are marked as having
\* voted as there are ballots, though no ballot names its voter, until the row
\* of a voter who has voted is deleted.
RegisterBalances ==
  {v \in Voters : has_voted[v]} \subseteq roll =>
    Cardinality({v \in roll : has_voted[v]}) = Cardinality({b.serial : b \in ballots})

(***************************************************************************)
(* The inductive invariant: what a request holds, and has established,     *)
(* at each point of its transaction.                                       *)
(***************************************************************************)
CastHasVoter(c) == pc[c] \in {"voter_locked", "recorded", "session_used"}

\* Between its FOR UPDATE and its commit a cast owns the row of a voter on the
\* roll who has not voted; the voter of a ballot is the voter of a cast that
\* has ended, whose parameters no longer change.
CastsInOrder ==
  /\ \A c \in Casts : CastHasVoter(c) => /\ arg[c].voter \in roll
                                        /\ voter_lock[arg[c].voter] = c
                                        /\ ~has_voted[arg[c].voter]
  /\ \A b \in ballots : pc[b.serial] = "done"

\* The row of a session is inserted by its request's commit, and a cast that
\* has read a session has read a row.
SessionsInOrder ==
  /\ \A s \in Auths : pc[s] # "done" => session_status[s] = "NONE"
  /\ \A c \in Casts : pc[c] = "session_read" \/ CastHasVoter(c) =>
       session_status[arg[c].session] # "NONE"

\* Between its flush and its commit a check-in owns the row of a voter on the
\* roll who has no check-in row.
CheckInsInOrder ==
  \A k \in CheckIns : pc[k] = "flushed" => /\ arg[k].voter \in roll
                                          /\ voter_lock[arg[k].voter] = k
                                          /\ ~CheckedIn(arg[k].voter)

\* Between its flush and its commit a deletion owns the row, if there is one.
DeletesInOrder ==
  \A d \in Deletes : pc[d] = "flushed" /\ arg[d].voter \in roll => voter_lock[arg[d].voter] = d

\* The parameters that a started request relies on name rows.
ArgsInOrder ==
  /\ \A c \in Casts : pc[c] # "new" => arg[c].session \in Auths /\ arg[c].election \in Elections
  /\ \A k \in CheckIns : pc[k] \in {"voter_read", "no_row"} => arg[k].voter \in Voters
  /\ \A w \in Reviews : pc[w] \in {"voter_read", "flushed"} =>
        arg[w].voter \in Voters /\ arg[w].status \in VoterStatus

\* A check-in that loaded a voter who was checked in will find the row of that
\* check-in, or not the voter, so it never counts on a mark that is gone.
LoadsInOrder ==
  \A k \in CheckIns : pc[k] \in {"voter_read", "no_row", "flushed"} =>
    /\ seen[k].voting_status # "VOTED"
    /\ seen[k].voting_status = "CHECKED_IN" /\ arg[k].voter \in roll => CheckedIn(arg[k].voter)

\* What every step preserves whatever has become of the roll.
Core == TypeOK /\ UsedIffBallot /\ CastsInOrder /\ SessionsInOrder /\ CheckInsInOrder /\ ArgsInOrder

\* The invariant that every step preserves, and that the safety properties
\* above are conjuncts of.
IInv == /\ Core
        /\ NoDoubleVote /\ VotedIffBallot /\ CheckInsConsistent
        /\ DeletesInOrder /\ LoadsInOrder

(***************************************************************************)
(* What the documents say of the engine and the code does not do.          *)
(***************************************************************************)
\* docs/VOTING_ENGINE_SECURITY.md, 2.2: a session is invalidated by the vote
\* cast with it, so no two ballots come from the same session.
OneBallotPerSession ==
  \A b1, b2 \in ballots : arg[b1.serial].session = arg[b2.serial].session => b1 = b2
=============================================================================
