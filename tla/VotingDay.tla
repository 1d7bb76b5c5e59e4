------------------------------ MODULE VotingDay ------------------------------
(***************************************************************************)
(* The voting engine on a roll that grows as well as shrinks: a voter who  *)
(* has been deleted may be enrolled again, from voters that have not voted *)
(* (services/voter_service.py, create_voter).  The number of a voter is    *)
(* the primary key of the row, so the new row is the one that requests of  *)
(* the old one find; ballots name no voter and stay.                       *)
(*                                                                         *)
(* Bound: a number is enrolled again for the election it was in, and as    *)
(* often as Deletes lets it be deleted.                                    *)
(***************************************************************************)
EXTENDS VotingEngine

VARIABLE
  outdated   \* history: the serials of ballots whose voter's row was deleted since

dayVars == <<vars, outdated>>

\* Mutant of Enrol: the number is not looked up first, and replaces the row.
EnrolAnyNumber(v, t) ==
  /\ roll' = roll \cup {v}
  /\ has_voted' = [has_voted EXCEPT ![v] = FALSE]
  /\ voting_status' = [voting_status EXCEPT ![v] = "NOT_VOTED"]
  /\ status' = [status EXCEPT ![v] = t]
  /\ UNCHANGED <<live, sessionVars, ballots, checkins, lockVars, pc, arg, seen>>

\* Mutant of Enrol: a deleted row is revived as it was.
EnrolRevives(v, t) ==
  /\ v \notin roll
  /\ roll' = roll \cup {v}
  /\ status' = [status EXCEPT ![v] = t]
  /\ UNCHANGED <<live, has_voted, voting_status, sessionVars, ballots, checkins, lockVars,
                 pc, arg, seen>>

\* POST /voters/.  A number that is on the roll is a conflict, found by the
\* query or by the primary key; an INSERT waits for the transaction that deletes
\* the row, and its row is seen from its commit on.
Enrol(v, t) ==
  /\ v \notin roll
  /\ roll' = roll \cup {v}
  /\ has_voted' = [has_voted EXCEPT ![v] = FALSE]
  /\ voting_status' = [voting_status EXCEPT ![v] = "NOT_VOTED"]
  /\ status' = [status EXCEPT ![v] = t]
  /\ UNCHANGED <<live, sessionVars, ballots, checkins, lockVars, pc, arg, seen>>

DayInit == Init /\ outdated = {}

DayNext ==
  /\ Next \/ \E v \in Voters, t \in VoterStatus : Enrol(v, t)
  /\ outdated' = outdated \cup {b.serial : b \in {x \in ballots : VoterOf(x) \in roll \ roll'}}

DaySpec == DayInit /\ [][DayNext]_dayVars

\* The requests go on as in VotingEngine; nobody is obliged to enrol a voter.
FairDaySpec == DaySpec /\ Fairness

-----------------------------------------------------------------------------
(***************************************************************************)
(* Properties.                                                             *)
(***************************************************************************)
\* The ballots of the voters as they are enrolled now.
Current == {b \in ballots : b.serial \notin outdated}

\* As long as a voter's row is not deleted no second ballot is cast for it,
\* whichever requests loaded the row before it was last deleted, and in
\* whatever order they go on: the row lock is enough on any roll.
OneBallotPerEnrolment ==
  \A b1, b2 \in Current : VoterOf(b1) = VoterOf(b2) => b1 = b2

\* A voter on the roll is marked as having voted exactly when a ballot was cast
\* since the enrolment: nothing is inherited from the row before, and no
\* deletion or check-in that was late takes the mark of the new row.
MarkOfEnrolment ==
  \A v \in roll : has_voted[v] <=> \E b \in Current : VoterOf(b) = v

(***************************************************************************)
(* The inductive invariant: to the engine's, which holds on any roll, it   *)
(* adds that no voter off the roll has a current ballot.                   *)
(***************************************************************************)
DayInv == /\ Core
          /\ OneBallotPerEnrolment /\ MarkOfEnrolment
          /\ outdated \subseteq {b.serial : b \in ballots}
          /\ \A b \in Current : VoterOf(b) \in roll
=============================================================================
