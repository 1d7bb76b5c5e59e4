---------------------------- MODULE MCResultTally ----------------------------
(***************************************************************************)
(* Small instances of the tally for TLC.                                   *)
(***************************************************************************)
EXTENDS ResultTally, TLC

CONSTANTS c1, c2, p1, p2

\* One candidate stands for a position at the start.
OnePosition == c1 :> p1

\* A ballot that chooses c1 for p1, twice.
MCChoices == {[c \in Candidates |-> [p \in Positions |-> IF c = c1 /\ p = p1 THEN 2 ELSE 0]]}
=============================================================================
