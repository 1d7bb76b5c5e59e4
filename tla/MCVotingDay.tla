---------------------------- MODULE MCVotingDay ----------------------------
(***************************************************************************)
(* Small instances of the voting day for TLC.                              *)
(***************************************************************************)
EXTENDS VotingDay, MCVotingEngine
=============================================================================
