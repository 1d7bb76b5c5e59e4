--------------------------- MODULE MCVotingEngine ---------------------------
(***************************************************************************)
(* Small instances of the voting engine for TLC.                           *)
(***************************************************************************)
EXTENDS VotingEngine, TLC

\* Every voter of a small instance is on the roll of its first election.
MCElectionOf == [v \in Voters |-> CHOOSE e \in Elections : TRUE]

Symmetry == Permutations(Voters) \cup Permutations(Auths) \cup Permutations(Casts)
              \cup Permutations(CheckIns)
=============================================================================
