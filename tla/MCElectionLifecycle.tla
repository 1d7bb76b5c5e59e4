------------------------ MODULE MCElectionLifecycle ------------------------
(***************************************************************************)
(* Small instances of the election lifecycle for TLC.                      *)
(***************************************************************************)
EXTENDS ElectionLifecycle, TLC

\* Transition requests are interchangeable.
Symmetry == Permutations(Transitions)
=============================================================================
