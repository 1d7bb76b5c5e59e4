----------------------------- MODULE MCVoterRoll -----------------------------
(***************************************************************************)
(* Small instances of the roll for TLC.                                    *)
(***************************************************************************)
EXTENDS VoterRoll, TLC

\* Two people, the number of one of whom may be written in lower case.
MCNumbers == {"abc1", "ABC1", "ABC2"}

MCUpper == [n \in MCNumbers |-> IF n = "abc1" THEN "ABC1" ELSE n]

\* One person, or two in either order, or one twice.
MCBatches == {<<"abc1">>, <<"ABC1">>, <<"ABC1", "ABC2">>, <<"ABC2", "ABC1">>, <<"ABC1", "ABC1">>}

\* Elections and requests of a kind are interchangeable.
Symmetry == Permutations(Enrols) \cup Permutations(Confirms)
              \cup Permutations(Uploads) \cup Permutations(Elections)
=============================================================================
