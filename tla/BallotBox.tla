------------------------------ MODULE BallotBox ------------------------------
(***************************************************************************)
(* What the voting engine promises, with no session, lock or transaction:  *)
(* a voter puts at most one ballot in the box, a ballot once in the box    *)
(* stays there, and nothing in the box says who put it there.              *)
(***************************************************************************)
CONSTANTS Voters,   \* the electoral roll
          Ballots   \* the ballot serials that can ever be issued

VARIABLES voted,    \* the voters who have cast a ballot
          box       \* the serials of the ballots cast

vars == <<voted, box>>

TypeOK == /\ voted \subseteq Voters
          /\ box \subseteq Ballots

Init == /\ voted = {}
        /\ box = {}

\* Voter v casts the ballot with serial b, both for the first time.
Cast(v, b) == /\ v \notin voted
              /\ b \notin box
              /\ voted' = voted \cup {v}
              /\ box' = box \cup {b}

Next == \E v \in Voters, b \in Ballots : Cast(v, b)

Spec == Init /\ [][Next]_vars
==============================================================================
