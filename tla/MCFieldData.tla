----------------------------- MODULE MCFieldData -----------------------------
(***************************************************************************)
(* A small instance of the field data for TLC.                             *)
(***************************************************************************)
EXTENDS FieldData, TLC

MCSignals == <<"MOBILE", "NAME_AREA">>

\* v1 is a volunteer of one organization, v2 a member of another.
MCOrgOf == [u \in Users |-> IF u \in Volunteers THEN "o1" ELSE "o2"]

Says(org, mobile, name) ==
  [x \in Signal \cup {"organization"} |->
     CASE x = "organization" -> org [] x = "MOBILE" -> mobile [] OTHER -> name]

\* A citizen whom the one organization knows by name and the other by telephone
\* as well.
MCFacts == {Says("o1", None, "n1"), Says("o2", "m1", "n1")}

\* Requests of a kind are interchangeable.
Symmetry == Permutations(Submits) \cup Permutations(Reviews)
=============================================================================
