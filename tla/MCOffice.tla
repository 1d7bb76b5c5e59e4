------------------------------ MODULE MCOffice ------------------------------
(***************************************************************************)
(* A small instance of the back office for TLC.                            *)
(***************************************************************************)
EXTENDS Office, TLC

CONSTANTS super, admin, vol, o1, o2, e1, e2, e3, x1, v1, v2

MCRole == (super :> "SUPER_ADMIN") @@ (admin :> "ADMIN") @@ (vol :> "VOLUNTEER")

MCUserOrg == (super :> o1) @@ (admin :> o1) @@ (vol :> o1)

\* Two expenses of one organization exceed the ceiling together; the third is
\* another's.
MCBudgetOrg == (e1 :> o1) @@ (e2 :> o1) @@ (e3 :> o2) @@ (x1 :> o1)

MCAmount == (e1 :> 1) @@ (e2 :> 2) @@ (e3 :> 1)

\* An organization with two voters, one of whom has no telephone, and another
\* with none; messages go by an adapter that is mocked or by one that is not.
MCOrgOf == (v1 :> o1) @@ (v2 :> o1)

MCMobile == {v1}

\* Drafts are interchangeable, and so are workers.
Symmetry == Permutations(Drafts) \cup Permutations(Workers)
=============================================================================
