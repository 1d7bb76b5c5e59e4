----------------------------- MODULE MCAccounts -----------------------------
(***************************************************************************)
(* Small instances of the accounts for TLC.                                *)
(***************************************************************************)
EXTENDS Accounts, TLC

\* Requests of a kind are interchangeable, and so are emails and passwords.
Symmetry ==
  UNION ({Permutations(Kinds[i]) : i \in DOMAIN Kinds} \cup {Permutations(Emails), Permutations(Passwords)})
=============================================================================
