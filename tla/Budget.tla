------------------------------- MODULE Budget -------------------------------
(***************************************************************************)
(* The expenses of an organization and their statutory ceiling             *)
(* (services/expense_service.py).  An addition reads the total and inserts *)
(* its row, without a lock in between.  Amounts are natural numbers.       *)
(***************************************************************************)
EXTENDS Naturals, FiniteSets, FiniteSetsExt

CONSTANTS
  Additions,   \* requests to POST /expenses; each names the expense it adds
  Deletions,   \* requests to DELETE /expenses/{id}
  Orgs,
  OrgOf,       \* the organization of the one who makes a request
  Amount,      \* what an addition asks for
  Limit,       \* STATUTORY_BUDGET_LIMIT
  None

Requests == Additions \cup Deletions

\* What the constants are.
BudgetAssumption ==
  /\ Additions \cap Deletions = {} /\ None \notin Additions
  /\ OrgOf \in [Requests -> Orgs]
  /\ Amount \in [Additions -> Nat] /\ Limit \in Nat

VARIABLES
  expenses,    \* the additions whose row is there
  pc,          \* the request's next statement
  total,       \* the total that an addition has read
  target,      \* the expense that a deletion has loaded
  together     \* history: pairs of additions that were in flight together

vars == <<expenses, pc, total, target, together>>

Init ==
  /\ expenses = {}
  /\ pc = [r \in Requests |-> "new"]
  /\ total = [a \in Additions |-> 0]
  /\ target = [d \in Deletions |-> None]
  /\ together = {}

InFlight == {r \in Requests : pc[r] = "commit"}

Spent(es) == MapThenSumSet(LAMBDA a : Amount[a], es)

\* get_total_spent.
TotalSpent(org) == Spent({a \in expenses : OrgOf[a] = org})

\* Mutant of Allowed: what is spent is held against the limit, not what will be.
AllowedBefore(spent, amount) == amount > 0 /\ spent <= Limit

\* The amount is positive, and the projected total within the limit.
Allowed(spent, amount) == amount > 0 /\ spent + amount <= Limit

AddRead(a) ==
  LET spent == TotalSpent(OrgOf[a]) IN
  /\ pc[a] = "new"
  /\ Allowed(spent, Amount[a])
  /\ total' = [total EXCEPT ![a] = spent]
  /\ pc' = [pc EXCEPT ![a] = "commit"]
  /\ together' = together \cup {{a, b} : b \in InFlight \cap Additions}
  /\ UNCHANGED <<expenses, target>>

\* The row and its audit entry, which tells the projected total.
AddCommit(a) ==
  /\ a \in Additions
  /\ pc[a] = "commit"
  /\ expenses' = expenses \cup {a}
  /\ pc' = [pc EXCEPT ![a] = "done"]
  /\ UNCHANGED <<total, target, together>>

\* Only an expense of one's own organization is found.
DeleteRead(d, a) ==
  /\ pc[d] = "new"
  /\ a \in expenses /\ OrgOf[a] = OrgOf[d]
  /\ target' = [target EXCEPT ![d] = a]
  /\ pc' = [pc EXCEPT ![d] = "commit"]
  /\ UNCHANGED <<expenses, total, together>>

\* The deletion of a row that is gone deletes nothing.
DeleteCommit(d) ==
  /\ d \in Deletions
  /\ pc[d] = "commit"
  /\ expenses' = expenses \ {target[d]}
  /\ pc' = [pc EXCEPT ![d] = "done"]
  /\ UNCHANGED <<total, target, together>>

\* A request breaks off, or the id of its row, the millisecond, is taken.
Fail(r) ==
  /\ r \in InFlight
  /\ pc' = [pc EXCEPT ![r] = "failed"]
  /\ UNCHANGED <<expenses, total, target, together>>

Next ==
  \/ \E a \in Additions : AddRead(a) \/ AddCommit(a)
  \/ \E d \in Deletions : (\E a \in Additions : DeleteRead(d, a)) \/ DeleteCommit(d)
  \/ \E r \in Requests : Fail(r)
  \/ InFlight = {} /\ UNCHANGED vars

Spec == Init /\ [][Next]_vars

-----------------------------------------------------------------------------
(***************************************************************************)
(* Properties.                                                             *)
(***************************************************************************)
\* Every variable has its type.
TypeOK ==
  /\ expenses \subseteq Additions
  /\ pc \in [Requests -> {"new", "commit", "done", "failed"}]
  /\ total \in [Additions -> Nat]
  /\ target \in [Deletions -> Additions \cup {None}]
  /\ together \subseteq SUBSET Additions

\* The expenses of an organization that were not added together with one
\* another stay within the ceiling: it is exceeded only by additions that
\* overlapped, each having read a total without the others.
CeilingHeld ==
  \A org \in Orgs : \A es \in SUBSET {a \in expenses : OrgOf[a] = org} :
    (\A a, b \in es : a # b => {a, b} \notin together) => Spent(es) <= Limit
=============================================================================
