------------------------------- MODULE Office -------------------------------
(***************************************************************************)
(* The back office of a campaign: its desk, its expenses, its messages to  *)
(* voters, the routes and guards of all of them and the limit on requests. *)
(*                                                                         *)
(* These parts write no row of one another and every step is a step of one *)
(* of them, so what a part does is the same whatever the others do: a      *)
(* behaviour here is one of the part that it is about, the others wait.    *)
(***************************************************************************)
EXTENDS Access

CONSTANTS
  \* Desk
  DeskRequests, Numbers, UserOrg, Quotas,
  \* Budget
  Additions, Deletions, BudgetOrgs, BudgetOrg, Amount, Ceiling,
  \* Outreach
  Creates, Drafts, Sends, Blasts, Campaigns, Orgs, Voters, OrgOf, Mobile, Phones,
  Channels, Mocked, Texts, Leavers, Requested, Slots,
  \* RateLimiter
  Workers, Redis, Calls, Limit, Window, MaxTime

VARIABLES
  about,       \* the part that moves
  kind, row, targets, shares, notes, deskPc, deskOrder, loaded, asked, direct, deskOverlapped,
  expenses, budgetPc, total, target, together,
  roll, group, logs, campaign, pc, order, seen, todo, answers, inbox, overlapped,
  now, window, callPc, by, at, accepted, late

desk == <<kind, row, targets, shares, notes, deskPc, deskOrder, loaded, asked, direct, deskOverlapped>>
budget == <<expenses, budgetPc, total, target, together>>
outreach == <<roll, group, logs, campaign, pc, order, seen, todo, answers, inbox, overlapped>>
limiter == <<now, window, callPc, by, at, accepted, late>>
access == vars
all == <<about, desk, budget, outreach, limiter, access>>

Desk == INSTANCE Desk WITH Requests <- DeskRequests, Users <- People, Role <- RoleOf, OrgOf <- UserOrg, pc <- deskPc, order <- deskOrder, overlapped <- deskOverlapped

Budget == INSTANCE Budget WITH Orgs <- BudgetOrgs, OrgOf <- BudgetOrg, Limit <- Ceiling, pc <- budgetPc

Outreach == INSTANCE Outreach

RateLimiter == INSTANCE RateLimiter WITH pc <- callPc

ASSUME OfficeAssumption ==
  /\ Desk!DeskAssumption
  /\ Budget!BudgetAssumption
  /\ Outreach!OutreachAssumption
  /\ RateLimiter!RateLimiterAssumption
  /\ AccessAssumption

Parts == {"desk", "budget", "outreach", "limit", "access"}

\* The kind of rows at the desk matters to the desk alone.
OfficeInit ==
  /\ about \in Parts
  /\ Desk!Init /\ (about # "desk" => kind = "task")
  /\ Budget!Init /\ Outreach!Init /\ RateLimiter!Init /\ Init

DeskSteps ==
  /\ about = "desk" /\ Desk!Next
  /\ UNCHANGED <<about, budget, outreach, limiter, access>>

BudgetSteps ==
  /\ about = "budget" /\ Budget!Next
  /\ UNCHANGED <<about, desk, outreach, limiter, access>>

OutreachSteps ==
  /\ about = "outreach" /\ Outreach!Next
  /\ UNCHANGED <<about, desk, budget, limiter, access>>

RateLimiterSteps ==
  /\ about = "limit" /\ RateLimiter!Next
  /\ UNCHANGED <<about, desk, budget, outreach, access>>

AccessSteps ==
  /\ about = "access" /\ Next
  /\ UNCHANGED <<about, desk, budget, outreach, limiter>>

OfficeNext == DeskSteps \/ BudgetSteps \/ OutreachSteps \/ RateLimiterSteps \/ AccessSteps

OfficeSpec == OfficeInit /\ [][OfficeNext]_all

-----------------------------------------------------------------------------
(***************************************************************************)
(* Properties of the parts, each stated and explained in its module.       *)
(***************************************************************************)
\* What the desk keeps is in order, whichever requests overlap.
DeskInOrder == Desk!DeskInOrder

\* Every change of a complaint and of a task is one that its handler may make.
EditsInOrder == [][Desk!EditInOrder]_desk

\* The ceiling on expenses is exceeded only by additions that overlapped.
CeilingHeld == Budget!TypeOK /\ Budget!CeilingHeld

\* No store lets more calls pass in a window than the limit.
WithinLimit == RateLimiter!TypeOK /\ RateLimiter!WithinLimit

\* The logs tell what was sent, but for mocked adapters and numbers that nobody
\* has, and the members of a group are written to once, unless its requests
\* overlapped or one of them failed.
MessagesInOrder == Outreach!TypeOK /\ Outreach!LogsTellTheTruth /\ Outreach!OncePerMember

\* What was sent stays as it was sent.
SentStands == [][Outreach!SentChange]_outreach
=============================================================================
