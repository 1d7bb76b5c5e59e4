------------------------------ MODULE FieldData ------------------------------
(***************************************************************************)
(* What volunteers collect in the field: the submission of a citizen's     *)
(* data with its scan for duplicates and the collection counters of the    *)
(* volunteer's profile (services/data_collection_service.py), the review   *)
(* of submissions one by one and in bulk, and the resolution of suspected  *)
(* duplicates (services/duplicate_detection_service.py).                   *)
(*                                                                         *)
(* A request is one READ COMMITTED transaction: each query sees what is    *)
(* committed by then, no row is locked before the flush that precedes the  *)
(* commit, and that flush writes only the columns whose value differs from *)
(* the one that was loaded.                                                *)
(***************************************************************************)
EXTENDS Naturals, FiniteSets, Sequences

CONSTANTS
  Submits,     \* requests to POST /data/submit; each names the row it creates
  Reviews,     \* requests to POST /data/submissions/{id}/review
  Bulks,       \* requests to POST /data/submissions/bulk-review
  Resolves,    \* requests to POST /data/duplicates/resolve
  Users,       \* those who submit
  Volunteers,  \* the users with a row of volunteer_profiles
  OrgOf,       \* the organization of a user, None for one who has none
  Signals,     \* DuplicateSignal, in the order in which the scan tries them
  Facts,       \* what a submission may say: the organization that it is for, and
               \* for each signal a value or None
  Slots,       \* bound: requests that are served at a time
  None         \* a missing value, row or request

Requests  == Submits \cup Reviews \cup Bulks \cup Resolves
Decisions == Reviews \cup Bulks \cup Resolves

Kinds == <<Submits, Reviews, Bulks, Resolves>>

Signal == {Signals[i] : i \in 1..Len(Signals)}

Resolution == {"POSSIBLE_DUPLICATE", "MERGED", "KEPT_SEPARATE", "REJECTED"}

Match == [a : Submits, signal : Signal, resolution : Resolution]

ASSUME FieldAssumption ==
  /\ \A i, j \in DOMAIN Kinds : i # j => Kinds[i] \cap Kinds[j] = {}
  /\ Volunteers \subseteq Users /\ DOMAIN OrgOf = Users
  /\ Signals \in Seq(STRING) /\ Len(Signals) <= 4
  /\ \A f \in Facts : DOMAIN f = Signal \cup {"organization"}
  /\ Slots \in Nat
  /\ None \notin Requests \cup Users \cup Match

VARIABLES
  status,      \* data_submissions.status, "NONE" before the commit
  flagged,     \* data_submissions.is_flagged_duplicate
  facts,       \* what the submission says
  by,          \* data_submissions.volunteer_id
  duplicate,   \* the row of data_duplicates whose record_b is the submission
  profile,     \* the counters of volunteer_profiles
  reviews,     \* rows of data_reviews
  pc,          \* the request's next statement
  order,       \* what a review or a resolution asks for
  seen,        \* the status of the submissions that the request has loaded
  found,       \* the match that a scan has found
  counted,     \* the profile that the request has loaded
  decided,     \* history: the decisions committed on a submission
  overlapped   \* history: pairs of submissions, and pairs of decisions, that were
               \* in flight together

rows    == <<status, flagged, facts, by, duplicate>>
locals  == <<order, seen, found, counted>>
history == <<decided, overlapped>>
vars    == <<rows, profile, reviews, pc, locals, history>>

Status == {"SUBMITTED", "UNDER_REVIEW", "APPROVED", "REJECTED", "DUPLICATE"}

\* daily_, weekly_ and monthly_collection change only with total_submissions,
\* by the same amount.
Counters == [total : Nat, duplicates : Nat, approved : Nat, rejected : Nat]

Review == [of : Submits, by : Reviews \cup Bulks, previous : Status, new : Status]

Order == [subs : SUBSET Submits, action : Status \cup Resolution, primary : Submits \cup {None}]

NoOrder == [subs |-> {}, action |-> "SUBMITTED", primary |-> None]

Zero == [total |-> 0, duplicates |-> 0, approved |-> 0, rejected |-> 0]

Unseen == [s \in Submits |-> "NONE"]

Rows == {s \in Submits : status[s] # "NONE"}

Step == {"new", "scan 1", "scan 2", "scan 3", "scan 4", "record a", "record b", "profile",
         "commit", "done"}

InFlight == {r \in Requests : pc[r] \notin {"new", "done"}}

Goto(r, step) == pc' = [pc EXCEPT ![r] = step]

\* A request comes in.
Begin(r, step) ==
  /\ pc[r] = "new"
  /\ Cardinality(InFlight) < Slots
  /\ Goto(r, step)
  /\ overlapped' = overlapped \cup
                     {{r, q} : q \in {p \in InFlight : p \in Submits <=> r \in Submits}}

\* A request ends and forgets what it has loaded.
End(r, step) ==
  /\ Goto(r, step)
  /\ order' = [order EXCEPT ![r] = NoOrder]
  /\ seen' = [seen EXCEPT ![r] = Unseen]
  /\ found' = [found EXCEPT ![r] = None]
  /\ counted' = [counted EXCEPT ![r] = Zero]

Init ==
  /\ status = [s \in Submits |-> "NONE"]
  /\ flagged = [s \in Submits |-> FALSE]
  /\ facts = [s \in Submits |-> None]
  /\ by = [s \in Submits |-> None]
  /\ duplicate = [s \in Submits |-> None]
  /\ profile = [v \in Volunteers |-> Zero]
  /\ reviews = {}
  /\ pc = [r \in Requests |-> "new"]
  /\ order = [r \in Requests |-> NoOrder]
  /\ seen = [r \in Requests |-> Unseen]
  /\ found = [r \in Requests |-> None]
  /\ counted = [r \in Requests |-> Zero]
  /\ decided = [s \in Submits |-> {}]
  /\ overlapped = {}

(***************************************************************************)
(* submit_field_data.                                                      *)
(***************************************************************************)
\* The row is inserted and not committed.  A user's submissions go to the
\* organization that is his; those of a user who has none go to that of the
\* election he names, or else to the first there is.
Submit(s, u, f) ==
  /\ Begin(s, "scan 1")
  /\ OrgOf[u] \in {f.organization, None}
  /\ facts' = [facts EXCEPT ![s] = f]
  /\ by' = [by EXCEPT ![s] = u]
  /\ UNCHANGED <<status, flagged, duplicate, profile, reviews, locals, decided>>

ScanStep == <<"scan 1", "scan 2", "scan 3", "scan 4">>

\* Mutant of SameSignal: only what is new is compared.
SameSignalOpen(s, signal) ==
  {t \in Rows \ {s} : /\ status[t] \in {"SUBMITTED", "UNDER_REVIEW"}
                      /\ facts[t].organization = facts[s].organization
                      /\ facts[s][signal] # None
                      /\ facts[t][signal] = facts[s][signal]}

\* The submissions of the organization that say the same as s of one signal.
\* Case and the wildcards of ilike are left out: a fact is what is compared.
SameSignal(s, signal) ==
  {t \in Rows \ {s} : /\ facts[t].organization = facts[s].organization
                      /\ facts[s][signal] # None
                      /\ facts[t][signal] = facts[s][signal]}

\* scan_and_flag_duplicates: a query for each signal until one finds a
\* submission, whichever of them is the first row of the answer.
Scan(s, i) ==
  LET same == SameSignal(s, Signals[i]) IN
  /\ pc[s] = ScanStep[i]
  /\ \/ \E t \in same :
          /\ found' = [found EXCEPT ![s] =
                         [a |-> t, signal |-> Signals[i], resolution |-> "POSSIBLE_DUPLICATE"]]
          /\ Goto(s, "profile")
     \/ /\ same = {}
        /\ Goto(s, IF i < Len(Signals) THEN ScanStep[i + 1] ELSE "profile")
        /\ UNCHANGED found
  /\ UNCHANGED <<rows, profile, reviews, order, seen, counted, history>>

\* A submission and a review load the profile of the submitter, if he has one.
LoadProfile(r, u) ==
  /\ pc[r] = "profile"
  /\ Goto(r, "commit")
  /\ counted' = IF u \in Volunteers THEN [counted EXCEPT ![r] = profile[u]] ELSE counted
  /\ UNCHANGED <<rows, profile, reviews, order, seen, found, history>>

SubmitProfile(s) == LoadProfile(s, by[s])

\* The counters c with one more submission than s has loaded.
Collected(c, s, suspect) ==
  [c EXCEPT !.total = counted[s].total + 1,
            !.duplicates = IF suspect THEN counted[s].duplicates + 1 ELSE @]

SubmitCommit(s) ==
  LET suspect == found[s] # None IN
  /\ pc[s] = "commit"
  /\ status' = [status EXCEPT ![s] = IF suspect THEN "DUPLICATE" ELSE "SUBMITTED"]
  /\ flagged' = [flagged EXCEPT ![s] = suspect]
  /\ duplicate' = [duplicate EXCEPT ![s] = found[s]]
  /\ profile' = [v \in Volunteers |->
                   IF v = by[s] THEN Collected(profile[v], s, suspect) ELSE profile[v]]
  /\ End(s, "done")
  /\ UNCHANGED <<facts, by, reviews, history>>

(***************************************************************************)
(* review_submission and bulk_review_submissions.  A review has no regard  *)
(* to the status it finds; only the review of one submission counts in the *)
(* profile of the volunteer.                                               *)
(***************************************************************************)
\* What the flush of r makes of a status that r sets.
Written(r, s, new) == IF new = seen[r][s] THEN status[s] ELSE new

\* Anything but an approval rejects.
Verdict(action) == IF action = "APPROVE" THEN "APPROVED" ELSE "REJECTED"

LoadSubmissions(r, subs, action, step) ==
  /\ Begin(r, step)
  /\ subs \subseteq Rows
  /\ order' = [order EXCEPT ![r] = [subs |-> subs, action |-> Verdict(action), primary |-> None]]
  /\ seen' = [seen EXCEPT ![r] = [s \in Submits |-> IF s \in subs THEN status[s] ELSE "NONE"]]
  /\ UNCHANGED <<rows, profile, reviews, found, counted, decided>>

ReviewRead(r, s, action) == LoadSubmissions(r, {s}, action, "profile")

ReviewProfile(r) == \E s \in order[r].subs : LoadProfile(r, by[s])

\* Mutant of Decide: the log is written after the status.
DecideThenLog(r) ==
  LET subs == order[r].subs  new == order[r].action IN
  /\ status' = [s \in Submits |-> IF s \in subs THEN Written(r, s, new) ELSE status[s]]
  /\ reviews' = reviews \cup {[of |-> s, by |-> r, previous |-> new, new |-> new] : s \in subs}
  /\ decided' = [s \in Submits |-> IF s \in subs THEN decided[s] \cup {r} ELSE decided[s]]

\* The statuses and the log of a decision on what r has loaded.
Decide(r) ==
  LET subs == order[r].subs  new == order[r].action IN
  /\ status' = [s \in Submits |-> IF s \in subs THEN Written(r, s, new) ELSE status[s]]
  /\ reviews' = reviews \cup {[of |-> s, by |-> r, previous |-> seen[r][s], new |-> new] : s \in subs}
  /\ decided' = [s \in Submits |-> IF s \in subs THEN decided[s] \cup {r} ELSE decided[s]]

\* Mutant of Credited: a rejection is not counted.
CreditedApproval(c, r, new) ==
  IF new = "APPROVED" THEN [c EXCEPT !.approved = counted[r].approved + 1] ELSE c

\* The counters c with one verdict more than r has loaded.
Credited(c, r, new) ==
  IF new = "APPROVED" THEN [c EXCEPT !.approved = counted[r].approved + 1]
                      ELSE [c EXCEPT !.rejected = counted[r].rejected + 1]

ReviewCommit(r) ==
  /\ pc[r] = "commit"
  /\ Decide(r)
  /\ profile' = [v \in Volunteers |->
                   IF \E s \in order[r].subs : by[s] = v
                     THEN Credited(profile[v], r, order[r].action) ELSE profile[v]]
  /\ End(r, "done")
  /\ UNCHANGED <<flagged, facts, by, duplicate, overlapped>>

\* Of what a bulk review names it loads what is of the reviewer's organization;
\* of a reviewer who has none, all.
BulkRead(r, subs, action) == LoadSubmissions(r, subs, action, "commit")

BulkCommit(r) ==
  /\ pc[r] = "commit"
  /\ Decide(r)
  /\ End(r, "done")
  /\ UNCHANGED <<flagged, facts, by, duplicate, profile, overlapped>>

(***************************************************************************)
(* resolve_duplicate: the row of the pair and each of its two submissions  *)
(* are loaded by a query of their own.                                     *)
(***************************************************************************)
ResolveRead(d, b, action, primary) ==
  /\ Begin(d, "record a")
  /\ b \in Rows /\ duplicate[b] # None
  /\ order' = [order EXCEPT ![d] = [subs |-> {b}, action |-> action,
                                    primary |-> IF action = "MERGED" THEN primary ELSE None]]
  /\ found' = [found EXCEPT ![d] = duplicate[b]]
  /\ UNCHANGED <<rows, profile, reviews, seen, counted, decided>>

LoadRecord(d, s, here, next) ==
  /\ pc[d] = here
  /\ Goto(d, next)
  /\ seen' = [seen EXCEPT ![d][s] = status[s]]
  /\ UNCHANGED <<rows, profile, reviews, order, found, counted, history>>

ResolveReadA(d) == LoadRecord(d, found[d].a, "record a", "record b")

ResolveReadB(d) == \E b \in order[d].subs : LoadRecord(d, b, "record b", "commit")

\* Mutant of Resolved: a merge rejects the other submission and no more.
ResolvedHalf(d, a, b) ==
  LET o == order[d] IN
  CASE o.action = "MERGED" -> [s \in {IF o.primary = a THEN b ELSE a} |-> "REJECTED"]
    [] o.action = "REJECTED" -> [s \in {b} |-> "REJECTED"]
    [] OTHER -> [s \in {x \in {b} : seen[d][x] = "DUPLICATE"} |-> "UNDER_REVIEW"]

\* The statuses that a resolution of the pair a, b sets.
Resolved(d, a, b) ==
  LET o == order[d] IN
  CASE o.action = "MERGED" ->
         LET kept == IF o.primary = a THEN a ELSE b
         IN  [s \in {a, b} |-> IF s = kept THEN "APPROVED" ELSE "REJECTED"]
    [] o.action = "KEPT_SEPARATE" ->
         [s \in {x \in {b} : seen[d][x] = "DUPLICATE"} |-> "UNDER_REVIEW"]
    [] o.action = "REJECTED" -> [s \in {b} |-> "REJECTED"]
    [] OTHER -> [s \in {} |-> "NONE"]

ResolveCommit(d) ==
  \E b \in order[d].subs :
    LET set == Resolved(d, found[d].a, b)
        o == order[d]
    IN
    /\ pc[d] = "commit"
    /\ status' = [s \in Submits |-> IF s \in DOMAIN set THEN Written(d, s, set[s]) ELSE status[s]]
    /\ flagged' = [flagged EXCEPT ![b] =
                     @ /\ ~(o.action = "KEPT_SEPARATE" /\ b \in DOMAIN set)]
    /\ duplicate' = [duplicate EXCEPT ![b].resolution =
                       IF o.action = found[d].resolution THEN @ ELSE o.action]
    /\ decided' = [s \in Submits |-> IF s \in DOMAIN set THEN decided[s] \cup {d} ELSE decided[s]]
    /\ End(d, "done")
    /\ UNCHANGED <<facts, by, profile, reviews, overlapped>>

(***************************************************************************)
(* A request may fail anywhere before its commit.  It leaves nothing and   *)
(* may come again.                                                         *)
(***************************************************************************)
Abort(r) ==
  /\ r \in InFlight
  /\ End(r, "new")
  /\ overlapped' = {p \in overlapped : r \notin p}
  /\ facts' = [s \in Submits |-> IF s = r THEN None ELSE facts[s]]
  /\ by' = [s \in Submits |-> IF s = r THEN None ELSE by[s]]
  /\ UNCHANGED <<status, flagged, duplicate, profile, reviews, decided>>

ReviewAction == {"APPROVE", "REJECT", "MERGE", "FLAG_DUPLICATE", "EDIT"}

Arrive ==
  \/ \E s \in Submits, u \in Users, f \in Facts : Submit(s, u, f)
  \/ \E r \in Reviews, s \in Rows, action \in ReviewAction : ReviewRead(r, s, action)
  \/ \E r \in Bulks, subs \in SUBSET Rows \ {{}}, action \in ReviewAction : BulkRead(r, subs, action)
  \/ \E d \in Resolves, b \in Rows, action \in Resolution, p \in Rows :
       ResolveRead(d, b, action, p)

Serve ==
  \/ \E s \in Submits :
       (\E i \in 1..Len(Signals) : Scan(s, i)) \/ SubmitProfile(s) \/ SubmitCommit(s)
  \/ \E r \in Reviews : ReviewProfile(r) \/ ReviewCommit(r)
  \/ \E r \in Bulks : BulkCommit(r)
  \/ \E d \in Resolves : ResolveReadA(d) \/ ResolveReadB(d) \/ ResolveCommit(d)

Idle == InFlight = {} /\ UNCHANGED vars

Next == Arrive \/ Serve \/ (\E r \in Requests : Abort(r)) \/ Idle

Spec == Init /\ [][Next]_vars

-----------------------------------------------------------------------------
(***************************************************************************)
(* Properties.                                                             *)
(***************************************************************************)
\* Every variable has its type.
TypeOK ==
  /\ status \in [Submits -> Status \cup {"NONE"}]
  /\ flagged \in [Submits -> BOOLEAN]
  /\ facts \in [Submits -> Facts \cup {None}]
  /\ by \in [Submits -> Users \cup {None}]
  /\ duplicate \in [Submits -> Match \cup {None}]
  /\ profile \in [Volunteers -> Counters]
  /\ reviews \subseteq Review
  /\ pc \in [Requests -> Step]
  /\ order \in [Requests -> Order]
  /\ seen \in [Requests -> [Submits -> Status \cup {"NONE"}]]
  /\ found \in [Requests -> Match \cup {None}]
  /\ counted \in [Requests -> Counters]
  /\ decided \in [Submits -> SUBSET Decisions]
  /\ overlapped \subseteq SUBSET Requests

\* A pair that was resolved has left the queue of duplicates, however reviews
\* and resolutions of it overlap.
ResolvedLeavesQueue ==
  \A s \in Rows :
    duplicate[s] # None /\ status[s] = "DUPLICATE" => duplicate[s].resolution = "POSSIBLE_DUPLICATE"

\* The tables are well formed and the queue of duplicates holds open ones only.
Consistent == TypeOK /\ ResolvedLeavesQueue

CollectedBy(v) == {s \in Rows : by[s] = v}

\* The counter of a volunteer's submissions never runs ahead of them, and it
\* falls behind by no more than those submitted while another submission of
\* his was being served: such a submission writes one more than it has loaded.
CollectionCounted ==
  \A v \in Volunteers :
    LET all  == CollectedBy(v)
        solo == {s \in all : \A t \in all \ {s} : {s, t} \notin overlapped}
    IN  profile[v].total \in Cardinality(solo)..Cardinality(all)

\* A volunteer's approvals and rejections are those of his submissions, as long
\* as each was decided once, by a review of its own, and no two of these
\* reviews were served together.
CreditsMatchStatus ==
  \A v \in Volunteers :
    LET mine == CollectedBy(v)
        with(x) == Cardinality({s \in mine : status[s] = x})
    IN  /\ \A s \in mine : decided[s] \subseteq Reviews /\ Cardinality(decided[s]) <= 1
        /\ \A s, t \in mine : \A q \in decided[s], r \in decided[t] : {q, r} \notin overlapped
        => /\ profile[v].approved = with("APPROVED")
           /\ profile[v].rejected = with("REJECTED")

\* The counters of a volunteer agree with the rows they count, but for what
\* requests that were served together did to them.
CountersAgree == CollectionCounted /\ CreditsMatchStatus

\* Two submissions to one organization that agree in a signal are not both free
\* of suspicion, unless they were served together: neither scan saw the other's
\* row.
DuplicatesSuspected ==
  \A s, t \in Rows :
    /\ s # t /\ facts[s].organization = facts[t].organization
    /\ \E x \in Signal : facts[s][x] # None /\ facts[s][x] = facts[t][x]
    => duplicate[s] # None \/ duplicate[t] # None \/ {s, t} \in overlapped

\* A decision on s that was served together with r is committed.
Overtaken(r, s) == \E q \in decided[s] : {q, r} \in overlapped

\* A merge leaves one of the pair approved and the other rejected, unless it
\* was overtaken by a decision on one of them: a status that the merge found
\* as it wants it is not written.
MergeLeavesOneApproved ==
  [][\A d \in Resolves, b \in Submits :
       /\ pc[d] = "commit" /\ pc'[d] = "done"
       /\ order[d].action = "MERGED" /\ b \in order[d].subs
       => LET a == found[d].a
          IN  {status'[a], status'[b]} = {"APPROVED", "REJECTED"} \/ Overtaken(d, a) \/ Overtaken(d, b)]_vars

\* The log of a review tells the status that it replaces, unless the review was
\* overtaken by another decision.
ReviewsTellPrevious ==
  [][\A x \in reviews' \ reviews : x.previous = status[x.of] \/ Overtaken(x.by, x.of)]_vars
=============================================================================
