------------------------------- MODULE Desk --------------------------------
(***************************************************************************)
(* The desk work of a campaign: tasks (endpoints/tasks.py), the targets of *)
(* volunteers (services/volunteer_service.py), complaints                  *)
(* (services/complaint_service.py), field activities                       *)
(* (endpoints/activities.py) and shared posters                            *)
(* (endpoints/design_templates.py).                                        *)
(*                                                                         *)
(* They share no rows and all work alike: a request loads a row, decides   *)
(* by it, and at the flush writes the columns that differ from what it has *)
(* loaded.  Nothing is locked before the flush.  A behaviour is the work   *)
(* on one kind of rows.                                                    *)
(***************************************************************************)
EXTENDS Naturals, FiniteSets, Sequences, SequencesExt

CONSTANTS
  Requests,    \* a request that creates a row names it, for the id is a UUID
  Numbers,     \* the numbers of complaints, GR-100 to GR-999
  Users,
  Role,        \* the role of a user
  OrgOf,       \* the organization of a user
  Quotas,      \* values of a target
  None

Kinds == {"task", "profile", "complaint", "activity", "poster"}

VARIABLES
  kind,        \* the kind of rows that is worked on
  row,         \* the rows that are committed
  targets,     \* rows of volunteer_targets of a profile, in the order of their commits
  shares,      \* rows of poster_shares
  notes,       \* rows of app_notifications
  pc,          \* the request's next statement
  order,       \* who asks, for which row, and the columns it shall have
  loaded,      \* the row as the request has loaded it
  asked,       \* history: the status that a committed review has set
  direct,      \* history: profiles whose targets an update has written
  overlapped   \* history: pairs of requests that were in flight together

tables == <<row, targets, shares, notes>>
locals == <<order, loaded>>
history == <<asked, direct, overlapped>>
vars == <<kind, tables, pc, locals, history>>

Ids == Requests \cup Numbers

TaskStatus      == {"PENDING", "IN_PROGRESS", "COMPLETED"}
ComplaintStatus == {"Open", "Resolved"}
ActivityStatus  == {"SUBMITTED", "VERIFIED", "FLAGGED"}

\* The columns that the work depends on.  text stands for all that is only
\* kept, and tells the request that has written it.
Task      == [org : Range(OrgOf), status : TaskStatus, dated : BOOLEAN, assignee : Users]
Profile   == [daily : Quotas, monthly : Quotas]
Complaint == [org : Range(OrgOf), author : Users, status : ComplaintStatus, text : Requests, born : Requests]
Activity  == [org : Range(OrgOf), by : Users, role : {"SUPER_ADMIN", "ADMIN", "VOLUNTEER"},
              status : ActivityStatus, reviewer : Requests \cup {None}]
Poster    == [org : Range(OrgOf), owner : Users]

RowOf(k) == CASE k = "task" -> Task [] k = "profile" -> Profile [] k = "complaint" -> Complaint
              [] k = "activity" -> Activity [] k = "poster" -> Poster

\* What the constants are.
DeskAssumption ==
  /\ Requests \cap Numbers = {}
  /\ Role \in [Users -> {"SUPER_ADMIN", "ADMIN", "VOLUNTEER"}]
  /\ DOMAIN OrgOf = Users
  /\ None \notin Requests \cup Numbers \cup Users
  /\ \A k \in Kinds : None \notin RowOf(k)

NoOrder == [op |-> "none", user |-> None, id |-> None, new |-> None, to |-> {}]

Init ==
  /\ kind \in Kinds
  /\ row = [i \in Ids |-> None]
  /\ targets = [i \in Ids |-> <<>>]
  /\ shares = {} /\ notes = {}
  /\ pc = [r \in Requests |-> "new"]
  /\ order = [r \in Requests |-> NoOrder]
  /\ loaded = [r \in Requests |-> None]
  /\ asked = [r \in Requests |-> None]
  /\ direct = {} /\ overlapped = {}

InFlight == {r \in Requests : pc[r] \in {"commit", "shares"}}

Rows == {i \in Ids : row[i] # None}

IsSuper(u) == Role[u] = "SUPER_ADMIN"

\* Administrators, and the super admin, who may look at every organization.
MayManage(u, org) == IsSuper(u) \/ (Role[u] = "ADMIN" /\ OrgOf[u] = org)

\* A row is inserted and committed by the request r.
Insert(r, i, new) ==
  /\ pc[r] = "new"
  /\ row[i] = None
  /\ row' = [row EXCEPT ![i] = new]
  /\ pc' = [pc EXCEPT ![r] = "done"]
  /\ UNCHANGED <<kind, shares, locals, history>>

\* The user's request r has loaded the row i, to give it the columns new.
Load(r, op, u, i, new, to) ==
  /\ pc[r] = "new"
  /\ order' = [order EXCEPT ![r] = [op |-> op, user |-> u, id |-> i, new |-> new, to |-> to]]
  /\ loaded' = [loaded EXCEPT ![r] = row[i]]
  /\ overlapped' = overlapped \cup {{r, q} : q \in InFlight}
  /\ pc' = [pc EXCEPT ![r] = IF op = "discard" THEN "shares" ELSE "commit"]
  /\ UNCHANGED <<kind, tables, asked, direct>>

\* A request ends and forgets what it has loaded.
End(r, step) ==
  /\ pc' = [pc EXCEPT ![r] = step]
  /\ order' = [order EXCEPT ![r] = NoOrder]
  /\ loaded' = [loaded EXCEPT ![r] = None]

\* What becomes of the row x when r gives it other columns.
Flushed(r, x) ==
  [c \in DOMAIN x |-> IF order[r].new[c] = loaded[r][c] THEN x[c] ELSE order[r].new[c]]

\* r writes its columns.  An UPDATE that finds no row fails; one is not sent
\* when no column differs.
Write(r) ==
  LET i == order[r].id IN
  /\ row[i] # None \/ order[r].new = loaded[r]
  /\ row' = IF row[i] = None THEN row ELSE [row EXCEPT ![i] = Flushed(r, row[i])]

(***************************************************************************)
(* Tasks.                                                                  *)
(***************************************************************************)
\* Only volunteers get tasks from an administrator; the super admin gives them
\* to administrators too.  The assignee may belong to another organization.
MayAssign(u, a) == ~IsSuper(a) /\ (Role[u] = "ADMIN" => Role[a] = "VOLUNTEER")

\* A task may be created in any status.  Its assignee is told.
CreateTask(r, u, a, status) ==
  /\ Role[u] # "VOLUNTEER" /\ MayAssign(u, a)
  /\ Insert(r, r, [org |-> OrgOf[u], status |-> status, dated |-> FALSE, assignee |-> a])
  /\ notes' = notes \cup {[to |-> a, of |-> r, by |-> r]}
  /\ UNCHANGED targets

\* The row t with another status.
TaskStatusSet(t, status) ==
  [t EXCEPT !.status = status, !.dated = @ \/ status = "COMPLETED"]

\* Columns that are not given stay; a reassignment tells nobody.
UpdateTask(r, u, t, status, a) ==
  /\ MayManage(u, row[t].org)
  /\ a = row[t].assignee \/ MayAssign(u, a)
  /\ Load(r, "edit", u, t, [TaskStatusSet(row[t], status) EXCEPT !.assignee = a], {})

UpdateTaskStatus(r, u, t, status) ==
  /\ MayManage(u, row[t].org) \/ (row[t].assignee = u /\ row[t].org = OrgOf[u])
  /\ Load(r, "edit", u, t, TaskStatusSet(row[t], status), {})

DeleteTask(r, u, t) ==
  /\ MayManage(u, row[t].org)
  /\ Load(r, "delete", u, t, None, {})

(***************************************************************************)
(* Volunteers.                                                             *)
(***************************************************************************)
\* The profile comes with its first target.
CreateVolunteer(r, q) ==
  /\ Insert(r, r, q)
  /\ targets' = [targets EXCEPT ![r] = <<[by |-> r, set |-> q]>>]
  /\ UNCHANGED notes

\* An update may write the targets of the profile, without a row of targets.
UpdateVolunteer(r, p, q) == Load(r, "update", None, p, q, {})

SetVolunteerTarget(r, p, q) == Load(r, "target", None, p, q, {})

(***************************************************************************)
(* Complaints.                                                             *)
(***************************************************************************)
\* The number is drawn at random; one that is taken fails.
AddComplaint(r, u, n) ==
  /\ ~IsSuper(u)
  /\ Insert(r, n, [org |-> OrgOf[u], author |-> u, status |-> "Open", text |-> r, born |-> r])
  /\ UNCHANGED <<targets, notes>>

\* Mutant of MayEdit: whoever finds a complaint edits it.
MayEditAny(u, n) == ~IsSuper(u) /\ row[n].org = OrgOf[u]

\* The endpoint finds the complaint in the user's organization and looks at its author.
MayEdit(u, n) == ~IsSuper(u) /\ row[n].org = OrgOf[u] /\ row[n].author = u

UpdateComplaint(r, u, n) ==
  /\ MayEdit(u, n)
  /\ Load(r, "edit", u, n, [row[n] EXCEPT !.text = r], {})

DeleteComplaint(r, u, n) ==
  /\ MayEdit(u, n)
  /\ Load(r, "delete", u, n, None, {})

\* The notification goes to the super admin who has changed the status.
UpdateComplaintStatus(r, u, n, status) ==
  /\ IsSuper(u)
  /\ Load(r, "status", u, n, [row[n] EXCEPT !.status = status], {u})

(***************************************************************************)
(* Field activities.  Approval and rejection by their own endpoints read a *)
(* column that the table lacks and fail before the commit.                 *)
(***************************************************************************)
SubmitActivity(r, u) ==
  /\ Insert(r, r, [org |-> OrgOf[u], by |-> u, role |-> Role[u], status |-> "SUBMITTED", reviewer |-> None])
  /\ UNCHANGED <<targets, notes>>

CanReview(u, a) == IsSuper(u) \/ (Role[u] = "ADMIN" /\ row[a].role = "VOLUNTEER")

UpdateActivityStatus(r, u, a, status) ==
  /\ row[a].org = OrgOf[u] /\ CanReview(u, a)
  /\ Load(r, "review", u, a, [row[a] EXCEPT !.status = status, !.reviewer = r], {})

DeleteActivity(r, u, a) ==
  /\ \/ IsSuper(u)
     \/ row[a].org = OrgOf[u] /\ (row[a].by = u \/ CanReview(u, a))
  /\ Load(r, "delete", u, a, None, {})

(***************************************************************************)
(* Posters.                                                                *)
(***************************************************************************)
SaveDesign(r, u) ==
  /\ Insert(r, r, [org |-> OrgOf[u], owner |-> u])
  /\ UNCHANGED <<targets, notes>>

MayHandle(u, p) == row[p].org = OrgOf[u] /\ (IsSuper(u) \/ row[p].owner = u)

SharedWith(p) == {s.with : s \in {x \in shares : x.poster = p}}

\* Mutant of Fresh: the shares that exist are not looked at.
FreshAll(p, to) == to

\* The recipients that have no share of the poster yet.
Fresh(p, to) == to \ SharedWith(p)

\* Every recipient is of the organization or a super admin, and not oneself.
ShareDesign(r, u, p, to) ==
  /\ MayHandle(u, p)
  /\ to # {} /\ u \notin to
  /\ \A v \in to : OrgOf[v] = OrgOf[u] \/ IsSuper(v)
  /\ Load(r, "share", u, p, row[p], Fresh(p, to))

DeleteDesign(r, u, p) ==
  /\ MayHandle(u, p)
  /\ Load(r, "discard", u, p, None, {})

\* The flush of a deletion first takes the poster from its shares, which does
\* not go: the deletion of a poster that is shared fails.
LookForShares(r) ==
  /\ pc[r] = "shares"
  /\ SharedWith(order[r].id) = {}
  /\ pc' = [pc EXCEPT ![r] = "commit"]
  /\ UNCHANGED <<kind, tables, locals, history>>

(***************************************************************************)
(* Commits.                                                                *)
(***************************************************************************)
Commit(r, op) ==
  /\ pc[r] = "commit" /\ order[r].op = op
  /\ End(r, "done")
  /\ UNCHANGED <<kind, overlapped>>

CommitEdit(r) ==
  /\ Commit(r, "edit")
  /\ Write(r)
  /\ UNCHANGED <<targets, shares, notes, asked, direct>>

CommitStatus(r) ==
  /\ Commit(r, "status")
  /\ row[order[r].id] # None
  /\ Write(r)
  /\ notes' = notes \cup {[to |-> u, of |-> order[r].id, by |-> r] : u \in order[r].to}
  /\ UNCHANGED <<targets, shares, asked, direct>>

CommitReview(r) ==
  /\ Commit(r, "review")
  /\ Write(r)
  /\ asked' = [asked EXCEPT ![r] = order[r].new.status]
  /\ UNCHANGED <<targets, shares, notes, direct>>

CommitUpdate(r) ==
  /\ Commit(r, "update")
  /\ Write(r)
  /\ direct' = direct \cup {order[r].id}
  /\ UNCHANGED <<targets, shares, notes, asked>>

CommitTarget(r) ==
  LET p == order[r].id IN
  /\ Commit(r, "target")
  /\ Write(r)
  /\ targets' = [targets EXCEPT ![p] = Append(@, [by |-> r, set |-> order[r].new])]
  /\ direct' = direct \ {p}
  /\ UNCHANGED <<shares, notes, asked>>

\* A deletion that finds no row deletes nothing.
CommitDelete(r) ==
  /\ Commit(r, "delete")
  /\ row' = [row EXCEPT ![order[r].id] = None]
  /\ UNCHANGED <<targets, shares, notes, asked, direct>>

\* A share needs its poster, which its row refers to.
CommitShare(r) ==
  LET p == order[r].id IN
  /\ Commit(r, "share")
  /\ row[p] # None
  /\ shares' = shares \cup {[poster |-> p, with |-> u, by |-> r] : u \in order[r].to}
  /\ notes' = notes \cup {[to |-> u, of |-> p, by |-> r] : u \in order[r].to}
  /\ UNCHANGED <<row, targets, asked, direct>>

\* What refers to the poster goes with it.
CommitDiscard(r) ==
  LET p == order[r].id IN
  /\ Commit(r, "discard")
  /\ row' = [row EXCEPT ![p] = None]
  /\ shares' = {s \in shares : s.poster # p}
  /\ notes' = {n \in notes : n.of # p}
  /\ UNCHANGED <<targets, asked, direct>>

\* A request breaks off or is refused by the database.
Fail(r) ==
  /\ r \in InFlight
  /\ End(r, "failed")
  /\ UNCHANGED <<kind, tables, history>>

WorkOnTasks(r) ==
  /\ kind = "task"
  /\ \E u \in Users :
       \/ \E a \in Users, s \in TaskStatus : CreateTask(r, u, a, s)
       \/ \E t \in Rows :
            \/ \E a \in Users, s \in TaskStatus : UpdateTask(r, u, t, s, a)
            \/ \E s \in TaskStatus : UpdateTaskStatus(r, u, t, s)
            \/ DeleteTask(r, u, t)

WorkOnVolunteers(r) ==
  /\ kind = "profile"
  /\ \E q \in Profile :
       \/ CreateVolunteer(r, q)
       \/ \E p \in Rows : UpdateVolunteer(r, p, q) \/ SetVolunteerTarget(r, p, q)

WorkOnComplaints(r) ==
  /\ kind = "complaint"
  /\ \E u \in Users :
       \/ \E n \in Numbers : AddComplaint(r, u, n)
       \/ \E n \in Rows :
            \/ UpdateComplaint(r, u, n) \/ DeleteComplaint(r, u, n)
            \/ \E s \in ComplaintStatus : UpdateComplaintStatus(r, u, n, s)

WorkOnActivities(r) ==
  /\ kind = "activity"
  /\ \E u \in Users :
       \/ SubmitActivity(r, u)
       \/ \E a \in Rows :
            (\E s \in ActivityStatus : UpdateActivityStatus(r, u, a, s)) \/ DeleteActivity(r, u, a)

WorkOnPosters(r) ==
  /\ kind = "poster"
  /\ \E u \in Users :
       \/ SaveDesign(r, u)
       \/ \E p \in Rows :
            (\E to \in SUBSET Users : ShareDesign(r, u, p, to)) \/ DeleteDesign(r, u, p)

Finish(r) ==
  \/ LookForShares(r) \/ CommitEdit(r) \/ CommitStatus(r) \/ CommitReview(r) \/ CommitUpdate(r)
  \/ CommitTarget(r) \/ CommitDelete(r) \/ CommitShare(r) \/ CommitDiscard(r) \/ Fail(r)

Idle == InFlight = {} /\ UNCHANGED vars

Next ==
  \/ \E r \in Requests :
       \/ WorkOnTasks(r) \/ WorkOnVolunteers(r) \/ WorkOnComplaints(r)
       \/ WorkOnActivities(r) \/ WorkOnPosters(r) \/ Finish(r)
  \/ Idle

Spec == Init /\ [][Next]_vars

-----------------------------------------------------------------------------
(***************************************************************************)
(* Properties.                                                             *)
(***************************************************************************)
\* Every variable has its type, and a row is of the kind that is worked on.
TypeOK ==
  /\ kind \in Kinds
  /\ row \in [Ids -> RowOf(kind) \cup {None}]
  /\ \A i \in Ids : \A j \in 1..Len(targets[i]) : targets[i][j] \in [by : Requests, set : Profile]
  /\ shares \subseteq [poster : Ids, with : Users, by : Requests]
  /\ notes \subseteq [to : Users, of : Ids, by : Requests]
  /\ pc \in [Requests -> {"new", "shares", "commit", "done", "failed"}]
  /\ asked \in [Requests -> ActivityStatus \cup {None}]
  /\ direct \subseteq Ids
  /\ \A o \in overlapped : o \subseteq Requests

\* The targets of a volunteer's profile are those of the last row of targets,
\* unless an update has written them since, or the last row was set while
\* another request wrote them: what the request found as it wants it, it does
\* not write.
TargetsAgree ==
  kind = "profile" =>
    \A p \in Rows \ direct :
      \/ row[p] = Last(targets[p]).set
      \/ \E q \in Requests : {Last(targets[p]).by, q} \in overlapped

\* A poster is shared with a user once, unless it was shared by requests that
\* overlapped.  With a share, and only with it, comes a notification.
SharedOnce ==
  kind = "poster" =>
    /\ \A s, t \in shares :
         s # t /\ s.poster = t.poster /\ s.with = t.with => {s.by, t.by} \in overlapped
    /\ notes = {[to |-> s.with, of |-> s.poster, by |-> s.by] : s \in shares}

\* The reviewer whom a field activity names has given it the status it has,
\* unless his review overlapped with another.
ReviewerAnswers ==
  kind = "activity" =>
    \A a \in Rows :
      LET r == row[a].reviewer IN
      r # None => asked[r] = row[a].status \/ \E q \in Requests : {r, q} \in overlapped

\* What the desk keeps is in order, whichever requests overlap.
DeskInOrder == TypeOK /\ TargetsAgree /\ SharedOnce /\ ReviewerAnswers

\* A complaint is edited and deleted by its author alone, and its status only
\* changed by the super admin, save that a request that has looked at a
\* complaint changes another, which came under the same number when the first
\* was deleted.
ComplaintKept(r, n) ==
  \/ row[n].born # loaded[r].born
  \/ row'[n] # None /\ row'[n].text = row[n].text /\ IsSuper(order[r].user)
  \/ /\ row[n].author = order[r].user
     /\ row'[n] # None => row'[n].status = row[n].status

\* Whatever changes a task that is completed then dates it, however requests
\* overlap: only one that was created so has no date.
TaskDated(t) == row'[t] # None /\ row'[t].status = "COMPLETED" => row'[t].dated

\* Every change of a complaint and of a task is one that its handler may make.
EditInOrder ==
  \A r \in Requests, i \in Ids :
    row[i] # None /\ row'[i] # row[i] /\ pc[r] = "commit" /\ pc'[r] = "done"
    => /\ kind = "complaint" => ComplaintKept(r, i)
       /\ kind = "task" => TaskDated(i)

EditsInOrder == [][EditInOrder]_vars
=============================================================================
