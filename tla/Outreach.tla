------------------------------ MODULE Outreach ------------------------------
(***************************************************************************)
(* Messages to voters: broadcast groups, their drafts and their sending,   *)
(* and broadcasts to an organization's voters                              *)
(* (services/broadcast_service.py), and notification campaigns             *)
(* (services/notification_service.py).                                     *)
(*                                                                         *)
(* The messages of a request leave one by one while its transaction is     *)
(* open; what it logs becomes visible with its commit.  No row is locked   *)
(* while the messages leave, and a flush writes only the columns whose     *)
(* value differs from the one that was loaded.                             *)
(***************************************************************************)
EXTENDS Naturals, FiniteSets

CONSTANTS
  Creates,    \* requests to POST /broadcast/groups; each names the group it creates
  Drafts,     \* requests to PATCH /broadcast/groups/{id}/draft
  Sends,      \* requests to POST /broadcast/{id}/send
  Blasts,     \* requests to POST /broadcast/send
  Campaigns,  \* requests to POST /notifications/campaigns
  Orgs,
  Voters,
  OrgOf,      \* the organization of a voter
  Mobile,     \* the voters with a telephone number
  Phones,     \* those of them who have it in phone_number, and not in mobile alone
  Channels,   \* the adapters: SMS, WhatsApp, Instagram
  Mocked,     \* those that are set to "mock", or Instagram without a token
  Texts,      \* the texts a draft may have
  Leavers,    \* bound: the voters who may be deleted
  Requested,  \* bound: requests that are made
  Slots,      \* bound: requests that are served at a time
  None        \* a missing text

Messengers == Sends \cup Blasts \cup Campaigns

Requests == Creates \cup Drafts \cup Messengers

Kinds == <<Creates, Drafts, Sends, Blasts, Campaigns>>

\* What the constants are.
OutreachAssumption ==
  /\ \A i, j \in DOMAIN Kinds : i # j => Kinds[i] \cap Kinds[j] = {}
  /\ OrgOf \in [Voters -> Orgs]
  /\ Phones \subseteq Mobile /\ Mobile \subseteq Voters
  /\ Leavers \subseteq Voters
  /\ Mocked \subseteq Channels
  /\ Requested \in Nat /\ Slots \in Nat
  /\ None \notin Texts \cup Creates

VARIABLES
  roll,        \* rows of voters
  group,       \* rows of broadcast_groups, with their members
  logs,        \* rows of broadcast_logs, delivery_logs and notification_recipients
  campaign,    \* the counters of notification_campaigns
  pc,          \* the request's next statement
  order,       \* what a request asks for, and the voters it writes to
  seen,        \* the group that the request has loaded
  todo,        \* the voters that the request has yet to write to
  answers,     \* what the providers have answered to the request
  inbox,       \* history: the messages that a provider took for a voter
  overlapped   \* history: pairs of requests on a group that were in flight together

rows   == <<roll, group, logs, campaign>>
locals == <<order, seen, todo, answers>>
vars   == <<rows, pc, locals, inbox, overlapped>>

GroupStatus == {"NONE", "DRAFT", "READY", "SENT"}

Group == [status : GroupStatus, org : Orgs \cup {None}, text : Texts \cup {None}, members : SUBSET Voters]

NoGroup == [status |-> "NONE", org |-> None, text |-> None, members |-> {}]

\* An attempt to write to a voter, as it is logged; a message that a provider
\* took, with the answer that came back.
Attempt == [by : Messengers, to : Voters, via : Channels, ok : BOOLEAN]

Counters == [total : Nat, sent : Nat, failed : Nat]

Order == [group : Creates \cup {None}, text : Texts \cup {None}, stamp : Blasts \cup {None},
          targets : SUBSET Voters]

NoOrder == [group |-> None, text |-> None, stamp |-> None, targets |-> {}]

Made == {r \in Requests : pc[r] # "new"}

InFlight == {r \in Requests : pc[r] \in {"draft", "send", "commit"}}

Groups == {g \in Creates : group[g].status # "NONE"}

\* A request comes in and asks for o.
Begin(r, step, o) ==
  /\ pc[r] = "new"
  /\ Cardinality(Made) < Requested /\ Cardinality(InFlight) < Slots
  /\ pc' = [pc EXCEPT ![r] = step]
  /\ order' = [order EXCEPT ![r] = o]
  /\ overlapped' = overlapped \cup
                     {{r, q} : q \in {p \in InFlight : order[p].group = o.group /\ o.group # None}}

\* A request ends and forgets what it has loaded.
End(r, how) ==
  /\ pc' = [pc EXCEPT ![r] = how]
  /\ seen' = [seen EXCEPT ![r] = NoGroup]
  /\ todo' = [todo EXCEPT ![r] = {}]
  /\ answers' = [answers EXCEPT ![r] = {}]
  /\ UNCHANGED <<order, inbox, overlapped>>

Init ==
  /\ roll = Voters
  /\ group = [g \in Creates |-> NoGroup]
  /\ logs = {}
  /\ campaign = [c \in Campaigns |-> [total |-> 0, sent |-> 0, failed |-> 0]]
  /\ pc = [r \in Requests |-> "new"]
  /\ order = [r \in Requests |-> NoOrder]
  /\ seen = [r \in Requests |-> NoGroup]
  /\ todo = [r \in Requests |-> {}]
  /\ answers = [r \in Requests |-> {}]
  /\ inbox = {}
  /\ overlapped = {}

VotersOf(org) == {v \in Voters : OrgOf[v] = org}

(***************************************************************************)
(* Voters are deleted, and enrolled again under their numbers: the members *)
(* of groups go with them, the rows of the logs stay.                      *)
(***************************************************************************)
DeleteVoter(v) ==
  /\ v \in roll
  /\ roll' = roll \ {v}
  /\ group' = [g \in Creates |-> [group[g] EXCEPT !.members = @ \ {v}]]
  /\ UNCHANGED <<logs, campaign, pc, locals, inbox, overlapped>>

EnrolVoter(v) ==
  /\ v \notin roll
  /\ roll' = roll \cup {v}
  /\ UNCHANGED <<group, logs, campaign, pc, locals, inbox, overlapped>>

\* Those of vs who have a telephone.
Reachable(vs) == vs \cap Mobile

(***************************************************************************)
(* create_group: the members are those of the selected voters who have a   *)
(* telephone, and nobody joins them later.                                 *)
(***************************************************************************)
CreateGroup(g, org, selected) ==
  LET members == Reachable(selected) IN
  /\ selected \subseteq VotersOf(org) \cap roll
  /\ members # {}
  /\ Begin(g, "done", NoOrder)
  /\ group' = [group EXCEPT ![g] = [status |-> "DRAFT", org |-> org, text |-> None, members |-> members]]
  /\ UNCHANGED <<roll, logs, campaign, seen, todo, answers, inbox>>

\* delete_group and delete_groups_bulk: the members and the logs go as well.
DeleteGroups(gs) ==
  /\ gs # {} /\ gs \subseteq Groups
  /\ group' = [g \in Creates |-> IF g \in gs THEN NoGroup ELSE group[g]]
  /\ logs' = {l \in logs : order[l.by].group \notin gs}
  /\ UNCHANGED <<roll, campaign, pc, locals, inbox, overlapped>>

(***************************************************************************)
(* save_group_draft.                                                       *)
(***************************************************************************)
\* A sent broadcast is not edited.
DraftRead(d, g, text) ==
  /\ group[g].status \in {"DRAFT", "READY"}
  /\ Begin(d, "draft", [NoOrder EXCEPT !.group = g, !.text = text])
  /\ seen' = [seen EXCEPT ![d] = group[g]]
  /\ UNCHANGED <<rows, todo, answers, inbox>>

\* Mutant of Saved: the status is written whatever was loaded.
SavedReady(row, old, text) == [row EXCEPT !.text = text, !.status = "READY"]

\* The row after a draft that had loaded old.
Saved(row, old, text) ==
  [row EXCEPT !.text   = IF text = old.text THEN @ ELSE text,
              !.status = IF old.status = "READY" THEN @ ELSE "READY"]

\* The update of a row that is gone fails.
DraftCommit(d) ==
  LET g == order[d].group IN
  /\ pc[d] = "draft"
  /\ g \in Groups
  /\ group' = [group EXCEPT ![g] = Saved(group[g], seen[d], order[d].text)]
  /\ End(d, "done")
  /\ UNCHANGED <<roll, logs, campaign>>

(***************************************************************************)
(* send_group.  A group that is SENT answers with the results it has.      *)
(***************************************************************************)
\* The group has a text and is not sent.
MaySend(g) == group[g].text # None /\ group[g].status # "SENT"

SendRead(r, g) ==
  /\ MaySend(g)
  /\ Begin(r, "send", [NoOrder EXCEPT !.group = g, !.targets = group[g].members])
  /\ seen' = [seen EXCEPT ![r] = group[g]]
  /\ todo' = [todo EXCEPT ![r] = group[g].members]
  /\ UNCHANGED <<rows, answers, inbox>>

\* Mutant of Answer: no answer in time is taken for a success.
AnswerInAnyCase(via, taken, answered) == via \in Mocked \/ taken \/ ~answered

\* What send_message of an adapter returns: a mocked one calls nobody and tells
\* of a success, another only if the provider does.
Answer(via, taken, answered) == via \in Mocked \/ (taken /\ answered)

\* A campaign has no number for a voter whose phone_number is empty, and writes
\* to 0000000000 instead.
NumberOf(r, v) == r \in Campaigns => v \in Phones

\* send_message to the next voter, by the adapter of his channel or of the
\* campaign's.  The provider takes the message or refuses it, and its answer
\* comes in time or not.
Message(r, v) ==
  /\ pc[r] = "send"
  /\ v \in todo[r]
  /\ todo' = [todo EXCEPT ![r] = @ \ {v}]
  /\ \E via \in Channels, taken, answered \in BOOLEAN :
       LET m == [by |-> r, to |-> v, via |-> via, ok |-> Answer(via, taken, answered)] IN
       /\ answers' = [answers EXCEPT ![r] = @ \cup {m}]
       /\ inbox' = IF taken /\ via \notin Mocked /\ NumberOf(r, v) THEN inbox \cup {m} ELSE inbox
  /\ UNCHANGED <<rows, pc, order, seen, overlapped>>

\* A row for every attempt.
Log(r) == logs' = logs \cup answers[r]

\* Rows for a group or for a voter that is gone cannot be inserted.
SendCommit(r) ==
  LET g == order[r].group IN
  /\ r \in Sends
  /\ pc[r] = "send" /\ todo[r] = {}
  /\ g \in Groups /\ order[r].targets \subseteq roll
  /\ Log(r)
  /\ group' = [group EXCEPT ![g].status = "SENT"]
  /\ End(r, "done")
  /\ UNCHANGED <<roll, campaign>>

(***************************************************************************)
(* send_broadcast.                                                         *)
(***************************************************************************)
\* Those of the voters in the selected wards who belong to the organization;
\* when there are none, those of all the others.  The rows of delivery_logs name
\* no voter.
Audience(org, selected) ==
  LET own == selected \cap VotersOf(org) IN IF own # {} THEN own ELSE selected

\* The id of a broadcast is the millisecond: two that are in flight together
\* may have one id.
BlastRead(b, org, selected) ==
  LET targets == Reachable(Audience(org, selected \cap roll)) IN
  \E stamp \in {b} \cup {order[q].stamp : q \in Blasts \cap InFlight} :
    /\ Begin(b, "send", [NoOrder EXCEPT !.stamp = stamp, !.targets = targets])
    /\ todo' = [todo EXCEPT ![b] = targets]
    /\ UNCHANGED <<rows, seen, answers, inbox>>

\* The ids of the rows are taken from the id of the broadcast.
IdTaken(b) == \E l \in logs : l.by \in Blasts /\ order[l.by].stamp = order[b].stamp

BlastCommit(b) ==
  /\ b \in Blasts
  /\ pc[b] = "send" /\ todo[b] = {}
  /\ ~IdTaken(b) \/ answers[b] = {}
  /\ Log(b)
  /\ End(b, "done")
  /\ UNCHANGED <<roll, group, campaign>>

(***************************************************************************)
(* create_and_dispatch_campaign: voters of the organization, whether they  *)
(* have a telephone or not.                                                *)
(***************************************************************************)
CampaignRead(c, org, audience) ==
  /\ audience \subseteq VotersOf(org) \cap roll
  /\ Begin(c, "send", [NoOrder EXCEPT !.targets = audience])
  /\ todo' = [todo EXCEPT ![c] = audience]
  /\ UNCHANGED <<rows, seen, answers, inbox>>

\* The campaign, its recipients and its counters become visible at once, if no
\* voter is gone by then.
CampaignCommit(c) ==
  LET count(ok) == Cardinality({a \in answers[c] : a.ok = ok}) IN
  /\ c \in Campaigns
  /\ pc[c] = "send" /\ todo[c] = {}
  /\ order[c].targets \subseteq roll
  /\ Log(c)
  /\ campaign' = [campaign EXCEPT ![c] =
                    [total |-> Cardinality(order[c].targets), sent |-> count(TRUE), failed |-> count(FALSE)]]
  /\ End(c, "done")
  /\ UNCHANGED <<roll, group>>

(***************************************************************************)
(* A request fails before its commit, or the commit fails.  The messages   *)
(* that left have left.                                                    *)
(***************************************************************************)
Fail(r) ==
  /\ r \in InFlight
  /\ End(r, "failed")
  /\ UNCHANGED rows

Next ==
  \/ \E v \in Leavers : DeleteVoter(v) \/ EnrolVoter(v)
  \/ \E g \in Creates, org \in Orgs, selected \in SUBSET Voters : CreateGroup(g, org, selected)
  \/ \E gs \in SUBSET Creates : DeleteGroups(gs)
  \/ \E d \in Drafts, g \in Groups, text \in Texts : DraftRead(d, g, text)
  \/ \E d \in Drafts : DraftCommit(d)
  \/ \E r \in Sends, g \in Groups : SendRead(r, g)
  \/ \E b \in Blasts, org \in Orgs, selected \in SUBSET Voters : BlastRead(b, org, selected)
  \/ \E c \in Campaigns, org \in Orgs, audience \in SUBSET Voters : CampaignRead(c, org, audience)
  \/ \E r \in Messengers, v \in Voters : Message(r, v)
  \/ \E r \in Messengers : SendCommit(r) \/ BlastCommit(r) \/ CampaignCommit(r)
  \/ \E r \in Requests : Fail(r)
  \/ InFlight = {} /\ UNCHANGED vars

Spec == Init /\ [][Next]_vars

-----------------------------------------------------------------------------
(***************************************************************************)
(* Properties.                                                             *)
(***************************************************************************)
\* Every variable has its type; the members of a group are voters of its
\* organization who can be reached.
TypeOK ==
  /\ roll \subseteq Voters
  /\ group \in [Creates -> Group]
  /\ \A g \in Groups : group[g].members \subseteq VotersOf(group[g].org) \cap Mobile \cap roll
  /\ logs \subseteq Attempt
  /\ campaign \in [Campaigns -> Counters]
  /\ pc \in [Requests -> {"new", "draft", "send", "done", "failed"}]
  /\ order \in [Requests -> Order]
  /\ seen \in [Requests -> Group]
  /\ todo \in [Requests -> SUBSET Voters]
  /\ answers \in [Requests -> SUBSET Attempt]
  /\ inbox \subseteq Attempt
  /\ overlapped \subseteq SUBSET Requests

LogsOf(r) == {l \in logs : l.by = r}

\* The request is over, its group has not been deleted since.
Settled(r) == pc[r] = "done" /\ (r \in Sends => order[r].group \in Groups)

\* A row that says that a message was sent when nobody took one for the voter:
\* the adapter was mocked, or a campaign had no number for him.
SentToNobody(l) == l.via \in Mocked \/ ~NumberOf(l.by, l.to)

\* What a request that ended well has logged: a row for each voter it wrote to,
\* and none of a success unless a provider took the message, the adapter was
\* mocked or a campaign had no number; the counters of a campaign are those of
\* its rows.
LogsTellTheTruth ==
  \A r \in Messengers :
    Settled(r) =>
      /\ {l.to : l \in LogsOf(r)} = order[r].targets
      /\ \A l \in LogsOf(r) : l.ok => l \in inbox \/ SentToNobody(l)
      /\ r \in Campaigns =>
           /\ campaign[r].total = Cardinality(LogsOf(r))
           /\ campaign[r].sent = Cardinality({l \in LogsOf(r) : l.ok})
           /\ campaign[r].failed = campaign[r].total - campaign[r].sent

\* A draft that was in flight together with r is committed.
Redrafted(r) ==
  \E d \in Drafts : pc[d] = "done" /\ order[d].group = order[r].group /\ {d, r} \in overlapped

\* Nobody receives the message of a group twice, unless two sends of it
\* overlapped, one of them failed after messages had left, or a draft that was
\* in flight with a send made the group ready again.
OncePerMember ==
  \A m, n \in inbox :
    LET q == m.by  r == n.by IN
    /\ q # r /\ m.to = n.to
    /\ {q, r} \subseteq Sends /\ order[q].group = order[r].group
    => \/ {q, r} \in overlapped
       \/ "failed" \in {pc[q], pc[r]}
       \/ Redrafted(q) \/ Redrafted(r)

\* What a broadcast says and how far it is, not to whom it goes.
Content(row) == <<row.status, row.text>>

\* A group that is SENT keeps its text and its status while it exists, unless
\* a draft that had loaded it before the send is committed after it.  Such a
\* draft makes it ready again only if it was a first draft: it had loaded a
\* group without a text.
SentChange ==
  \A g \in Creates :
    group[g].status = "SENT" /\ group'[g].status # "NONE" /\ Content(group'[g]) # Content(group[g]) =>
      \E d \in Drafts, r \in Sends :
        /\ pc[d] = "draft" /\ pc'[d] = "done"
        /\ order[d].group = g /\ order[r].group = g
        /\ {d, r} \in overlapped
        /\ group'[g].status = "SENT" \/ seen[d].text = None

SentStands == [][SentChange]_vars
=============================================================================
