-------------------------- MODULE ElectionLifecycle --------------------------
(***************************************************************************)
(* The status of one election under concurrent requests: lifecycle         *)
(* transitions and edits of its details (services/election_service.py) and *)
(* the publication of its results (services/result_service.py), while its  *)
(* positions, candidates and tally change (position_service.py,            *)
(* candidate_service.py, result_service.py).                               *)
(*                                                                         *)
(* The status is read without a lock and written by primary key when the   *)
(* request is flushed, so a check and the write it allows are two steps.   *)
(* A process is a connection that serves one request after another; their  *)
(* number bounds how many requests overlap, not how many there are.        *)
(***************************************************************************)
CONSTANTS
  Transitions,  \* connections that serve POST /elections/{id}/transition
  Edits,        \* connections that serve PUT /elections/{id}
  Publishes,    \* connections that serve POST /results/publish
  Positions,    \* rows of positions of the election
  Candidates,   \* rows of candidates of the election
  None          \* no request, no status

Requests == Transitions \cup Edits \cup Publishes

ASSUME RequestsAssumption ==
  /\ Transitions \cap Edits = {} /\ Transitions \cap Publishes = {}
  /\ Edits \cap Publishes = {}

Status == {"DRAFT", "SCHEDULED", "UPCOMING", "LIVE", "PAUSED", "CLOSED", "COUNTING",
           "RESULT_PUBLISHED", "ARCHIVED", "CANCELLED"}

ASSUME NoneAssumption == None \notin Requests \cup Status

\* ALLOWED_TRANSITIONS
Allowed ==
  [DRAFT            |-> {"SCHEDULED", "CANCELLED"},
   SCHEDULED        |-> {"UPCOMING", "LIVE", "CANCELLED", "DRAFT"},
   UPCOMING         |-> {"LIVE", "CANCELLED", "PAUSED"},
   LIVE             |-> {"PAUSED", "CLOSED", "CANCELLED"},
   PAUSED           |-> {"LIVE", "CLOSED", "CANCELLED"},
   CLOSED           |-> {"COUNTING", "ARCHIVED"},
   COUNTING         |-> {"RESULT_PUBLISHED", "CLOSED"},
   RESULT_PUBLISHED |-> {"ARCHIVED"},
   ARCHIVED         |-> {},
   CANCELLED        |-> {"DRAFT"}]

\* The statuses in which update_election refuses to edit.
Locked == {"LIVE", "COUNTING", "RESULT_PUBLISHED", "ARCHIVED"}

VARIABLES
  status,    \* elections.status
  active,    \* the positions that are active
  approved,  \* the candidates that are APPROVED
  tallied,   \* whether the election has a row in result_summaries
  visited,   \* history: the statuses the election has had
  row_lock,  \* the request that holds the lock on the election's row
  pc,        \* how far the request has come, "idle" when there is none
  target,    \* the status a transition asks for
  seen       \* elections.status as the request loaded it

election == <<status, visited>>
checks   == <<active, approved, tallied>>
requests == <<row_lock, pc, target, seen>>
vars     == <<election, checks, requests>>

Step == {"idle", "validate_positions", "validate_candidates", "summary_read", "checked", "flushed"}

InFlight(r) == pc[r] # "idle"

\* The request goes on to its next statement.
Advance(r, step) == /\ pc' = [pc EXCEPT ![r] = step]
                    /\ UNCHANGED <<row_lock, target, seen>>

\* The request loads the election and wants the status new.
Load(r, new, step) == /\ pc' = [pc EXCEPT ![r] = step]
                      /\ seen' = [seen EXCEPT ![r] = status]
                      /\ target' = [target EXCEPT ![r] = new]
                      /\ UNCHANGED row_lock

\* Mutant of End: the row stays locked.
EndKeepsRow(r) == /\ pc' = [pc EXCEPT ![r] = "idle"]
                  /\ seen' = [seen EXCEPT ![r] = None]
                  /\ target' = [target EXCEPT ![r] = None]
                  /\ UNCHANGED row_lock

\* The request is over, answered or refused: its transaction frees the row and
\* its session forgets what it loaded.
End(r) == /\ pc' = [pc EXCEPT ![r] = "idle"]
          /\ seen' = [seen EXCEPT ![r] = None]
          /\ target' = [target EXCEPT ![r] = None]
          /\ row_lock' = IF row_lock = r THEN None ELSE row_lock

\* The election's row gets the status s.
Become(s) == /\ status' = s
             /\ visited' = visited \cup {s}

Init ==
  /\ status = "DRAFT"
  /\ active \in {{}, Positions}
  /\ approved \in {{}, Candidates}
  /\ tallied = FALSE
  /\ visited = {"DRAFT"}
  /\ row_lock = None
  /\ pc = [r \in Requests |-> "idle"]
  /\ target = [r \in Requests |-> None]
  /\ seen = [r \in Requests |-> None]

(***************************************************************************)
(* transition_lifecycle.  A request that the first check refuses has done  *)
(* nothing and is not a step.                                              *)
(***************************************************************************)
\* Mutant of TransitionRead: any election may be closed.
TransitionReadCloses(t, new) ==
  /\ pc[t] = "idle"
  /\ new \in Allowed[status] \cup {"CLOSED"}
  /\ Load(t, new, IF new = "LIVE" THEN "validate_positions" ELSE "checked")
  /\ UNCHANGED <<election, checks>>

TransitionRead(t, new) ==
  /\ pc[t] = "idle"
  /\ new \in Allowed[status]
  /\ Load(t, new, IF new = "LIVE" THEN "validate_positions" ELSE "checked")
  /\ UNCHANGED <<election, checks>>

\* Before LIVE: at least one active position, then at least one approved
\* candidate, in two queries.
FindPositions(t) ==
  /\ pc[t] = "validate_positions"
  /\ IF active # {} THEN Advance(t, "validate_candidates") ELSE End(t)
  /\ UNCHANGED <<election, checks>>

FindCandidates(t) ==
  /\ pc[t] = "validate_candidates"
  /\ IF approved # {} THEN Advance(t, "checked") ELSE End(t)
  /\ UNCHANGED <<election, checks>>

\* The UPDATE of the election's row waits for the row and keeps it.
Flush(r) ==
  /\ pc[r] = "checked"
  /\ row_lock = None
  /\ row_lock' = r
  /\ pc' = [pc EXCEPT ![r] = "flushed"]
  /\ UNCHANGED <<election, checks, target, seen>>

\* The commit shows what was flushed.
TransitionCommit(t) ==
  /\ pc[t] = "flushed"
  /\ Become(target[t])
  /\ End(t)
  /\ UNCHANGED checks

(***************************************************************************)
(* update_election: title, dates, type; the status is only read.           *)
(***************************************************************************)
\* Mutant of EditRead: the status is not checked.
EditReadAny(u) ==
  /\ pc[u] = "idle"
  /\ Load(u, None, "checked")
  /\ UNCHANGED <<election, checks>>

EditRead(u) ==
  /\ pc[u] = "idle"
  /\ status \notin Locked
  /\ Load(u, None, "checked")
  /\ UNCHANGED <<election, checks>>

EditCommit(u) ==
  /\ pc[u] = "flushed"
  /\ End(u)
  /\ UNCHANGED <<election, checks>>

(***************************************************************************)
(* publish_results, as far as the election's status goes: it asks for a    *)
(* summary and for nothing else.                                           *)
(***************************************************************************)
PublishFindSummary(p) ==
  /\ pc[p] = "idle"
  /\ tallied
  /\ Advance(p, "summary_read")
  /\ UNCHANGED <<election, checks>>

PublishReadElection(p) ==
  /\ pc[p] = "summary_read"
  /\ Load(p, None, "checked")
  /\ UNCHANGED <<election, checks>>

\* No UPDATE, and no lock, when the status loaded is the one to write.
PublishFlush(p) ==
  \/ seen[p] # "RESULT_PUBLISHED" /\ Flush(p)
  \/ /\ pc[p] = "checked"
     /\ seen[p] = "RESULT_PUBLISHED"
     /\ Advance(p, "flushed")
     /\ UNCHANGED <<election, checks>>

PublishCommit(p) ==
  /\ pc[p] = "flushed"
  /\ IF seen[p] = "RESULT_PUBLISHED" THEN UNCHANGED election ELSE Become("RESULT_PUBLISHED")
  /\ End(p)
  /\ UNCHANGED checks

(***************************************************************************)
(* The rest of the program, one committed request at a time.  None of      *)
(* these looks at the election's status.                                   *)
(***************************************************************************)
\* create_position, update_position
PositionChanges(p) ==
  /\ active' = IF p \in active THEN active \ {p} ELSE active \cup {p}
  /\ UNCHANGED <<election, approved, tallied, requests>>

\* create_candidate, update_candidate_status, delete_candidate
CandidateChanges(c) ==
  /\ approved' = IF c \in approved THEN approved \ {c} ELSE approved \cup {c}
  /\ UNCHANGED <<election, active, tallied, requests>>

\* tally_results
Tally ==
  /\ ~tallied
  /\ tallied' = TRUE
  /\ UNCHANGED <<election, active, approved, requests>>

\* A request fails at any statement: get_db rolls its transaction back.
Abort(r) ==
  /\ InFlight(r)
  /\ End(r)
  /\ UNCHANGED <<election, checks>>

TransitionStep(t) == FindPositions(t) \/ FindCandidates(t) \/ Flush(t) \/ TransitionCommit(t)
EditStep(u)       == Flush(u) \/ EditCommit(u)
PublishStep(p)    == PublishReadElection(p) \/ PublishFlush(p) \/ PublishCommit(p)

Next ==
  \/ \E t \in Transitions : TransitionStep(t) \/ \E new \in Status : TransitionRead(t, new)
  \/ \E u \in Edits : EditStep(u) \/ EditRead(u)
  \/ \E p \in Publishes : PublishStep(p) \/ PublishFindSummary(p)
  \/ \E p \in Positions : PositionChanges(p)
  \/ \E c \in Candidates : CandidateChanges(c)
  \/ Tally
  \/ \E r \in Requests : Abort(r)

Spec == Init /\ [][Next]_vars

\* The event loop resumes every request whose statement has returned.  Each
\* time the row is freed any waiting request may be the next, and none is
\* passed over for ever.
Fairness == /\ \A t \in Transitions : SF_vars(TransitionStep(t))
            /\ \A u \in Edits : SF_vars(EditStep(u))
            /\ \A p \in Publishes : SF_vars(PublishStep(p))

FairSpec == Spec /\ Fairness

-----------------------------------------------------------------------------
(***************************************************************************)
(* Properties.                                                             *)
(***************************************************************************)
\* Every variable has its type.
TypeOK ==
  /\ status \in Status
  /\ active \subseteq Positions
  /\ approved \subseteq Candidates
  /\ tallied \in BOOLEAN
  /\ visited \subseteq Status
  /\ row_lock \in Requests \cup {None}
  /\ pc \in [Requests -> Step]
  /\ target \in [Requests -> Status \cup {None}]
  /\ seen \in [Requests -> Status \cup {None}]

\* However transitions overlap, an election is never in a status that no
\* status it has had allows, unless its tallied results were published: a
\* count needs a closing, a closing needs a pause or a live election.
NoStatusFromNowhere ==
  \A s \in visited \ {"DRAFT"} :
    \/ \E before \in visited : s \in Allowed[before]
    \/ s = "RESULT_PUBLISHED" /\ tallied

\* A check that a request made is only void when another request committed
\* a status after it looked: then a transition may leave the map, and an edit
\* may reach a locked election.
Overtaken(r) == InFlight(r) /\ seen[r] # status

OnlyOvertakenGoesAstray ==
  [][/\ \A t \in Transitions : TransitionCommit(t) => status' \in Allowed[status] \/ Overtaken(t)
     /\ \A u \in Edits : EditCommit(u) => status \notin Locked \/ Overtaken(u)]_vars

\* Every request ends: no wait for the election's row is for ever.
EveryRequestEnds == \A r \in Requests : InFlight(r) ~> ~InFlight(r)

\* What a request that passed its check has seen: a status the election had,
\* which allows the target, or does not lock, or is to be published.
ChecksStand ==
  /\ status \in visited
  /\ \A t \in Transitions :
       InFlight(t) => seen[t] \in visited /\ target[t] \in Allowed[seen[t]]
  /\ \A u \in Edits : InFlight(u) => seen[u] \notin Locked
  /\ \A p \in Publishes : InFlight(p) => tallied

\* The inductive invariant.
IInv == TypeOK /\ NoStatusFromNowhere /\ ChecksStand

(***************************************************************************)
(* What the documents say of the lifecycle and the code does not do.       *)
(***************************************************************************)
\* README.md, "Strict Election Lifecycle State Machine": every change of
\* status is one the map allows.
LifecycleObeyed == [][status' # status => status' \in Allowed[status]]_vars
=============================================================================
