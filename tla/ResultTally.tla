----------------------------- MODULE ResultTally -----------------------------
(***************************************************************************)
(* The results of one election: tally_results and publish_results of       *)
(* services/result_service.py, while ballots are recorded                  *)
(* (voting_service.py), positions are created (position_service.py) and    *)
(* candidates are created, change position and are deleted                 *)
(* (candidate_service.py).                                                 *)
(*                                                                         *)
(* A request is one transaction at READ COMMITTED: every statement sees    *)
(* what is committed when it starts, locks the rows it changes, and shows  *)
(* its changes at the commit.  A DELETE or an UPDATE of several rows finds *)
(* them first and then waits for those another transaction has locked, so  *)
(* it is two steps; rows inserted in between are not found.                *)
(***************************************************************************)
EXTENDS Integers, FiniteSets

CONSTANTS
  Tallies,     \* requests to POST /results/tally
  Publishes,   \* requests to POST /results/publish
  Positions,   \* positions of the election, now or later
  Candidates,  \* candidates, now or later: an id is given once
  Opened,      \* the positions there are at the start
  Standing,    \* the candidates there are at the start
  PositionOf,  \* the position_id of those, or None
  Choices,     \* the ballots: how often each candidate is chosen for each position
  MaxBallots,  \* bound: ballots recorded
  MaxChanges,  \* bound: candidates created or moved
  None         \* no request, no row; no position, or one of another election

Requests == Tallies \cup Publishes

Summary == [total : 0..MaxBallots, status : {"UNDER_REVIEW", "PUBLISHED"}]

ASSUME ResultAssumption ==
  /\ Tallies \cap Publishes = {}
  /\ Opened \subseteq Positions /\ Standing \subseteq Candidates
  /\ PositionOf \in [Standing -> Opened \cup {None}]
  /\ Choices \subseteq [Candidates -> [Positions -> Nat]]
  /\ MaxBallots \in Nat /\ MaxChanges \in Nat
  /\ None \notin Requests \cup Summary \cup Positions

VARIABLES
  ballots,       \* how many ballots the election has
  votes,         \* how many votes for a candidate at a position
  opened,        \* the positions that are created
  fresh,         \* the candidates that are not created yet
  standing,      \* the candidates that are created and not deleted
  place,         \* their position_id, or None
  changes,       \* how many candidates were created or moved
  rows,          \* results: who wrote the row, the position, the candidate, vote_count
  shown,         \* the rows whose status is PUBLISHED, the others are COUNTING
  summary,       \* the row of result_summaries, or None
  summary_lock,  \* the request that holds it, or has inserted it
  pc,            \* the request's next statement
  total,         \* total_ballots of a tally
  found,         \* the rows a DELETE or UPDATE has found, then those it has locked
  todo,          \* the positions a tally has not counted
  counting,      \* the position that it counts, or None
  listed,        \* the candidates of that position
  draft,         \* the rows a tally is to insert
  loaded,        \* the summary as the request loaded it
  began,         \* history: the votes when the tally was asked for
  changed,       \* history: the candidates created or moved since then
  latest,        \* history: the tally that committed last
  overlapped     \* history: the pairs of tallies that were in flight together

register == <<opened, fresh, standing, place, changes>>
election == <<ballots, votes, register>>
results  == <<rows, shown, summary>>
history  == <<began, changed, latest, overlapped>>
work     == <<todo, counting, listed, draft>>
locals   == <<total, found, work, loaded>>
vars     == <<election, results, summary_lock, pc, locals, history>>

Step == {"start", "find_rows", "change_rows", "positions", "count", "votes", "flush", "commit", "done"}

Row == [by : Tallies, pos : Positions, cand : Candidates, count : Nat]

InFlight(r) == pc[r] \notin {"start", "done"}

Goto(r, step) == pc' = [pc EXCEPT ![r] = step]

\* The rows that a transaction has deleted or updated and not committed.
Locks(r) == IF pc[r] \in {"positions", "count", "votes", "flush", "commit"} THEN found[r] ELSE {}

RowsFree(r) == \A q \in Requests \ {r} : found[r] \cap Locks(q) = {}

\* What a request that has not read anything, or is over, holds in memory.
Forget(r) == /\ total' = [total EXCEPT ![r] = 0]
             /\ found' = [found EXCEPT ![r] = {}]
             /\ todo' = [todo EXCEPT ![r] = {}]
             /\ counting' = [counting EXCEPT ![r] = None]
             /\ listed' = [listed EXCEPT ![r] = {}]
             /\ draft' = [draft EXCEPT ![r] = {}]
             /\ loaded' = [loaded EXCEPT ![r] = None]

\* Mutant of End: the summary stays locked.
EndKeepsSummary(r) == Goto(r, "done") /\ Forget(r) /\ UNCHANGED summary_lock

\* The end of a request: its transaction frees its locks.
End(r) == /\ Goto(r, "done")
          /\ Forget(r)
          /\ summary_lock' = IF summary_lock = r THEN None ELSE summary_lock

Init ==
  /\ ballots = 0
  /\ votes = [c \in Candidates |-> [p \in Positions |-> 0]]
  /\ opened = Opened
  /\ standing = Standing /\ fresh = Candidates \ Standing
  /\ place = [c \in Candidates |-> IF c \in Standing THEN PositionOf[c] ELSE None]
  /\ changes = 0
  /\ rows = {} /\ shown = {} /\ summary = None
  /\ summary_lock = None
  /\ pc = [r \in Requests |-> "start"]
  /\ total = [r \in Requests |-> 0]
  /\ found = [r \in Requests |-> {}]
  /\ todo = [r \in Requests |-> {}]
  /\ counting = [r \in Requests |-> None]
  /\ listed = [r \in Requests |-> {}]
  /\ draft = [r \in Requests |-> {}]
  /\ loaded = [r \in Requests |-> None]
  /\ began = [t \in Tallies |-> [c \in Candidates |-> [p \in Positions |-> 0]]]
  /\ changed = [t \in Tallies |-> {}]
  /\ latest = None
  /\ overlapped = {}

(***************************************************************************)
(* tally_results.  The election is there; its status is not looked at.     *)
(***************************************************************************)
TallyCountBallots(t) ==
  /\ pc[t] = "start"
  /\ Goto(t, "find_rows")
  /\ total' = [total EXCEPT ![t] = ballots]
  /\ began' = [began EXCEPT ![t] = votes]
  /\ overlapped' = overlapped \cup {{t, u} : u \in {v \in Tallies : InFlight(v)}}
  /\ UNCHANGED <<election, results, summary_lock, found, work, loaded, changed, latest>>

\* Mutant of TallyFindRows: only drafts are cleared, published rows are not.
TallyFindDrafts(t) ==
  /\ pc[t] = "find_rows"
  /\ Goto(t, "change_rows")
  /\ found' = [found EXCEPT ![t] = rows \ shown]
  /\ UNCHANGED <<election, results, summary_lock, total, work, loaded, history>>

\* "Clear old draft tallies": the DELETE finds the rows ...
TallyFindRows(t) ==
  /\ pc[t] = "find_rows"
  /\ Goto(t, "change_rows")
  /\ found' = [found EXCEPT ![t] = rows]
  /\ UNCHANGED <<election, results, summary_lock, total, work, loaded, history>>

\* Mutant of TallyClear: the deletion is committed at once.
TallyClearCommits(t) ==
  /\ pc[t] = "change_rows"
  /\ RowsFree(t)
  /\ Goto(t, "positions")
  /\ rows' = rows \ found[t]
  /\ shown' = shown \ found[t]
  /\ found' = [found EXCEPT ![t] = {}]
  /\ UNCHANGED <<election, summary, summary_lock, total, work, loaded, history>>

\* ... and deletes those that are still there once nobody else holds them.
TallyClear(t) ==
  /\ pc[t] = "change_rows"
  /\ RowsFree(t)
  /\ Goto(t, "positions")
  /\ found' = [found EXCEPT ![t] = @ \cap rows]
  /\ UNCHANGED <<election, results, summary_lock, total, work, loaded, history>>

TallyPositions(t) ==
  /\ pc[t] = "positions"
  /\ Goto(t, "count")
  /\ todo' = [todo EXCEPT ![t] = opened]
  /\ UNCHANGED <<election, results, summary_lock, total, found, counting, listed, draft, loaded, history>>

\* The candidates of one position, whatever election they are entered in ...
TallyCandidates(t, p) ==
  /\ pc[t] = "count"
  /\ p \in todo[t]
  /\ Goto(t, "votes")
  /\ todo' = [todo EXCEPT ![t] = @ \ {p}]
  /\ counting' = [counting EXCEPT ![t] = p]
  /\ listed' = [listed EXCEPT ![t] = {c \in standing : place[c] = p}]
  /\ UNCHANGED <<election, results, summary_lock, total, found, draft, loaded, history>>

\* Mutant of TallyVotes: the votes are not grouped by candidate.
TallyVotesUngrouped(t) ==
  /\ pc[t] = "votes"
  /\ Goto(t, "count")
  /\ draft' = [draft EXCEPT ![t] = @ \cup
                 {[by |-> t, pos |-> counting[t], cand |-> c, count |-> ballots] : c \in listed[t]}]
  /\ counting' = [counting EXCEPT ![t] = None]
  /\ listed' = [listed EXCEPT ![t] = {}]
  /\ UNCHANGED <<election, results, summary_lock, total, found, todo, loaded, history>>

\* ... and their votes.
TallyVotes(t) ==
  /\ pc[t] = "votes"
  /\ Goto(t, "count")
  /\ draft' = [draft EXCEPT ![t] = @ \cup
                 {[by |-> t, pos |-> counting[t], cand |-> c, count |-> votes[c][counting[t]]] : c \in listed[t]}]
  /\ counting' = [counting EXCEPT ![t] = None]
  /\ listed' = [listed EXCEPT ![t] = {}]
  /\ UNCHANGED <<election, results, summary_lock, total, found, todo, loaded, history>>

TallyFindSummary(t) ==
  /\ pc[t] = "count"
  /\ todo[t] = {}
  /\ Goto(t, "flush")
  /\ loaded' = [loaded EXCEPT ![t] = summary]
  /\ UNCHANGED <<election, results, summary_lock, total, found, work, history>>

\* The summary as the tally wants it.
Wanted(t) == [total |-> total[t], status |-> "UNDER_REVIEW"]

\* The rows are inserted, which a deleted candidate forbids, and the summary
\* is inserted or updated: the insertion waits for another one and fails if
\* that is committed; the update is left out when it would change nothing.
TallyFlush(t) ==
  /\ pc[t] = "flush"
  /\ IF \E r \in draft[t] : r.cand \notin standing
       THEN End(t)
       ELSE IF loaded[t] = Wanted(t)
         THEN Goto(t, "commit") /\ UNCHANGED <<summary_lock, locals>>
         ELSE /\ summary_lock = None
              /\ IF loaded[t] = None /\ summary # None
                   THEN End(t)
                   ELSE Goto(t, "commit") /\ summary_lock' = t /\ UNCHANGED locals
  /\ UNCHANGED <<election, results, history>>

\* The columns that differ from the summary loaded are written.
TallyCommit(t) ==
  /\ pc[t] = "commit"
  /\ rows' = (rows \ found[t]) \cup draft[t]
  /\ shown' = shown \ found[t]
  /\ summary' = IF loaded[t] = None
                  THEN Wanted(t)
                  ELSE [total  |-> IF loaded[t].total # total[t] THEN total[t] ELSE summary.total,
                        status |-> IF loaded[t].status # "UNDER_REVIEW"
                                     THEN "UNDER_REVIEW" ELSE summary.status]
  /\ End(t)
  /\ latest' = t
  /\ UNCHANGED <<election, began, changed, overlapped>>

(***************************************************************************)
(* publish_results.  The election's own row is in ElectionLifecycle.       *)
(***************************************************************************)
PublishFindSummary(p) ==
  /\ pc[p] = "start"
  /\ Goto(p, IF summary = None THEN "done" ELSE "flush")
  /\ loaded' = [loaded EXCEPT ![p] = summary]
  /\ UNCHANGED <<election, results, summary_lock, total, found, work, history>>

\* published_at is new, so the summary is always written.
PublishFlush(p) ==
  /\ pc[p] = "flush"
  /\ summary_lock = None
  /\ summary_lock' = p
  /\ Goto(p, "find_rows")
  /\ UNCHANGED <<election, results, locals, history>>

PublishFindRows(p) ==
  /\ pc[p] = "find_rows"
  /\ Goto(p, "change_rows")
  /\ found' = [found EXCEPT ![p] = rows]
  /\ UNCHANGED <<election, results, summary_lock, total, work, loaded, history>>

PublishMark(p) ==
  /\ pc[p] = "change_rows"
  /\ RowsFree(p)
  /\ Goto(p, "commit")
  /\ found' = [found EXCEPT ![p] = @ \cap rows]
  /\ UNCHANGED <<election, results, summary_lock, total, work, loaded, history>>

PublishCommit(p) ==
  /\ pc[p] = "commit"
  /\ shown' = shown \cup found[p]
  /\ summary' = IF loaded[p].status = "PUBLISHED" THEN summary
                ELSE [summary EXCEPT !.status = "PUBLISHED"]
  /\ End(p)
  /\ UNCHANGED <<election, rows, history>>

(***************************************************************************)
(* The rest of the program, one committed request at a time.               *)
(***************************************************************************)
\* cast_ballot: a ballot with a vote for each choice.  The position and the
\* candidate of a choice must exist; that the candidate stands for the position,
\* or is chosen once, is not looked at.
RecordBallot(chosen) ==
  /\ ballots < MaxBallots
  /\ \A c \in Candidates, p \in Positions : chosen[c][p] > 0 => c \in standing /\ p \in opened
  /\ ballots' = ballots + 1
  /\ votes' = [c \in Candidates |-> [p \in Positions |-> votes[c][p] + chosen[c][p]]]
  /\ UNCHANGED <<register, results, summary_lock, pc, locals, history>>

Change == changes < MaxChanges /\ changes' = changes + 1

\* create_position.
CreatePosition(p) ==
  /\ p \notin opened
  /\ opened' = opened \cup {p}
  /\ UNCHANGED <<ballots, votes, fresh, standing, place, changes, results, summary_lock, pc, locals, history>>

\* The tallies asked for before see a candidate whose position has changed.
Note(c) == changed' = [t \in Tallies |-> IF pc[t] = "start" THEN {} ELSE changed[t] \cup {c}]

\* create_candidate: for a position, for one of another election, or for none.
CreateCandidate(c, p) ==
  /\ Change
  /\ c \in fresh
  /\ fresh' = fresh \ {c}
  /\ standing' = standing \cup {c}
  /\ place' = [place EXCEPT ![c] = p]
  /\ Note(c)
  /\ UNCHANGED <<ballots, votes, opened, results, summary_lock, pc, locals, began, latest, overlapped>>

\* update_candidate with another position_id.  The candidate's votes and result
\* rows keep the position they have; no result row's lock is waited for.
MoveCandidate(c, p) ==
  /\ Change
  /\ c \in standing
  /\ p # place[c]
  /\ place' = [place EXCEPT ![c] = p]
  /\ Note(c)
  /\ UNCHANGED <<ballots, votes, opened, fresh, standing, results, summary_lock, pc, locals,
                 began, latest, overlapped>>

\* delete_candidate: the candidate's votes and result rows go with it, the
\* ballots stay.  It waits for those who hold its rows or have inserted some.
RemoveCandidate(c) ==
  /\ c \in standing
  /\ \A r \in Requests : \A row \in Locks(r) : row.cand # c
  /\ \A t \in Tallies : pc[t] = "commit" => \A row \in draft[t] : row.cand # c
  /\ standing' = standing \ {c}
  /\ place' = [place EXCEPT ![c] = None]
  /\ votes' = [votes EXCEPT ![c] = [p \in Positions |-> 0]]
  /\ rows' = {row \in rows : row.cand # c}
  /\ shown' = {row \in shown : row.cand # c}
  /\ UNCHANGED <<ballots, opened, fresh, changes, summary, summary_lock, pc, locals, history>>

\* A request fails, or is the one PostgreSQL ends to break a deadlock.
Abort(r) ==
  /\ InFlight(r)
  /\ End(r)
  /\ UNCHANGED <<election, results, history>>

\* r waits for a lock of q: for the summary or for result rows.
WaitsFor(r, q) ==
  /\ r # q
  /\ \/ pc[r] = "flush" /\ summary_lock = q
     \/ pc[r] = "change_rows" /\ found[r] \cap Locks(q) # {}

BreakDeadlock ==
  \E p \in Publishes, t \in Tallies :
    /\ WaitsFor(p, t) /\ WaitsFor(t, p)
    /\ Abort(p) \/ Abort(t)

TallyStep(t)   == \/ TallyFindRows(t) \/ TallyClear(t) \/ TallyPositions(t)
                  \/ \E p \in Positions : TallyCandidates(t, p)
                  \/ TallyVotes(t) \/ TallyFindSummary(t) \/ TallyFlush(t) \/ TallyCommit(t)
PublishStep(p) == PublishFlush(p) \/ PublishFindRows(p) \/ PublishMark(p) \/ PublishCommit(p)

Done == (\A r \in Requests : pc[r] = "done") /\ UNCHANGED vars

Next ==
  \/ \E t \in Tallies : TallyCountBallots(t) \/ TallyStep(t)
  \/ \E p \in Publishes : PublishFindSummary(p) \/ PublishStep(p)
  \/ \E chosen \in Choices : RecordBallot(chosen)
  \/ \E p \in Positions : CreatePosition(p)
  \/ \E c \in Candidates, p \in opened \cup {None} : CreateCandidate(c, p) \/ MoveCandidate(c, p)
  \/ \E c \in Candidates : RemoveCandidate(c)
  \/ \E r \in Requests : Abort(r)
  \/ Done

Spec == Init /\ [][Next]_vars

\* The event loop resumes every request whose statement has returned, a lock
\* that stays free is granted, and PostgreSQL looks for deadlocks
\* (deadlock_timeout) and ends one of the transactions.  Weak fairness is
\* enough: there are finitely many requests, and each takes its locks once.
Fairness == /\ \A t \in Tallies : WF_vars(TallyStep(t))
            /\ \A p \in Publishes : WF_vars(PublishStep(p))
            /\ WF_vars(BreakDeadlock)

FairSpec == Spec /\ Fairness

-----------------------------------------------------------------------------
(***************************************************************************)
(* Properties.                                                             *)
(***************************************************************************)
\* Every variable has its type.
TypeOK ==
  /\ ballots \in 0..MaxBallots
  /\ votes \in [Candidates -> [Positions -> Nat]]
  /\ opened \subseteq Positions
  /\ standing \subseteq Candidates /\ fresh \subseteq Candidates \ standing
  /\ place \in [Candidates -> opened \cup {None}]
  /\ changes \in 0..MaxChanges
  /\ rows \subseteq Row
  /\ shown \subseteq rows
  /\ summary \in Summary \cup {None}
  /\ summary_lock \in Requests \cup {None}
  /\ pc \in [Requests -> Step]
  /\ total \in [Requests -> 0..MaxBallots]
  /\ found \in [Requests -> SUBSET Row]
  /\ todo \in [Requests -> SUBSET Positions]
  /\ counting \in [Requests -> Positions \cup {None}]
  /\ listed \in [Requests -> SUBSET Candidates]
  /\ draft \in [Requests -> SUBSET Row]
  /\ loaded \in [Requests -> Summary \cup {None}]
  /\ began \in [Tallies -> [Candidates -> [Positions -> Nat]]]
  /\ changed \in [Tallies -> SUBSET Candidates]
  /\ latest \in Tallies \cup {None}
  /\ overlapped \subseteq SUBSET Tallies

\* From the first tally on the results cover the candidates there are: whoever
\* has a position, and had it when the tally that committed last was asked for,
\* has a row of that tally for it; and no row is of a candidate that is gone,
\* or of a position that the candidate did not have since its tally was asked
\* for.  No reader sees the results cleared and not yet written again, or half
\* counted, however tallies, publications, creations, moves and deletions
\* interleave and whichever of them fails.
ResultsCoverCandidates ==
  /\ summary # None =>
       \A c \in standing \ changed[latest] : place[c] # None =>
         \E row \in rows : row.by = latest /\ row.cand = c /\ row.pos = place[c]
  /\ \A row \in rows :
       row.cand \in standing /\ (row.cand \notin changed[row.by] => place[row.cand] = row.pos)

\* The results are well formed and cover the candidates, whatever overlaps.
ResultsConsistent == TypeOK /\ ResultsCoverCandidates

\* A vote_count in the results lies between the votes the candidate had at that
\* position when its tally was asked for and those it has now: ballots recorded
\* meanwhile may be missed, none is counted twice or for another position, and
\* no older tally shows through.
CountsBetween ==
  \A row \in rows :
    began[row.by][row.cand][row.pos] <= row.count /\ row.count <= votes[row.cand][row.pos]

\* Two result rows for one candidate come from tallies that were in flight
\* together, so that a tally leaves nothing of one that ended before it began,
\* or from one tally that found the candidate at a position and, after a move,
\* at another.
DuplicatesFromOverlap ==
  \A row1, row2 \in rows :
    row1.cand = row2.cand /\ row1 # row2 =>
      \/ row1.by # row2.by /\ {row1.by, row2.by} \in overlapped
      \/ row1.by = row2.by /\ row1.pos # row2.pos /\ row1.cand \in changed[row1.by]

\* Every tally and every publication ends, deadlocked or not.
EveryRequestEnds == []<>(\A r \in Requests : ~InFlight(r))
=============================================================================
