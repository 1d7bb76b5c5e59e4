-------------------------- MODULE ResultTallyProofs --------------------------
(***************************************************************************)
(* The results of an election are consistent at every moment, for any      *)
(* number of tallies and publications, candidates, positions and ballots.  *)
(***************************************************************************)
EXTENDS ResultTally, TLAPS

\* What a request holds at which step.
RequestsInOrder ==
  /\ \A r \in Requests : pc[r] \in {"start", "done"} => found[r] = {}
  /\ \A t \in Tallies : pc[t] \in {"start", "find_rows", "change_rows", "positions", "done"} => draft[t] = {}
  /\ \A t \in Tallies : pc[t] = "votes" => counting[t] \in Positions \ todo[t]
  /\ \A t \in Tallies : pc[t] \in {"flush", "commit"} => todo[t] = {}
  /\ \A p \in Publishes : pc[p] \notin {"positions", "count", "votes"} /\ (InFlight(p) => loaded[p] # None)
  /\ \A r \in Requests : loaded[r] # None => summary # None
  /\ summary # None => latest # None

\* The tally has read the positions.
Counts(t) == pc[t] \in {"count", "votes", "flush", "commit"}

\* Whoever has kept a position that was counted is listed or has a row in the
\* draft, and what is about to be committed is of candidates that are there.
DraftsCover ==
  /\ \A t \in Tallies : Counts(t) =>
       \A c \in standing \ changed[t] : place[c] # None /\ place[c] \notin todo[t] =>
         \/ pc[t] = "votes" /\ place[c] = counting[t] /\ c \in listed[t]
         \/ \E row \in draft[t] : row.cand = c /\ row.pos = place[c]
  /\ \A t \in Tallies : pc[t] = "commit" => \A row \in draft[t] : row.cand \in standing

\* A candidate is listed, and has a draft row, for a position it has or had.
DraftsPlaced ==
  \A t \in Tallies :
    /\ pc[t] = "votes" => \A c \in listed[t] :
         c \notin fresh /\ (c \in standing \ changed[t] => place[c] = counting[t])
    /\ \A row \in draft[t] :
         /\ row.by = t /\ row.cand \notin fresh /\ row.pos \notin todo[t]
         /\ pc[t] = "votes" => row.pos # counting[t]
         /\ row.cand \in standing \ changed[t] => place[row.cand] = row.pos

\* A draft has one row for a candidate at a position.
DraftsOnce ==
  \A t \in Tallies : \A row1, row2 \in draft[t] :
    row1.cand = row2.cand /\ row1.pos = row2.pos => row1 = row2

\* Votes only grow while the candidate is there, so that a draft's counts lie
\* between those at the start of its tally and those of now.
DraftsCount ==
  /\ \A t \in Tallies, c \in standing \cup fresh, p \in Positions : began[t][c][p] <= votes[c][p]
  /\ \A t \in Tallies : \A row \in draft[t] : row.cand \in standing =>
       began[t][row.cand][row.pos] <= row.count /\ row.count <= votes[row.cand][row.pos]

\* Rows are of tallies that have ended, and one committed last.
RowsInOrder ==
  /\ \A row \in rows : pc[row.by] = "done"
  /\ latest # None => pc[latest] = "done"
  /\ \A row1, row2 \in rows :
       row1.by = row2.by /\ row1.cand = row2.cand /\ row1.pos = row2.pos => row1 = row2

\* No two transactions hold a row, and what a publication has marked is there.
LocksApart ==
  /\ \A q, r \in Requests : q # r => Locks(q) \cap Locks(r) = {}
  /\ \A p \in Publishes : pc[p] = "commit" => found[p] \subseteq rows

OverlapsKnown ==
  \A t, u \in Tallies : t # u /\ InFlight(t) /\ InFlight(u) => {t, u} \in overlapped

\* A row that a tally has not found came while the tally was in flight.
FoundInOrder ==
  \A t \in Tallies : \A row \in rows :
    pc[t] \notin {"start", "find_rows", "done"} /\ row \notin found[t] => {row.by, t} \in overlapped

\* The inductive invariant.
IInv ==
  /\ TypeOK /\ ResultsCoverCandidates /\ CountsBetween /\ DuplicatesFromOverlap
  /\ RequestsInOrder /\ DraftsCover /\ DraftsPlaced /\ DraftsOnce /\ DraftsCount
  /\ RowsInOrder /\ LocksApart /\ OverlapsKnown /\ FoundInOrder

-----------------------------------------------------------------------------
\* What the proofs use of the types.
LEMMA Typed ==
  ASSUME IInv
  PROVE  /\ ballots \in 0..MaxBallots /\ votes \in [Candidates -> [Positions -> Nat]]
         /\ opened \subseteq Positions /\ standing \subseteq Candidates /\ fresh \subseteq Candidates \ standing
         /\ place \in [Candidates -> opened \cup {None}]
         /\ rows \subseteq Row /\ shown \subseteq rows /\ summary \in Summary \cup {None}
         /\ pc \in [Requests -> Step] /\ total \in [Requests -> 0..MaxBallots]
         /\ found \in [Requests -> SUBSET Row] /\ todo \in [Requests -> SUBSET Positions]
         /\ counting \in [Requests -> Positions \cup {None}] /\ listed \in [Requests -> SUBSET Candidates]
         /\ draft \in [Requests -> SUBSET Row] /\ loaded \in [Requests -> Summary \cup {None}]
         /\ began \in [Tallies -> [Candidates -> [Positions -> Nat]]]
         /\ changed \in [Tallies -> SUBSET Candidates] /\ latest \in Tallies \cup {None}
         /\ overlapped \subseteq SUBSET Tallies
         /\ Tallies \subseteq Requests /\ Publishes \subseteq Requests /\ Tallies \cap Publishes = {}
         /\ None \notin Requests \cup Summary \cup Positions /\ \A r \in Requests : r \in Tallies \/ r \in Publishes
         /\ MaxBallots \in Nat
BY ResultAssumption DEF IInv, TypeOK, Requests

LEMMA RowFields == \A row \in Row : /\ row.by \in Tallies /\ row.pos \in Positions
                              /\ row.cand \in Candidates /\ row.count \in Nat
BY DEF Row

\* The end of a request.
LEMMA EndEffect ==
  ASSUME IInv, NEW r \in Requests, End(r)
  PROVE  /\ pc' = [pc EXCEPT ![r] = "done"] /\ pc' \in [Requests -> Step]
         /\ found' = [found EXCEPT ![r] = {}] /\ todo' = [todo EXCEPT ![r] = {}]
         /\ counting' = [counting EXCEPT ![r] = None] /\ listed' = [listed EXCEPT ![r] = {}]
         /\ draft' = [draft EXCEPT ![r] = {}] /\ loaded' = [loaded EXCEPT ![r] = None]
         /\ total' \in [Requests -> 0..MaxBallots] /\ found' \in [Requests -> SUBSET Row]
         /\ todo' \in [Requests -> SUBSET Positions] /\ counting' \in [Requests -> Positions \cup {None}]
         /\ listed' \in [Requests -> SUBSET Candidates] /\ draft' \in [Requests -> SUBSET Row]
         /\ loaded' \in [Requests -> Summary \cup {None}] /\ summary_lock' \in Requests \cup {None}
         /\ \A q \in Requests : q # r => pc'[q] = pc[q] /\ Locks(q)' = Locks(q)
         /\ Locks(r)' = {}
<1>1. /\ pc' = [pc EXCEPT ![r] = "done"] /\ total' = [total EXCEPT ![r] = 0]
      /\ found' = [found EXCEPT ![r] = {}] /\ todo' = [todo EXCEPT ![r] = {}]
      /\ counting' = [counting EXCEPT ![r] = None] /\ listed' = [listed EXCEPT ![r] = {}]
      /\ draft' = [draft EXCEPT ![r] = {}] /\ loaded' = [loaded EXCEPT ![r] = None]
      /\ summary_lock' = IF summary_lock = r THEN None ELSE summary_lock
  BY DEF End, Goto, Forget
<1>2. /\ pc' \in [Requests -> Step] /\ total' \in [Requests -> 0..MaxBallots]
      /\ found' \in [Requests -> SUBSET Row]
      /\ todo' \in [Requests -> SUBSET Positions] /\ counting' \in [Requests -> Positions \cup {None}]
      /\ listed' \in [Requests -> SUBSET Candidates] /\ draft' \in [Requests -> SUBSET Row]
      /\ loaded' \in [Requests -> Summary \cup {None}]
  BY <1>1, Typed DEF Step
<1>3. summary_lock' \in Requests \cup {None}
  BY <1>1 DEF IInv, TypeOK
<1>4. /\ \A q \in Requests : q # r => pc'[q] = pc[q] /\ Locks(q)' = Locks(q)
      /\ Locks(r)' = {}
  BY <1>1, Typed DEF Locks
<1> QED
  BY <1>1, <1>2, <1>3, <1>4

\* What a request holds stays in order when one ends and the summary is not
\* lost.
LEMMA EndKeeps ==
  ASSUME IInv, NEW r \in Requests, End(r), summary # None => summary' # None,
         summary' # None => latest' # None, UNCHANGED <<election, began, changed, overlapped>>
  PROVE  RequestsInOrder' /\ DraftsCover' /\ DraftsPlaced' /\ DraftsOnce' /\ DraftsCount' /\ OverlapsKnown'
<1> USE DEF IInv
<1>1. /\ pc' = [pc EXCEPT ![r] = "done"] /\ found' = [found EXCEPT ![r] = {}]
      /\ todo' = [todo EXCEPT ![r] = {}] /\ draft' = [draft EXCEPT ![r] = {}]
      /\ counting' = [counting EXCEPT ![r] = None] /\ listed' = [listed EXCEPT ![r] = {}]
      /\ loaded' = [loaded EXCEPT ![r] = None]
      /\ UNCHANGED <<ballots, votes, standing, fresh, place, began, changed, overlapped>>
  BY EndEffect DEF election, register
<1>2. RequestsInOrder'
  BY <1>1, Typed DEF RequestsInOrder, InFlight
<1>3. DraftsCover' /\ DraftsPlaced' /\ DraftsOnce'
  BY <1>1, Typed DEF DraftsCover, Counts, DraftsPlaced, DraftsOnce
<1>4. DraftsCount'
  BY <1>1, Typed DEF DraftsCount
<1>5. OverlapsKnown'
  BY <1>1, Typed DEF OverlapsKnown, InFlight
<1> QED
  BY <1>2, <1>3, <1>4, <1>5

\* A tally that is over stays so when a request ends.
LEMMA DoneKeeps ==
  ASSUME IInv, NEW r \in Requests, End(r)
  PROVE  /\ \A row \in rows : pc'[row.by] = "done"
         /\ latest # None => pc'[latest] = "done"
<1>1. pc' = [pc EXCEPT ![r] = "done"]
  BY EndEffect
<1>2. \A row \in rows : row.by \in Requests /\ pc[row.by] = "done"
  BY Typed, RowFields DEF IInv, RowsInOrder
<1>3. latest # None => latest \in Requests /\ pc[latest] = "done"
  BY Typed DEF IInv, RowsInOrder
<1> QED
  BY <1>1, <1>2, <1>3, Typed

\* The rows and the locks on them stay apart when a request ends that changes
\* no row.
LEMMA EndKeepsLocks ==
  ASSUME IInv, NEW r \in Requests, End(r), UNCHANGED <<rows, overlapped>>
  PROVE  LocksApart' /\ FoundInOrder'
<1>1. /\ \A q \in Requests : q # r => pc'[q] = pc[q] /\ Locks(q)' = Locks(q)
      /\ Locks(r)' = {} /\ pc' = [pc EXCEPT ![r] = "done"] /\ found' = [found EXCEPT ![r] = {}]
  BY EndEffect
<1>2. pc'[r] = "done" /\ \A q \in Requests : q # r => pc'[q] = pc[q] /\ found'[q] = found[q]
  BY <1>1, Typed
<1>3. LocksApart'
  <2>1. \A p, q \in Requests : p # q => Locks(p)' \cap Locks(q)' = {}
    BY <1>1 DEF IInv, LocksApart
  <2>2. \A p \in Publishes : pc'[p] = "commit" => found'[p] \subseteq rows'
    <3> SUFFICES ASSUME NEW p \in Publishes, pc'[p] = "commit" PROVE found'[p] \subseteq rows
      OBVIOUS
    <3>1. p \in Requests /\ p # r
      BY <1>2, Typed
    <3> QED
      BY <1>2, <3>1 DEF IInv, LocksApart
  <2> QED
    BY <2>1, <2>2 DEF LocksApart
<1>4. FoundInOrder'
  <2> SUFFICES ASSUME NEW t \in Tallies, NEW row \in rows,
                      pc'[t] \notin {"start", "find_rows", "done"}, row \notin found'[t]
               PROVE  {row.by, t} \in overlapped
    BY DEF FoundInOrder
  <2>1. t \in Requests /\ t # r
    BY <1>2, Typed
  <2> QED
    BY <1>2, <2>1 DEF IInv, FoundInOrder
<1> QED
  BY <1>3, <1>4

\* What the results promise depends on nothing but these.
LEMMA ResultsKept ==
  ASSUME IInv, UNCHANGED <<votes, standing, place, rows, summary, began, changed, latest, overlapped>>
  PROVE  ResultsCoverCandidates' /\ CountsBetween' /\ DuplicatesFromOverlap'
<1>1. ResultsCoverCandidates'
  BY DEF IInv, ResultsCoverCandidates
<1>2. CountsBetween'
  BY DEF IInv, CountsBetween
<1>3. DuplicatesFromOverlap'
  BY DEF IInv, DuplicatesFromOverlap
<1> QED
  BY <1>1, <1>2, <1>3

LEMMA AbortStep ==
  ASSUME IInv, NEW r \in Requests, InFlight(r), End(r), UNCHANGED <<election, results, history>>
  PROVE  IInv'
<1> USE DEF IInv
<1>1. UNCHANGED <<ballots, votes, opened, fresh, standing, place, changes, rows, shown, summary,
                  began, changed, latest, overlapped>>
  BY DEF election, register, results, history
<1>2. TypeOK'
  BY <1>1, EndEffect DEF TypeOK
<1>3. ResultsCoverCandidates' /\ CountsBetween' /\ DuplicatesFromOverlap'
  BY <1>1, ResultsKept
<1>4. RequestsInOrder' /\ DraftsCover' /\ DraftsPlaced' /\ DraftsOnce' /\ DraftsCount' /\ OverlapsKnown'
  <2>1. (summary # None => summary' # None) /\ (summary' # None => latest' # None)
    BY <1>1 DEF RequestsInOrder
  <2>2. UNCHANGED <<election, began, changed, overlapped>>
    BY DEF history
  <2> QED
    BY <2>1, <2>2, EndKeeps
<1>5. RowsInOrder'
  BY <1>1, DoneKeeps DEF RowsInOrder
<1>6. LocksApart' /\ FoundInOrder'
  BY <1>1, EndKeepsLocks
<1> QED
  BY <1>2, <1>3, <1>4, <1>5, <1>6

-----------------------------------------------------------------------------
(***************************************************************************)
(* tally_results.                                                          *)
(***************************************************************************)
LEMMA TallyCountBallotsStep ==
  ASSUME IInv, NEW t \in Tallies, TallyCountBallots(t)
  PROVE  IInv'
<1> USE DEF IInv
<1>1. /\ pc[t] = "start" /\ pc' = [pc EXCEPT ![t] = "find_rows"]
      /\ total' = [total EXCEPT ![t] = ballots] /\ began' = [began EXCEPT ![t] = votes]
      /\ overlapped' = overlapped \cup {{t, u} : u \in {v \in Tallies : InFlight(v)}}
      /\ UNCHANGED <<ballots, votes, opened, fresh, standing, place, changes, rows, shown, summary,
                     summary_lock, found, todo, counting, listed, draft, loaded, changed, latest>>
  BY DEF TallyCountBallots, Goto, election, register, results, work
<1>2. TypeOK'
  <2>1. overlapped' \subseteq SUBSET Tallies
    <3>1. overlapped \subseteq SUBSET Tallies
      BY Typed
    <3> QED
      BY <1>1, <3>1
  <2>2. /\ pc' \in [Requests -> Step] /\ total' \in [Requests -> 0..MaxBallots]
        /\ began' \in [Tallies -> [Candidates -> [Positions -> Nat]]]
    BY <1>1, Typed DEF Step
  <2> QED
    BY <1>1, <2>1, <2>2 DEF TypeOK
<1>3. ResultsCoverCandidates' /\ DuplicatesFromOverlap'
  BY <1>1 DEF ResultsCoverCandidates, DuplicatesFromOverlap
<1>4. \A row \in rows : row.by # t
  BY <1>1 DEF RowsInOrder
<1>5. CountsBetween'
  BY <1>1, <1>4, Typed, RowFields DEF CountsBetween
<1>6. RequestsInOrder'
  BY <1>1, Typed DEF RequestsInOrder, InFlight
<1>7. DraftsCover' /\ DraftsPlaced' /\ DraftsOnce'
  BY <1>1, Typed DEF DraftsCover, Counts, DraftsPlaced, DraftsOnce
<1>8. DraftsCount'
  <2>1. draft[t] = {}
    BY <1>1 DEF RequestsInOrder
  <2>2. \A u \in Tallies, c \in standing \cup fresh, p \in Positions : began'[u][c][p] <= votes'[c][p]
    BY <1>1, Typed DEF DraftsCount
  <2>3. \A u \in Tallies : \A row \in draft'[u] : row.cand \in standing' =>
          began'[u][row.cand][row.pos] <= row.count /\ row.count <= votes'[row.cand][row.pos]
    BY <1>1, <2>1, Typed DEF DraftsCount
  <2> QED
    BY <1>1, <2>2, <2>3 DEF DraftsCount
<1>9. RowsInOrder'
  BY <1>1, Typed, RowFields DEF RowsInOrder
<1>10. LocksApart'
  <2>1. \A q \in Requests : Locks(q)' = Locks(q)
    BY <1>1, Typed DEF Locks
  <2> QED
    BY <1>1, <2>1, Typed DEF LocksApart
<1>11. OverlapsKnown'
  BY <1>1, Typed DEF OverlapsKnown, InFlight
<1>12. FoundInOrder'
  BY <1>1, Typed DEF FoundInOrder
<1> QED
  BY <1>2, <1>3, <1>5, <1>6, <1>7, <1>8, <1>9, <1>10, <1>11, <1>12

\* A request that goes on, but not to its commit, and neither takes nor frees a
\* row nor counts a vote.
LEMMA GoOnStep ==
  ASSUME IInv, NEW r \in Requests, NEW step \in Step,
         InFlight(r) \/ r \in Publishes, pc[r] # "done", step \notin {"start", "commit"},
         Goto(r, step), UNCHANGED <<election, results, total, work, history>>,
         summary_lock' \in Requests \cup {None},
         found' \in [Requests -> SUBSET Row], loaded' \in [Requests -> Summary \cup {None}],
         \A q \in Requests : q # r => found'[q] = found[q] /\ loaded'[q] = loaded[q],
         Locks(r)' \subseteq Locks(r) \/ \A q \in Requests \ {r} : Locks(r)' \cap Locks(q) = {},
         step = "done" => found'[r] = {},
         step \notin {"count", "votes"},
         r \in Tallies /\ step # "flush" => draft[r] = {},
         r \in Tallies /\ step = "flush" => todo[r] = {} /\ pc[r] = "count",
         r \in Publishes => step # "positions" /\ (step # "done" => loaded'[r] # None),
         loaded'[r] # None => summary # None,
         r \in Tallies /\ step \notin {"find_rows", "done"} =>
           \A row \in rows \ found'[r] : row \notin found[r] /\ pc[r] \notin {"start", "find_rows"}
  PROVE  IInv'
<1> USE DEF IInv
<1>1. /\ pc' = [pc EXCEPT ![r] = step]
      /\ UNCHANGED <<ballots, votes, opened, fresh, standing, place, changes, rows, shown, summary, total,
                     todo, counting, listed, draft, began, changed, latest, overlapped>>
  BY DEF Goto, election, register, results, work, history
<1>2. TypeOK'
  <2>1. pc' \in [Requests -> Step]
    BY <1>1, Typed
  <2> QED
    BY <1>1, <2>1 DEF TypeOK
<1>3. ResultsCoverCandidates' /\ CountsBetween' /\ DuplicatesFromOverlap'
  BY <1>1, ResultsKept
<1>4. RequestsInOrder'
  <2>1. \A q \in Requests : pc'[q] \in {"start", "done"} => found'[q] = {}
    BY <1>1, Typed DEF RequestsInOrder
  <2>2. /\ \A t \in Tallies : pc'[t] \in {"start", "find_rows", "change_rows", "positions", "done"} => draft'[t] = {}
        /\ \A t \in Tallies : pc'[t] = "votes" => counting'[t] \in Positions \ todo'[t]
    BY <1>1, Typed DEF RequestsInOrder
  <2>3. \A t \in Tallies : pc'[t] \in {"flush", "commit"} => todo'[t] = {}
    BY <1>1, Typed DEF RequestsInOrder
  <2>4. \A p \in Publishes : pc'[p] \notin {"positions", "count", "votes"} /\ (InFlight(p)' => loaded'[p] # None)
    BY <1>1, Typed DEF RequestsInOrder, InFlight
  <2>5. (\A q \in Requests : loaded'[q] # None => summary' # None) /\ (summary' # None => latest' # None)
    BY <1>1 DEF RequestsInOrder
  <2> QED
    BY <2>1, <2>2, <2>3, <2>4, <2>5 DEF RequestsInOrder
<1>5. DraftsCover' /\ DraftsPlaced' /\ DraftsOnce'
  <2>1. DraftsCover'
    BY <1>1, Typed DEF DraftsCover, Counts
  <2>2. DraftsPlaced' /\ DraftsOnce'
    BY <1>1, Typed DEF DraftsPlaced, DraftsOnce
  <2> QED
    BY <2>1, <2>2
<1>6. DraftsCount'
  BY <1>1 DEF DraftsCount
<1>7. RowsInOrder'
  BY <1>1, Typed, RowFields DEF RowsInOrder
<1>8. LocksApart'
  <2>1. \A q \in Requests : q # r => Locks(q)' = Locks(q)
    BY <1>1, Typed DEF Locks
  <2>2. \A p, q \in Requests : p # q => Locks(p)' \cap Locks(q)' = {}
    BY <2>1 DEF LocksApart
  <2>3. \A p \in Publishes : pc'[p] = "commit" => found'[p] \subseteq rows'
    BY <1>1, Typed DEF LocksApart
  <2> QED
    BY <2>2, <2>3 DEF LocksApart
<1>9. OverlapsKnown'
  BY <1>1, Typed DEF OverlapsKnown, InFlight
<1>10. FoundInOrder'
  <2> SUFFICES ASSUME NEW t \in Tallies, NEW row \in rows,
                      pc'[t] \notin {"start", "find_rows", "done"}, row \notin found'[t]
               PROVE  {row.by, t} \in overlapped
    BY <1>1 DEF FoundInOrder
  <2>1. CASE t = r
    BY <1>1, <2>1, Typed DEF FoundInOrder
  <2>2. CASE t # r
    BY <1>1, <2>2, Typed DEF FoundInOrder
  <2> QED
    BY <2>1, <2>2
<1> QED
  BY <1>2, <1>3, <1>4, <1>5, <1>6, <1>7, <1>8, <1>9, <1>10

LEMMA TallyReads ==
  ASSUME IInv, NEW t \in Tallies
  PROVE  /\ TallyFindRows(t) => IInv'
         /\ TallyClear(t) => IInv'
         /\ TallyFindSummary(t) => IInv'
<1> USE DEF IInv
<1>1. t \in Requests /\ t \notin Publishes
  BY Typed
<1>2. CASE TallyFindRows(t)
  <2>1. /\ pc[t] = "find_rows" /\ Goto(t, "change_rows") /\ found' = [found EXCEPT ![t] = rows]
        /\ UNCHANGED <<election, results, summary_lock, total, work, loaded, history>>
    BY <1>2 DEF TallyFindRows
  <2>2. found' \in [Requests -> SUBSET Row] /\ found'[t] = rows /\ loaded'[t] = loaded[t]
    BY <1>1, <2>1, Typed
  <2>3. Locks(t)' = {} /\ \A q \in Requests : q # t => found'[q] = found[q] /\ loaded'[q] = loaded[q]
    BY <1>1, <2>1, Typed DEF Locks, Goto
  <2>4. draft[t] = {} /\ (loaded[t] # None => summary # None)
    BY <1>1, <2>1 DEF RequestsInOrder
  <2>5. summary_lock' \in Requests \cup {None} /\ loaded' \in [Requests -> Summary \cup {None}]
        /\ UNCHANGED <<election, results, total, work, history>>
    BY <2>1, Typed DEF TypeOK
  <2>6. InFlight(t) /\ "change_rows" \in Step
    BY <2>1 DEF InFlight, Step
  <2> QED
    BY <1>1, <2>1, <2>2, <2>3, <2>4, <2>5, <2>6, GoOnStep
<1>3. CASE TallyClear(t)
  <2>1. /\ pc[t] = "change_rows" /\ RowsFree(t) /\ Goto(t, "positions") /\ found' = [found EXCEPT ![t] = @ \cap rows]
        /\ UNCHANGED <<election, results, summary_lock, total, work, loaded, history>>
    BY <1>3 DEF TallyClear
  <2>2. found' \in [Requests -> SUBSET Row] /\ found'[t] = found[t] \cap rows /\ loaded'[t] = loaded[t]
    BY <1>1, <2>1, Typed
  <2>3. /\ \A q \in Requests \ {t} : Locks(t)' \cap Locks(q) = {}
        /\ \A q \in Requests : q # t => found'[q] = found[q] /\ loaded'[q] = loaded[q]
    <3>1. Locks(t)' = found[t] \cap rows
      BY <1>1, <2>1, <2>2, Typed DEF Locks, Goto
    <3> QED
      BY <1>1, <2>1, <3>1, Typed DEF RowsFree
  <2>4. draft[t] = {} /\ (loaded[t] # None => summary # None)
    BY <1>1, <2>1 DEF RequestsInOrder
  <2>5. summary_lock' \in Requests \cup {None} /\ loaded' \in [Requests -> Summary \cup {None}]
        /\ UNCHANGED <<election, results, total, work, history>>
    BY <2>1, Typed DEF TypeOK
  <2>6. InFlight(t) /\ "positions" \in Step
    BY <2>1 DEF InFlight, Step
  <2> QED
    BY <1>1, <2>1, <2>2, <2>3, <2>4, <2>5, <2>6, GoOnStep
<1>4. CASE TallyFindSummary(t)
  <2>1. /\ pc[t] = "count" /\ todo[t] = {} /\ Goto(t, "flush") /\ loaded' = [loaded EXCEPT ![t] = summary]
        /\ UNCHANGED <<election, results, summary_lock, total, found, work, history>>
    BY <1>4 DEF TallyFindSummary
  <2>2. loaded' \in [Requests -> Summary \cup {None}] /\ loaded'[t] = summary /\ found'[t] = found[t]
    BY <1>1, <2>1, Typed
  <2>3. /\ Locks(t)' = Locks(t)
        /\ \A q \in Requests : q # t => found'[q] = found[q] /\ loaded'[q] = loaded[q]
    BY <1>1, <2>1, Typed DEF Locks, Goto
  <2>4. summary_lock' \in Requests \cup {None} /\ found' \in [Requests -> SUBSET Row]
        /\ UNCHANGED <<election, results, total, work, history>>
    BY <2>1, Typed DEF TypeOK
  <2>5. InFlight(t) /\ "flush" \in Step
    BY <2>1 DEF InFlight, Step
  <2> QED
    BY <1>1, <2>1, <2>2, <2>3, <2>4, <2>5, GoOnStep
<1> QED
  BY <1>2, <1>3, <1>4

\* A tally reads the positions, or the candidates or the votes of one: what it
\* keeps of them is in order.
LEMMA TallyWorksStep ==
  ASSUME IInv, NEW t \in Tallies, NEW step \in Step,
         pc[t] \in {"positions", "count", "votes"}, step \in {"count", "votes"}, Goto(t, step),
         UNCHANGED <<election, results, summary_lock, total, found, loaded, history>>,
         todo' \in [Requests -> SUBSET Positions], counting' \in [Requests -> Positions \cup {None}],
         listed' \in [Requests -> SUBSET Candidates], draft' \in [Requests -> SUBSET Row],
         \A q \in Requests : q # t => /\ todo'[q] = todo[q] /\ counting'[q] = counting[q]
                                      /\ listed'[q] = listed[q] /\ draft'[q] = draft[q],
         step = "votes" => counting'[t] \in Positions \ todo'[t],
         \A c \in standing \ changed[t] : place[c] # None /\ place[c] \notin todo'[t] =>
           \/ step = "votes" /\ place[c] = counting'[t] /\ c \in listed'[t]
           \/ \E row \in draft'[t] : row.cand = c /\ row.pos = place[c],
         step = "votes" => \A c \in listed'[t] :
           c \notin fresh /\ (c \in standing \ changed[t] => place[c] = counting'[t]),
         \A row \in draft'[t] :
           /\ row.by = t /\ row.cand \notin fresh /\ row.pos \notin todo'[t]
           /\ step = "votes" => row.pos # counting'[t]
           /\ row.cand \in standing \ changed[t] => place[row.cand] = row.pos
           /\ row.cand \in standing =>
                began[t][row.cand][row.pos] <= row.count /\ row.count <= votes[row.cand][row.pos],
         \A row1, row2 \in draft'[t] : row1.cand = row2.cand /\ row1.pos = row2.pos => row1 = row2
  PROVE  IInv'
<1> USE DEF IInv
<1>1. /\ pc' = [pc EXCEPT ![t] = step] /\ t \in Requests /\ t \notin Publishes
      /\ UNCHANGED <<ballots, votes, opened, fresh, standing, place, changes, rows, shown, summary, summary_lock,
                     total, found, loaded, began, changed, latest, overlapped>>
  BY Typed DEF Goto, election, register, results, history
<1>2. TypeOK'
  <2>1. pc' \in [Requests -> Step]
    BY <1>1, Typed
  <2> QED
    BY <1>1, <2>1 DEF TypeOK
<1>3. ResultsCoverCandidates' /\ CountsBetween' /\ DuplicatesFromOverlap'
  BY <1>1, ResultsKept
<1>4. RequestsInOrder'
  BY <1>1, Typed DEF RequestsInOrder, InFlight
<1>5. DraftsCover'
  <2>1. ASSUME NEW u \in Tallies, Counts(u)', NEW c \in standing \ changed[u], place[c] # None, place[c] \notin todo'[u]
        PROVE  \/ pc'[u] = "votes" /\ place[c] = counting'[u] /\ c \in listed'[u]
               \/ \E row \in draft'[u] : row.cand = c /\ row.pos = place[c]
    <3>1. CASE u = t
      BY <1>1, <2>1, <3>1, Typed
    <3>2. CASE u # t
      <4>1. u \in Requests /\ pc'[u] = pc[u]
        BY <1>1, <3>2, Typed
      <4> QED
        BY <2>1, <3>2, <4>1 DEF DraftsCover, Counts
    <3> QED
      BY <3>1, <3>2
  <2>2. \A u \in Tallies : pc'[u] = "commit" => \A row \in draft'[u] : row.cand \in standing
    BY <1>1, Typed DEF DraftsCover
  <2> QED
    BY <1>1, <2>1, <2>2 DEF DraftsCover, Counts
<1>6. DraftsPlaced'
  BY <1>1, Typed DEF DraftsPlaced
<1>7. DraftsOnce'
  BY <1>1, Typed DEF DraftsOnce
<1>8. DraftsCount'
  BY <1>1, Typed DEF DraftsCount
<1>9. RowsInOrder'
  BY <1>1, Typed, RowFields DEF RowsInOrder
<1>10. OverlapsKnown' /\ FoundInOrder'
  <2>1. OverlapsKnown'
    BY <1>1, Typed DEF OverlapsKnown, InFlight
  <2>2. FoundInOrder'
    BY <1>1, Typed DEF FoundInOrder
  <2> QED
    BY <2>1, <2>2
<1>11. LocksApart'
  <2>1. \A q \in Requests : Locks(q)' = Locks(q)
    BY <1>1, Typed DEF Locks
  <2> QED
    BY <1>1, <2>1, Typed DEF LocksApart
<1> QED
  BY <1>2, <1>3, <1>4, <1>5, <1>6, <1>7, <1>8, <1>9, <1>10, <1>11

LEMMA TallyPositionsStep ==
  ASSUME IInv, NEW t \in Tallies, TallyPositions(t)
  PROVE  IInv'
<1> USE DEF IInv
<1>1. /\ pc[t] = "positions" /\ Goto(t, "count") /\ todo' = [todo EXCEPT ![t] = opened] /\ t \in Requests
      /\ UNCHANGED <<election, results, summary_lock, total, found, counting, listed, draft, loaded, history>>
  BY Typed DEF TallyPositions
<1>2. draft[t] = {} /\ \A c \in Candidates : place[c] \in opened \cup {None}
  BY <1>1, Typed DEF RequestsInOrder
<1>3. /\ todo' \in [Requests -> SUBSET Positions] /\ todo'[t] = opened
      /\ counting' \in [Requests -> Positions \cup {None}] /\ listed' \in [Requests -> SUBSET Candidates]
      /\ draft' \in [Requests -> SUBSET Row] /\ draft'[t] = {}
      /\ \A q \in Requests : q # t => /\ todo'[q] = todo[q] /\ counting'[q] = counting[q]
                                      /\ listed'[q] = listed[q] /\ draft'[q] = draft[q]
  BY <1>1, <1>2, Typed
<1>4. \A c \in standing \ changed[t] : place[c] # None /\ place[c] \notin todo'[t] => FALSE
  BY <1>2, <1>3, Typed
<1>5. "count" \in Step
  BY DEF Step
<1> QED
  BY <1>1, <1>3, <1>4, <1>5, TallyWorksStep

LEMMA TallyCandidatesStep ==
  ASSUME IInv, NEW t \in Tallies, NEW p \in Positions, TallyCandidates(t, p)
  PROVE  IInv'
<1> USE DEF IInv
<1>1. /\ pc[t] = "count" /\ p \in todo[t] /\ Goto(t, "votes") /\ t \in Requests
      /\ todo' = [todo EXCEPT ![t] = @ \ {p}] /\ counting' = [counting EXCEPT ![t] = p]
      /\ listed' = [listed EXCEPT ![t] = {c \in standing : place[c] = p}]
      /\ UNCHANGED <<election, results, summary_lock, total, found, draft, loaded, history>>
  BY Typed DEF TallyCandidates
<1>2. {c \in standing : place[c] = p} \subseteq Candidates
  BY Typed
<1>3. /\ todo' \in [Requests -> SUBSET Positions] /\ todo'[t] = todo[t] \ {p}
      /\ counting' \in [Requests -> Positions \cup {None}] /\ counting'[t] = p
      /\ listed' \in [Requests -> SUBSET Candidates] /\ listed'[t] = {c \in standing : place[c] = p}
      /\ draft' \in [Requests -> SUBSET Row] /\ draft'[t] = draft[t]
      /\ \A q \in Requests : q # t => /\ todo'[q] = todo[q] /\ counting'[q] = counting[q]
                                      /\ listed'[q] = listed[q] /\ draft'[q] = draft[q]
  BY <1>1, <1>2, Typed
<1>4. \A c \in standing \ changed[t] : place[c] # None /\ place[c] \notin todo'[t] =>
        \/ place[c] = counting'[t] /\ c \in listed'[t]
        \/ \E row \in draft'[t] : row.cand = c /\ row.pos = place[c]
  BY <1>1, <1>3 DEF DraftsCover, Counts
<1>5. \A c \in listed'[t] : c \notin fresh /\ (c \in standing \ changed[t] => place[c] = counting'[t])
  BY <1>3, Typed
<1>6. /\ \A row \in draft'[t] :
           /\ row.by = t /\ row.cand \notin fresh /\ row.pos \notin todo'[t] /\ row.pos # counting'[t]
           /\ row.cand \in standing \ changed[t] => place[row.cand] = row.pos
           /\ row.cand \in standing =>
                began[t][row.cand][row.pos] <= row.count /\ row.count <= votes[row.cand][row.pos]
      /\ \A row1, row2 \in draft'[t] : row1.cand = row2.cand /\ row1.pos = row2.pos => row1 = row2
  BY <1>1, <1>3 DEF DraftsPlaced, DraftsCount, DraftsOnce
<1>7. "votes" \in Step /\ counting'[t] \in Positions \ todo'[t]
  BY <1>3 DEF Step
<1> QED
  BY <1>1, <1>3, <1>4, <1>5, <1>6, <1>7, TallyWorksStep

LEMMA TallyVotesStep ==
  ASSUME IInv, NEW t \in Tallies, TallyVotes(t)
  PROVE  IInv'
<1> USE DEF IInv
<1> DEFINE p == counting[t]
           RowOf(c) == [by |-> t, pos |-> p, cand |-> c, count |-> votes[c][p]]
           new == {RowOf(c) : c \in listed[t]}
<1>1. /\ pc[t] = "votes" /\ Goto(t, "count") /\ t \in Requests /\ draft' = [draft EXCEPT ![t] = @ \cup new]
      /\ counting' = [counting EXCEPT ![t] = None] /\ listed' = [listed EXCEPT ![t] = {}]
      /\ UNCHANGED <<election, results, summary_lock, total, found, todo, loaded, history>>
  BY Typed DEF TallyVotes
<1>2. p \in Positions \ todo[t]
  BY <1>1 DEF RequestsInOrder
<1>3. /\ \A c \in listed[t] : RowOf(c) \in new /\ RowOf(c).cand = c /\ RowOf(c).pos = p
      /\ \A row \in new : \E c \in listed[t] : row = RowOf(c)
  OBVIOUS
<1>4. \A row \in new : /\ row \in Row /\ row.by = t /\ row.pos = p /\ row.cand \in listed[t]
                       /\ row.count = votes[row.cand][p] /\ row = RowOf(row.cand)
  <2> SUFFICES ASSUME NEW row \in new
               PROVE  /\ row \in Row /\ row.by = t /\ row.pos = p /\ row.cand \in listed[t]
                      /\ row.count = votes[row.cand][p] /\ row = RowOf(row.cand)
    OBVIOUS
  <2>1. PICK c \in listed[t] : row = RowOf(c)
    BY <1>3
  <2>2. c \in Candidates /\ votes[c][p] \in Nat
    BY <1>1, <1>2, Typed
  <2> QED
    BY <1>2, <2>1, <2>2 DEF Row
<1> HIDE DEF new
<1>5. \A row \in new : /\ row.cand \notin fresh /\ (row.cand \in standing \ changed[t] => place[row.cand] = p)
                       /\ row.cand \in standing => began[t][row.cand][p] <= row.count
  BY <1>1, <1>2, <1>4 DEF DraftsPlaced, DraftsCount
<1>6. \A row \in new : row.count = votes[row.cand][row.pos] /\ row.count \in Nat
  BY <1>4, Typed, RowFields
<1> HIDE DEF RowOf, p
<1>7. /\ draft' \in [Requests -> SUBSET Row] /\ draft'[t] = draft[t] \cup new
      /\ todo' \in [Requests -> SUBSET Positions] /\ todo'[t] = todo[t]
      /\ counting' \in [Requests -> Positions \cup {None}] /\ listed' \in [Requests -> SUBSET Candidates]
      /\ \A q \in Requests : q # t => /\ todo'[q] = todo[q] /\ counting'[q] = counting[q]
                                      /\ listed'[q] = listed[q] /\ draft'[q] = draft[q]
  BY <1>1, <1>4, Typed
<1>8. \A c \in standing \ changed[t] : place[c] # None /\ place[c] \notin todo'[t] =>
        \E row \in draft'[t] : row.cand = c /\ row.pos = place[c]
  <2> SUFFICES ASSUME NEW c \in standing \ changed[t], place[c] # None, place[c] \notin todo[t]
               PROVE  \E row \in draft[t] \cup new : row.cand = c /\ row.pos = place[c]
    BY <1>7
  <2>1. CASE place[c] = p /\ c \in listed[t]
    BY <1>3, <2>1
  <2>2. CASE \E row \in draft[t] : row.cand = c /\ row.pos = place[c]
    BY <2>2
  <2> QED
    BY <1>1, <2>1, <2>2 DEF DraftsCover, Counts, p
<1>9. \A row \in draft[t] : /\ row.by = t /\ row.cand \notin fresh /\ row.pos \notin todo[t] /\ row.pos # p
                            /\ row.cand \in standing \ changed[t] => place[row.cand] = row.pos
                            /\ row.cand \in standing =>
                                 began[t][row.cand][row.pos] <= row.count /\ row.count <= votes[row.cand][row.pos]
  BY <1>1 DEF DraftsPlaced, DraftsCount, p
<1>10. \A row \in draft'[t] :
         /\ row.by = t /\ row.cand \notin fresh /\ row.pos \notin todo'[t]
         /\ row.cand \in standing \ changed[t] => place[row.cand] = row.pos
         /\ row.cand \in standing =>
              began[t][row.cand][row.pos] <= row.count /\ row.count <= votes[row.cand][row.pos]
  <2>1. \A row \in new : row.count <= votes[row.cand][row.pos]
    BY <1>6
  <2> QED
    BY <1>2, <1>4, <1>5, <1>7, <1>9, <2>1
<1>11. \A row1, row2 \in draft'[t] : row1.cand = row2.cand /\ row1.pos = row2.pos => row1 = row2
  BY <1>4, <1>7, <1>9 DEF DraftsOnce
<1>12. "count" \in Step
  BY DEF Step
<1> QED
  BY <1>1, <1>7, <1>8, <1>10, <1>11, <1>12, TallyWorksStep

\* A request has flushed, or marked, all that its commit is to show.
LEMMA ReadyStep ==
  ASSUME IInv, NEW r \in Requests, InFlight(r), Goto(r, "commit"),
         UNCHANGED <<election, results, total, work, loaded, history>>,
         summary_lock' \in Requests \cup {None}, found' \in [Requests -> SUBSET Row],
         \A q \in Requests : q # r => found'[q] = found[q],
         \/ /\ r \in Tallies /\ pc[r] = "flush" /\ found' = found
            /\ \A row \in draft[r] : row.cand \in standing
         \/ /\ r \in Publishes /\ found'[r] \subseteq rows
            /\ \A q \in Requests \ {r} : found'[r] \cap Locks(q) = {}
  PROVE  IInv'
<1> USE DEF IInv
<1>1. /\ pc' = [pc EXCEPT ![r] = "commit"] /\ pc[r] \notin {"start", "done"}
      /\ UNCHANGED <<ballots, votes, opened, fresh, standing, place, changes, rows, shown, summary, total,
                     todo, counting, listed, draft, loaded, began, changed, latest, overlapped>>
      /\ r \in Tallies => r \notin Publishes /\ pc[r] = "flush"
  BY Typed DEF Goto, InFlight, election, register, results, work, history
<1>2. TypeOK'
  <2>1. pc' \in [Requests -> Step]
    BY <1>1, Typed DEF Step
  <2> QED
    BY <1>1, <2>1 DEF TypeOK
<1>3. ResultsCoverCandidates' /\ CountsBetween' /\ DuplicatesFromOverlap'
  BY <1>1, ResultsKept
<1>4. RequestsInOrder'
  BY <1>1, Typed DEF RequestsInOrder, InFlight
<1>5. DraftsCover' /\ DraftsPlaced' /\ DraftsOnce'
  <2>1. DraftsCover'
    BY <1>1, Typed DEF DraftsCover, Counts
  <2>2. DraftsPlaced' /\ DraftsOnce'
    BY <1>1, Typed DEF DraftsPlaced, DraftsOnce
  <2> QED
    BY <2>1, <2>2
<1>6. DraftsCount'
  BY <1>1 DEF DraftsCount
<1>7. RowsInOrder'
  BY <1>1, Typed, RowFields DEF RowsInOrder
<1>8. LocksApart'
  <2>1. /\ \A q \in Requests : q # r => Locks(q)' = Locks(q)
        /\ Locks(r)' = found'[r] /\ (r \in Tallies => Locks(r)' = Locks(r))
    BY <1>1, Typed DEF Locks
  <2>2. \A p, q \in Requests : p # q => Locks(p)' \cap Locks(q)' = {}
    <3>1. \A q \in Requests : q # r => Locks(r)' \cap Locks(q) = {}
      BY <1>1, <2>1 DEF LocksApart
    <3> QED
      BY <2>1, <3>1 DEF LocksApart
  <2>3. \A p \in Publishes : pc'[p] = "commit" => found'[p] \subseteq rows'
    BY <1>1, Typed DEF LocksApart
  <2> QED
    BY <2>2, <2>3 DEF LocksApart
<1>9. OverlapsKnown' /\ FoundInOrder'
  <2>1. OverlapsKnown'
    BY <1>1, Typed DEF OverlapsKnown, InFlight
  <2>2. ASSUME NEW t \in Tallies, NEW row \in rows,
               pc'[t] \notin {"start", "find_rows", "done"}, row \notin found'[t]
        PROVE  {row.by, t} \in overlapped
    <3>1. found'[t] = found[t] /\ (pc'[t] = pc[t] \/ pc[t] = "flush")
      <4>1. t \in Requests /\ t \notin Publishes
        BY Typed
      <4>2. CASE t = r
        BY <1>1, <4>1, <4>2
      <4>3. CASE t # r
        BY <1>1, <4>1, <4>3, Typed
      <4> QED
        BY <4>2, <4>3
    <3> QED
      BY <2>2, <3>1 DEF FoundInOrder
  <2>3. FoundInOrder'
    BY <1>1, <2>2 DEF FoundInOrder
  <2> QED
    BY <2>1, <2>3
<1> QED
  BY <1>2, <1>3, <1>4, <1>5, <1>6, <1>7, <1>8, <1>9

LEMMA TallyFlushStep ==
  ASSUME IInv, NEW t \in Tallies, TallyFlush(t)
  PROVE  IInv'
<1> USE DEF IInv
<1>1. /\ pc[t] = "flush" /\ t \in Requests /\ InFlight(t) /\ UNCHANGED <<election, results, history>>
      /\ \/ End(t)
         \/ /\ Goto(t, "commit") /\ UNCHANGED locals /\ summary_lock' \in Requests \cup {None}
            /\ \A row \in draft[t] : row.cand \in standing
  BY Typed DEF TallyFlush, InFlight, TypeOK
<1>2. CASE End(t)
  BY <1>1, <1>2, AbortStep
<1>3. CASE Goto(t, "commit") /\ UNCHANGED locals /\ summary_lock' \in Requests \cup {None}
           /\ \A row \in draft[t] : row.cand \in standing
  <2>1. UNCHANGED <<total, found, work, loaded>>
    BY <1>3 DEF locals
  <2>2. found' \in [Requests -> SUBSET Row]
    BY <2>1, Typed
  <2> QED
    BY <1>1, <1>3, <2>1, <2>2, ReadyStep
<1> QED
  BY <1>1, <1>2, <1>3

\* The commit of a tally: its rows take the place of those it has found.
LEMMA TallyCommitStep ==
  ASSUME IInv, NEW t \in Tallies, TallyCommit(t)
  PROVE  IInv'
<1> USE DEF IInv
<1> DEFINE written == IF loaded[t] = None
                  THEN Wanted(t)
                  ELSE [total  |-> IF loaded[t].total # total[t] THEN total[t] ELSE summary.total,
                        status |-> IF loaded[t].status # "UNDER_REVIEW"
                                     THEN "UNDER_REVIEW" ELSE summary.status]
<1>1. /\ pc[t] = "commit" /\ t \in Requests /\ t \notin Publishes /\ InFlight(t) /\ End(t)
      /\ rows' = (rows \ found[t]) \cup draft[t] /\ shown' = shown \ found[t] /\ summary' = written
      /\ latest' = t
      /\ UNCHANGED <<ballots, votes, opened, fresh, standing, place, changes, began, changed, overlapped>>
  BY Typed DEF TallyCommit, InFlight, election, register
<1>2. written \in Summary
  <2>1. CASE loaded[t] = None
    BY <1>1, <2>1, Typed DEF Wanted, Summary
  <2>2. CASE loaded[t] # None
    <3>1. summary \in Summary
      BY <1>1, <2>2, Typed DEF RequestsInOrder
    <3> QED
      BY <1>1, <2>2, <3>1, Typed DEF Summary
  <2> QED
    BY <2>1, <2>2
<1> HIDE DEF written
<1>3. /\ \A row \in draft[t] :
           /\ row.by = t /\ row.cand \in standing /\ row \in Row
           /\ row.cand \notin changed[t] => place[row.cand] = row.pos
           /\ began[t][row.cand][row.pos] <= row.count /\ row.count <= votes[row.cand][row.pos]
      /\ \A row1, row2 \in draft[t] : row1.cand = row2.cand /\ row1.pos = row2.pos => row1 = row2
      /\ \A row \in rows : row.by # t
      /\ \A c \in standing \ changed[t] : place[c] # None =>
           \E row \in draft[t] : row.cand = c /\ row.pos = place[c]
  <2>1. todo[t] = {}
    BY <1>1 DEF RequestsInOrder
  <2>2. \A row \in draft[t] :
           /\ row.by = t /\ row.cand \in standing /\ row \in Row
           /\ row.cand \notin changed[t] => place[row.cand] = row.pos
           /\ began[t][row.cand][row.pos] <= row.count /\ row.count <= votes[row.cand][row.pos]
    BY <1>1, Typed DEF DraftsCover, DraftsPlaced, DraftsCount
  <2>3. \A row1, row2 \in draft[t] : row1.cand = row2.cand /\ row1.pos = row2.pos => row1 = row2
    BY DEF DraftsOnce
  <2>4. \A row \in rows : row.by # t
    BY <1>1 DEF RowsInOrder
  <2>5. \A c \in standing \ changed[t] : place[c] # None =>
          \E row \in draft[t] : row.cand = c /\ row.pos = place[c]
    BY <1>1, <2>1 DEF DraftsCover, Counts
  <2> QED
    BY <2>2, <2>3, <2>4, <2>5
<1>4. pc' = [pc EXCEPT ![t] = "done"] /\ found' = [found EXCEPT ![t] = {}]
  BY <1>1, EndEffect
<1>5. TypeOK'
  <2>1. rows' \subseteq Row /\ shown' \subseteq rows'
    BY <1>1, <1>3, Typed
  <2>2. /\ pc' \in [Requests -> Step] /\ total' \in [Requests -> 0..MaxBallots]
        /\ found' \in [Requests -> SUBSET Row] /\ todo' \in [Requests -> SUBSET Positions]
        /\ counting' \in [Requests -> Positions \cup {None}] /\ listed' \in [Requests -> SUBSET Candidates]
        /\ draft' \in [Requests -> SUBSET Row] /\ loaded' \in [Requests -> Summary \cup {None}]
        /\ summary_lock' \in Requests \cup {None}
    BY <1>1, EndEffect
  <2>3. latest' \in Tallies
    BY <1>1
  <2> QED
    BY <1>1, <1>2, <2>1, <2>2, <2>3 DEF TypeOK
<1>6. ResultsCoverCandidates'
  <2>1. \A c \in standing \ changed[t] : place[c] # None =>
          \E row \in rows' : row.by = t /\ row.cand = c /\ row.pos = place[c]
    BY <1>1, <1>3
  <2>2. \A row \in rows' :
          row.cand \in standing /\ (row.cand \notin changed[row.by] => place[row.cand] = row.pos)
    BY <1>1, <1>3 DEF ResultsCoverCandidates
  <2> QED
    BY <1>1, <2>1, <2>2 DEF ResultsCoverCandidates
<1>7. CountsBetween'
  BY <1>1, <1>3 DEF CountsBetween
<1>8. DuplicatesFromOverlap'
  <2>1. \A row \in rows \ found[t] : {row.by, t} \in overlapped
    BY <1>1 DEF FoundInOrder
  <2>2. \A u : {u, t} = {t, u}
    OBVIOUS
  <2> SUFFICES ASSUME NEW row1 \in rows', NEW row2 \in rows', row1.cand = row2.cand, row1 # row2
               PROVE  \/ row1.by # row2.by /\ {row1.by, row2.by} \in overlapped
                      \/ row1.by = row2.by /\ row1.pos # row2.pos /\ row1.cand \in changed[row1.by]
    BY <1>1 DEF DuplicatesFromOverlap
  <2>3. CASE row1 \in rows /\ row2 \in rows
    BY <2>3 DEF DuplicatesFromOverlap
  <2>4. CASE row1 \notin rows /\ row2 \in rows
    BY <1>1, <1>3, <2>1, <2>2, <2>4
  <2>5. CASE row1 \in rows /\ row2 \notin rows
    BY <1>1, <1>3, <2>1, <2>5
  <2>6. CASE row1 \notin rows /\ row2 \notin rows
    <3>1. row1 \in draft[t] /\ row2 \in draft[t]
      BY <1>1, <2>6
    <3> QED
      BY <1>3, <3>1
  <2> QED
    BY <2>3, <2>4, <2>5, <2>6
<1>9. RequestsInOrder' /\ DraftsCover' /\ DraftsPlaced' /\ DraftsOnce' /\ DraftsCount' /\ OverlapsKnown'
  <2>1. summary' # None /\ latest' # None
    BY <1>1, <1>2, Typed DEF Requests
  <2> QED
    BY <1>1, <2>1, EndKeeps DEF election, register
<1>10. RowsInOrder'
  <2>1. \A row \in rows' : pc'[row.by] = "done"
    BY <1>1, <1>3, <1>4, Typed, RowFields DEF RowsInOrder
  <2>2. pc'[latest'] = "done"
    BY <1>1, <1>4, Typed
  <2>3. \A row1, row2 \in rows' :
          row1.by = row2.by /\ row1.cand = row2.cand /\ row1.pos = row2.pos => row1 = row2
    BY <1>1, <1>3 DEF RowsInOrder
  <2> QED
    BY <2>1, <2>2, <2>3 DEF RowsInOrder
<1>11. LocksApart'
  <2>1. \A q \in Requests : q # t => pc'[q] = pc[q] /\ found'[q] = found[q] /\ Locks(q)' = Locks(q)
    <3>1. \A q \in Requests : q # t => pc'[q] = pc[q] /\ Locks(q)' = Locks(q)
      BY <1>1, EndEffect
    <3>2. \A q \in Requests : q # t => found'[q] = found[q]
      BY <1>4, Typed
    <3> QED
      BY <3>1, <3>2
  <2>2. Locks(t)' = {} /\ Locks(t) = found[t]
    BY <1>1, EndEffect DEF Locks
  <2>3. \A p, q \in Requests : p # q => Locks(p)' \cap Locks(q)' = {}
    BY <2>1, <2>2 DEF LocksApart
  <2>4. ASSUME NEW p \in Publishes, pc'[p] = "commit" PROVE found'[p] \subseteq rows'
    <3>1. p \in Requests /\ p # t
      BY <1>1, Typed
    <3>2. pc[p] = "commit" /\ found'[p] = found[p] /\ found[p] \subseteq rows
      BY <2>1, <2>4, <3>1 DEF LocksApart
    <3>3. Locks(p) = found[p]
      BY <3>2 DEF Locks
    <3>4. found[p] \cap found[t] = {}
      BY <1>1, <2>2, <3>1, <3>3 DEF LocksApart
    <3> QED
      BY <1>1, <3>2, <3>4
  <2> QED
    BY <2>3, <2>4 DEF LocksApart
<1>12. FoundInOrder'
  <2> SUFFICES ASSUME NEW u \in Tallies, NEW row \in rows',
                      pc'[u] \notin {"start", "find_rows", "done"}, row \notin found'[u]
               PROVE  {row.by, u} \in overlapped
    BY <1>1 DEF FoundInOrder
  <2>1. u # t /\ pc'[u] = pc[u] /\ found'[u] = found[u]
    BY <1>1, <1>4, Typed
  <2>2. CASE row \in rows
    BY <2>1, <2>2 DEF FoundInOrder
  <2>3. CASE row \notin rows
    <3>1. row.by = t /\ InFlight(u)
      BY <1>1, <1>3, <2>1, <2>3 DEF InFlight
    <3> QED
      BY <1>1, <2>1, <3>1 DEF OverlapsKnown
  <2> QED
    BY <2>2, <2>3
<1> QED
  BY <1>5, <1>6, <1>7, <1>8, <1>9, <1>10, <1>11, <1>12

-----------------------------------------------------------------------------
(***************************************************************************)
(* publish_results.                                                        *)
(***************************************************************************)
LEMMA PublishReads ==
  ASSUME IInv, NEW p \in Publishes
  PROVE  /\ PublishFindSummary(p) => IInv'
         /\ PublishFlush(p) => IInv'
         /\ PublishFindRows(p) => IInv'
<1> USE DEF IInv
<1>1. p \in Requests /\ p \notin Tallies
  BY Typed
<1>2. CASE PublishFindSummary(p)
  <2> DEFINE step == IF summary = None THEN "done" ELSE "flush"
  <2>1. /\ pc[p] = "start" /\ Goto(p, step) /\ loaded' = [loaded EXCEPT ![p] = summary]
        /\ UNCHANGED <<election, results, summary_lock, total, found, work, history>>
    BY <1>2 DEF PublishFindSummary
  <2>2. loaded' \in [Requests -> Summary \cup {None}] /\ loaded'[p] = summary /\ found'[p] = {}
    BY <1>1, <2>1, Typed DEF RequestsInOrder
  <2>3. /\ Locks(p)' = {}
        /\ \A q \in Requests : q # p => found'[q] = found[q] /\ loaded'[q] = loaded[q]
    BY <1>1, <2>1, <2>2, Typed DEF Locks, Goto
  <2>4. summary_lock' \in Requests \cup {None} /\ found' \in [Requests -> SUBSET Row]
        /\ UNCHANGED <<election, results, total, work, history>>
    BY <2>1, Typed DEF TypeOK
  <2>5. step \in Step /\ step \in {"done", "flush"} /\ (step = "flush" => summary # None)
    BY DEF Step
  <2> HIDE DEF step
  <2> QED
    BY <1>1, <2>1, <2>2, <2>3, <2>4, <2>5, GoOnStep
<1>3. CASE PublishFlush(p)
  <2>1. /\ pc[p] = "flush" /\ Goto(p, "find_rows") /\ summary_lock' = p
        /\ UNCHANGED <<election, results, total, found, work, loaded, history>>
    BY <1>3 DEF PublishFlush, locals
  <2>2. loaded' \in [Requests -> Summary \cup {None}] /\ found' \in [Requests -> SUBSET Row]
        /\ \A q \in Requests : found'[q] = found[q] /\ loaded'[q] = loaded[q]
    BY <2>1, Typed
  <2>3. Locks(p)' = {}
    BY <1>1, <2>1, Typed DEF Locks, Goto
  <2>4. InFlight(p) /\ "find_rows" \in Step
    BY <2>1 DEF InFlight, Step
  <2>5. loaded[p] # None /\ summary # None
    BY <1>1, <2>4 DEF RequestsInOrder
  <2> QED
    BY <1>1, <2>1, <2>2, <2>3, <2>4, <2>5, GoOnStep
<1>4. CASE PublishFindRows(p)
  <2>1. /\ pc[p] = "find_rows" /\ Goto(p, "change_rows") /\ found' = [found EXCEPT ![p] = rows]
        /\ UNCHANGED <<election, results, summary_lock, total, work, loaded, history>>
    BY <1>4 DEF PublishFindRows
  <2>2. found' \in [Requests -> SUBSET Row] /\ loaded' \in [Requests -> Summary \cup {None}]
        /\ \A q \in Requests : q # p => found'[q] = found[q] /\ loaded'[q] = loaded[q]
        /\ UNCHANGED <<election, results, total, work, history>>
    BY <2>1, Typed
  <2>3. Locks(p)' = {} /\ summary_lock' \in Requests \cup {None}
    BY <1>1, <2>1, Typed DEF Locks, Goto, TypeOK
  <2>4. InFlight(p) /\ "change_rows" \in Step
    BY <2>1 DEF InFlight, Step
  <2>5. loaded'[p] # None /\ summary # None
    BY <1>1, <2>1, <2>4 DEF RequestsInOrder
  <2> QED
    BY <1>1, <2>1, <2>2, <2>3, <2>4, <2>5, GoOnStep
<1> QED
  BY <1>2, <1>3, <1>4

LEMMA PublishMarkStep ==
  ASSUME IInv, NEW p \in Publishes, PublishMark(p)
  PROVE  IInv'
<1>1. /\ p \in Requests /\ InFlight(p) /\ Goto(p, "commit") /\ RowsFree(p)
      /\ found' = [found EXCEPT ![p] = @ \cap rows]
      /\ UNCHANGED <<election, results, summary_lock, total, work, loaded, history>>
  BY Typed DEF PublishMark, InFlight
<1>2. /\ found' \in [Requests -> SUBSET Row] /\ found'[p] = found[p] \cap rows
      /\ \A q \in Requests : q # p => found'[q] = found[q]
  BY <1>1, Typed
<1>3. \A q \in Requests \ {p} : found'[p] \cap Locks(q) = {}
  BY <1>1, <1>2 DEF RowsFree
<1>4. summary_lock' \in Requests \cup {None}
  BY <1>1 DEF IInv, TypeOK
<1> QED
  BY <1>1, <1>2, <1>3, <1>4, ReadyStep

\* The commit of a publication, which shows the rows that it has marked.
LEMMA PublishCommitStep ==
  ASSUME IInv, NEW p \in Publishes, PublishCommit(p)
  PROVE  IInv'
<1> USE DEF IInv
<1>1. /\ pc[p] = "commit" /\ p \in Requests /\ InFlight(p) /\ End(p)
      /\ shown' = shown \cup found[p]
      /\ summary' = IF loaded[p].status = "PUBLISHED" THEN summary ELSE [summary EXCEPT !.status = "PUBLISHED"]
      /\ UNCHANGED <<ballots, votes, opened, fresh, standing, place, changes, rows, began, changed, latest, overlapped>>
  BY Typed DEF PublishCommit, InFlight, election, register, history
<1>2. summary \in Summary /\ found[p] \subseteq rows
  BY <1>1, Typed DEF RequestsInOrder, LocksApart
<1>3. [summary EXCEPT !.status = "PUBLISHED"] \in Summary
  BY <1>2 DEF Summary
<1>4. summary' \in Summary /\ summary' # None
  BY <1>1, <1>2, <1>3, Typed
<1>5. TypeOK'
  <2>1. /\ pc' \in [Requests -> Step] /\ total' \in [Requests -> 0..MaxBallots]
        /\ found' \in [Requests -> SUBSET Row] /\ todo' \in [Requests -> SUBSET Positions]
        /\ counting' \in [Requests -> Positions \cup {None}] /\ listed' \in [Requests -> SUBSET Candidates]
        /\ draft' \in [Requests -> SUBSET Row] /\ loaded' \in [Requests -> Summary \cup {None}]
        /\ summary_lock' \in Requests \cup {None}
    BY <1>1, EndEffect
  <2>2. shown' \subseteq rows
    BY <1>1, <1>2, Typed
  <2> QED
    BY <1>1, <1>4, <2>1, <2>2 DEF TypeOK
<1>6. ResultsCoverCandidates' /\ CountsBetween' /\ DuplicatesFromOverlap'
  BY <1>1, <1>2, Typed DEF ResultsCoverCandidates, CountsBetween, DuplicatesFromOverlap
<1>7. RequestsInOrder' /\ DraftsCover' /\ DraftsPlaced' /\ DraftsOnce' /\ DraftsCount' /\ OverlapsKnown'
  <2>1. summary' # None /\ latest' # None
    BY <1>1, <1>2, <1>4, Typed DEF RequestsInOrder
  <2>2. UNCHANGED <<election, began, changed, overlapped>>
    BY <1>1 DEF election, register
  <2> QED
    BY <1>1, <2>1, <2>2, EndKeeps
<1>8. RowsInOrder'
  BY <1>1, DoneKeeps DEF RowsInOrder
<1>9. LocksApart' /\ FoundInOrder'
  BY <1>1, EndKeepsLocks
<1> QED
  BY <1>5, <1>6, <1>7, <1>8, <1>9

-----------------------------------------------------------------------------
(***************************************************************************)
(* The rest of the program.                                                *)
(***************************************************************************)
LEMMA RecordBallotStep ==
  ASSUME IInv, NEW chosen \in Choices, RecordBallot(chosen)
  PROVE  IInv'
<1> USE DEF IInv
<1>1. /\ ballots < MaxBallots /\ ballots' = ballots + 1
      /\ votes' = [c \in Candidates |-> [p \in Positions |-> votes[c][p] + chosen[c][p]]]
      /\ UNCHANGED <<opened, fresh, standing, place, changes, rows, shown, summary, summary_lock, pc, total, found,
                     todo, counting, listed, draft, loaded, began, changed, latest, overlapped>>
  BY DEF RecordBallot, register, results, locals, work, history
<1>2. /\ ballots \in Nat /\ MaxBallots \in Nat /\ ballots' \in 0..MaxBallots
      /\ \A c \in Candidates, p \in Positions : votes[c][p] \in Nat
  BY <1>1, Typed
<1>3. \A c \in Candidates, p \in Positions : votes[c][p] <= votes'[c][p] /\ votes'[c][p] \in Nat
  <2>1. \A c \in Candidates, p \in Positions : chosen[c][p] \in Nat
    BY ResultAssumption
  <2> QED
    BY <1>1, <1>2, <2>1
<1>4. TypeOK'
  <2>1. votes' \in [Candidates -> [Positions -> Nat]]
    BY <1>1, <1>3
  <2> QED
    BY <1>1, <1>2, <2>1 DEF TypeOK
<1>5. CountsBetween'
  <2> SUFFICES ASSUME NEW row \in rows
               PROVE  /\ began[row.by][row.cand][row.pos] <= row.count
                      /\ row.count <= votes'[row.cand][row.pos]
    BY <1>1 DEF CountsBetween
  <2>1. row.cand \in Candidates /\ row.pos \in Positions /\ row.count \in Nat
    BY Typed, RowFields
  <2>2. votes[row.cand][row.pos] \in Nat /\ votes'[row.cand][row.pos] \in Nat
    BY <1>2, <1>3, <2>1
  <2> QED
    BY <1>3, <2>1, <2>2 DEF CountsBetween
<1>6. DraftsCount'
  <2>1. ASSUME NEW t \in Tallies, NEW c \in standing \cup fresh, NEW p \in Positions
        PROVE  began[t][c][p] <= votes'[c][p]
    <3>1. c \in Candidates /\ began[t][c][p] \in Nat
      BY Typed
    <3>2. votes[c][p] \in Nat /\ votes'[c][p] \in Nat /\ votes[c][p] <= votes'[c][p]
      BY <1>2, <1>3, <3>1
    <3>3. began[t][c][p] <= votes[c][p]
      BY DEF DraftsCount
    <3> QED
      BY <3>1, <3>2, <3>3
  <2>2. ASSUME NEW t \in Tallies, NEW row \in draft[t], row.cand \in standing
        PROVE  began[t][row.cand][row.pos] <= row.count /\ row.count <= votes'[row.cand][row.pos]
    <3>1. row.cand \in Candidates /\ row.pos \in Positions /\ row.count \in Nat
      BY Typed, RowFields
    <3>2. votes[row.cand][row.pos] \in Nat /\ votes'[row.cand][row.pos] \in Nat
      BY <1>2, <1>3, <3>1
    <3> QED
      BY <1>3, <2>2, <3>1, <3>2 DEF DraftsCount
  <2> QED
    BY <1>1, <2>1, <2>2 DEF DraftsCount
<1>7. ResultsCoverCandidates' /\ DuplicatesFromOverlap' /\ RowsInOrder' /\ OverlapsKnown'
  BY <1>1 DEF ResultsCoverCandidates, DuplicatesFromOverlap, RowsInOrder, OverlapsKnown, InFlight
<1>8. RequestsInOrder' /\ LocksApart' /\ FoundInOrder'
  BY <1>1 DEF RequestsInOrder, InFlight, LocksApart, Locks, FoundInOrder
<1>9. DraftsCover' /\ DraftsPlaced' /\ DraftsOnce'
  BY <1>1 DEF DraftsCover, Counts, DraftsPlaced, DraftsOnce
<1> QED
  BY <1>4, <1>5, <1>6, <1>7, <1>8, <1>9

LEMMA CreatePositionStep ==
  ASSUME IInv, NEW p \in Positions, CreatePosition(p)
  PROVE  IInv'
<1> USE DEF IInv
<1>1. /\ opened' = opened \cup {p}
      /\ UNCHANGED <<ballots, votes, fresh, standing, place, changes, rows, shown, summary, summary_lock, pc, total,
                     found, todo, counting, listed, draft, loaded, began, changed, latest, overlapped>>
  BY DEF CreatePosition, results, locals, work, history
<1>2. TypeOK'
  BY <1>1 DEF TypeOK
<1>3. ResultsCoverCandidates' /\ CountsBetween' /\ DuplicatesFromOverlap' /\ RowsInOrder' /\ OverlapsKnown'
  BY <1>1 DEF ResultsCoverCandidates, CountsBetween, DuplicatesFromOverlap, RowsInOrder, OverlapsKnown, InFlight
<1>4. RequestsInOrder' /\ LocksApart' /\ FoundInOrder'
  BY <1>1 DEF RequestsInOrder, InFlight, LocksApart, Locks, FoundInOrder
<1>5. DraftsCover' /\ DraftsPlaced' /\ DraftsOnce' /\ DraftsCount'
  BY <1>1 DEF DraftsCover, Counts, DraftsPlaced, DraftsOnce, DraftsCount
<1> QED
  BY <1>2, <1>3, <1>4, <1>5

\* A candidate that is created or moved is one whose position has changed since
\* any tally that has read something was asked for.
LEMMA PlaceStep ==
  ASSUME IInv, NEW c \in Candidates, NEW p \in opened \cup {None}, Change, Note(c),
         c \in standing \cup fresh, standing' = standing \cup {c}, fresh' = fresh \ {c},
         place' = [place EXCEPT ![c] = p],
         UNCHANGED <<ballots, votes, opened, results, summary_lock, pc, locals, began, latest, overlapped>>
  PROVE  IInv'
<1> USE DEF IInv
<1>1. /\ standing' = standing \cup {c} /\ fresh' = fresh \ {c} /\ place' = [place EXCEPT ![c] = p]
      /\ UNCHANGED <<ballots, votes, opened, rows, shown, summary, summary_lock, pc, total, found, todo, counting,
                     listed, draft, loaded, began, latest, overlapped>>
  BY DEF results, locals, work
<1>2. changed' = [t \in Tallies |-> IF pc[t] = "start" THEN {} ELSE changed[t] \cup {c}]
  BY DEF Note
<1>3. /\ changed' \in [Tallies -> SUBSET Candidates]
      /\ \A t \in Tallies : pc[t] # "start" => changed'[t] = changed[t] \cup {c}
      /\ \A d \in Candidates : d # c => place'[d] = place[d]
      /\ \A d \in standing' : d # c => d \in standing
  BY <1>1, <1>2, Typed
<1>4. TypeOK'
  <2>1. changes' \in 0..MaxChanges
    BY ResultAssumption DEF Change, TypeOK
  <2>2. place' \in [Candidates -> opened' \cup {None}]
    BY <1>1, Typed
  <2>3. standing' \subseteq Candidates /\ fresh' \subseteq Candidates \ standing'
    BY <1>1, Typed
  <2> QED
    BY <1>1, <1>3, <2>1, <2>2, <2>3 DEF TypeOK
<1>5. ResultsCoverCandidates'
  <2>1. ASSUME summary # None, NEW d \in standing' \ changed'[latest], place'[d] # None
        PROVE  \E row \in rows : row.by = latest /\ row.cand = d /\ row.pos = place'[d]
    <3>1. latest \in Tallies /\ pc[latest] = "done"
      <4>1. latest # None
        BY <2>1 DEF RequestsInOrder
      <4> QED
        BY <4>1, Typed DEF RowsInOrder
    <3>2. changed'[latest] = changed[latest] \cup {c}
      BY <1>3, <3>1
    <3>3. d # c /\ d \in standing \ changed[latest]
      BY <1>3, <2>1, <3>2
    <3>4. place'[d] = place[d]
      BY <1>3, <3>3, Typed
    <3> QED
      BY <2>1, <3>3, <3>4 DEF ResultsCoverCandidates
  <2>2. ASSUME NEW row \in rows
        PROVE  row.cand \in standing' /\ (row.cand \notin changed'[row.by] => place'[row.cand] = row.pos)
    <3>1. row.by \in Tallies /\ pc[row.by] = "done" /\ row.cand \in standing /\ row.cand \in Candidates
      BY Typed, RowFields DEF RowsInOrder, ResultsCoverCandidates
    <3>2. changed'[row.by] = changed[row.by] \cup {c}
      BY <1>3, <3>1
    <3> QED
      BY <1>1, <1>3, <3>1, <3>2 DEF ResultsCoverCandidates
  <2> QED
    BY <1>1, <2>1, <2>2 DEF ResultsCoverCandidates
<1>6. CountsBetween' /\ RowsInOrder' /\ OverlapsKnown'
  BY <1>1 DEF CountsBetween, RowsInOrder, OverlapsKnown, InFlight
<1>7. DuplicatesFromOverlap'
  <2>1. ASSUME NEW row \in rows PROVE changed[row.by] \subseteq changed'[row.by]
    <3>1. row.by \in Tallies /\ pc[row.by] = "done"
      BY Typed, RowFields DEF RowsInOrder
    <3> QED
      BY <1>3, <3>1
  <2> QED
    BY <1>1, <2>1 DEF DuplicatesFromOverlap
<1>8. RequestsInOrder' /\ LocksApart' /\ FoundInOrder'
  BY <1>1 DEF RequestsInOrder, InFlight, LocksApart, Locks, FoundInOrder
<1>9. DraftsCover'
  <2>1. ASSUME NEW t \in Tallies, Counts(t)', NEW d \in standing' \ changed'[t], place'[d] # None, place'[d] \notin todo[t]
        PROVE  \/ pc[t] = "votes" /\ place'[d] = counting[t] /\ d \in listed[t]
               \/ \E row \in draft[t] : row.cand = d /\ row.pos = place'[d]
    <3>1. pc[t] # "start" /\ Counts(t)
      BY <1>1, <2>1 DEF Counts
    <3>2. d # c /\ d \in standing \ changed[t] /\ place'[d] = place[d]
      BY <1>3, <2>1, <3>1, Typed
    <3> QED
      BY <2>1, <3>1, <3>2 DEF DraftsCover
  <2>2. \A t \in Tallies : pc[t] = "commit" => \A row \in draft[t] : row.cand \in standing'
    BY <1>1 DEF DraftsCover
  <2> QED
    BY <1>1, <2>1, <2>2 DEF DraftsCover, Counts
<1>10. DraftsPlaced'
  <2> SUFFICES ASSUME NEW t \in Tallies
               PROVE  /\ pc[t] = "votes" => \A d \in listed[t] :
                           d \notin fresh' /\ (d \in standing' \ changed'[t] => place'[d] = counting[t])
                      /\ \A row \in draft[t] :
                           /\ row.by = t /\ row.cand \notin fresh' /\ row.pos \notin todo[t]
                           /\ pc[t] = "votes" => row.pos # counting[t]
                           /\ row.cand \in standing' \ changed'[t] => place'[row.cand] = row.pos
    BY <1>1 DEF DraftsPlaced
  <2>1. CASE pc[t] = "start"
    BY <2>1 DEF RequestsInOrder
  <2>2. CASE pc[t] # "start"
    <3>1. changed'[t] = changed[t] \cup {c}
      BY <1>3, <2>2
    <3> QED
      BY <1>1, <1>3, <3>1, Typed DEF DraftsPlaced
  <2> QED
    BY <2>1, <2>2
<1>11. DraftsOnce'
  BY <1>1 DEF DraftsOnce
<1>12. DraftsCount'
  <2>1. standing' \cup fresh' = standing \cup fresh
    BY <1>1
  <2>2. \A t \in Tallies : \A row \in draft[t] : row.cand \in standing' =>
          began[t][row.cand][row.pos] <= row.count /\ row.count <= votes[row.cand][row.pos]
    BY <1>1 DEF DraftsCount, DraftsPlaced
  <2> QED
    BY <1>1, <2>1, <2>2 DEF DraftsCount
<1> QED
  BY <1>4, <1>5, <1>6, <1>7, <1>8, <1>9, <1>10, <1>11, <1>12

LEMMA CreateOrMoveStep ==
  ASSUME IInv, NEW c \in Candidates, NEW p \in opened \cup {None}, CreateCandidate(c, p) \/ MoveCandidate(c, p)
  PROVE  IInv'
<1>1. CASE CreateCandidate(c, p)
  BY <1>1, PlaceStep DEF CreateCandidate
<1>2. CASE MoveCandidate(c, p)
  <2>1. standing' = standing \cup {c} /\ fresh' = fresh \ {c}
    BY <1>2, Typed DEF MoveCandidate
  <2> QED
    BY <1>2, <2>1, PlaceStep DEF MoveCandidate
<1> QED
  BY <1>1, <1>2

LEMMA RemoveCandidateStep ==
  ASSUME IInv, NEW c \in Candidates, RemoveCandidate(c)
  PROVE  IInv'
<1> USE DEF IInv
<1>1. /\ c \in standing /\ standing' = standing \ {c} /\ place' = [place EXCEPT ![c] = None]
      /\ votes' = [votes EXCEPT ![c] = [p \in Positions |-> 0]]
      /\ rows' = {row \in rows : row.cand # c} /\ shown' = {row \in shown : row.cand # c}
      /\ \A r \in Requests : \A row \in Locks(r) : row.cand # c
      /\ \A t \in Tallies : pc[t] = "commit" => \A row \in draft[t] : row.cand # c
      /\ UNCHANGED <<ballots, opened, fresh, changes, summary, summary_lock, pc, total, found, todo, counting, listed,
                     draft, loaded, began, changed, latest, overlapped>>
  BY DEF RemoveCandidate, locals, work, history
<1>2. /\ votes' \in [Candidates -> [Positions -> Nat]]
      /\ \A d \in Candidates : d # c => votes'[d] = votes[d] /\ place'[d] = place[d]
  <2>1. [p \in Positions |-> 0] \in [Positions -> Nat]
    BY Typed
  <2> QED
    BY <1>1, <2>1, Typed
<1>3. TypeOK'
  <2>1. /\ rows' \subseteq Row /\ shown' \subseteq rows' /\ standing' \subseteq Candidates
        /\ fresh' \subseteq Candidates \ standing' /\ place' \in [Candidates -> opened' \cup {None}]
    BY <1>1, Typed
  <2> QED
    BY <1>1, <1>2, <2>1 DEF TypeOK
<1>4. ResultsCoverCandidates'
  <2>1. ASSUME summary # None, NEW d \in standing' \ changed[latest], place'[d] # None
        PROVE  \E row \in rows' : row.by = latest /\ row.cand = d /\ row.pos = place'[d]
    <3>1. d # c /\ d \in standing \ changed[latest] /\ place'[d] = place[d]
      BY <1>1, <1>2, <2>1, Typed
    <3>2. PICK row \in rows : row.by = latest /\ row.cand = d /\ row.pos = place[d]
      BY <2>1, <3>1 DEF ResultsCoverCandidates
    <3> QED
      BY <1>1, <3>1, <3>2
  <2>2. \A row \in rows' :
          row.cand \in standing' /\ (row.cand \notin changed[row.by] => place'[row.cand] = row.pos)
    BY <1>1, <1>2, Typed DEF ResultsCoverCandidates
  <2> QED
    BY <1>1, <2>1, <2>2 DEF ResultsCoverCandidates
<1>5. CountsBetween' /\ DuplicatesFromOverlap' /\ RowsInOrder'
  <2>1. CountsBetween'
    BY <1>1, <1>2, Typed, RowFields DEF CountsBetween
  <2>2. DuplicatesFromOverlap' /\ RowsInOrder'
    BY <1>1 DEF DuplicatesFromOverlap, RowsInOrder
  <2> QED
    BY <2>1, <2>2
<1>6. RequestsInOrder' /\ OverlapsKnown' /\ FoundInOrder'
  BY <1>1 DEF RequestsInOrder, InFlight, OverlapsKnown, FoundInOrder
<1>7. DraftsCover' /\ DraftsPlaced' /\ DraftsOnce'
  <2>1. \A d \in standing' : d # c /\ d \in standing /\ place'[d] = place[d]
    BY <1>1, <1>2, Typed
  <2>2. DraftsCover'
    BY <1>1, <2>1 DEF DraftsCover, Counts
  <2>3. DraftsPlaced' /\ DraftsOnce'
    BY <1>1, <2>1 DEF DraftsPlaced, DraftsOnce
  <2> QED
    BY <2>2, <2>3
<1>8. DraftsCount'
  <2>2. \A d \in standing' \cup fresh' : d \in (standing \cup fresh) \ {c} /\ votes'[d] = votes[d]
    BY <1>1, <1>2, Typed
  <2>3. \A t \in Tallies, d \in standing' \cup fresh', p \in Positions : began'[t][d][p] <= votes'[d][p]
    BY <1>1, <2>2 DEF DraftsCount
  <2>4. \A t \in Tallies : \A row \in draft'[t] : row.cand \in standing' =>
          began'[t][row.cand][row.pos] <= row.count /\ row.count <= votes'[row.cand][row.pos]
    BY <1>1, <2>2 DEF DraftsCount
  <2> QED
    BY <2>3, <2>4 DEF DraftsCount
<1>9. LocksApart'
  <2>1. \A q \in Requests : Locks(q)' = Locks(q)
    BY <1>1 DEF Locks
  <2>2. ASSUME NEW p \in Publishes, pc[p] = "commit" PROVE found[p] \subseteq rows'
    <3>1. Locks(p) = found[p] /\ found[p] \subseteq rows /\ p \in Requests
      BY <2>2, Typed DEF Locks, LocksApart
    <3> QED
      BY <1>1, <3>1
  <2> QED
    BY <1>1, <2>1, <2>2 DEF LocksApart
<1> QED
  BY <1>3, <1>4, <1>5, <1>6, <1>7, <1>8, <1>9

-----------------------------------------------------------------------------
LEMMA InitInv == Init => IInv
<1> SUFFICES ASSUME Init PROVE IInv
  OBVIOUS
<1>1. /\ ballots = 0 /\ votes = [c \in Candidates |-> [p \in Positions |-> 0]]
      /\ opened = Opened /\ standing = Standing /\ fresh = Candidates \ Standing /\ changes = 0
      /\ place = [c \in Candidates |-> IF c \in Standing THEN PositionOf[c] ELSE None]
      /\ rows = {} /\ shown = {} /\ summary = None /\ summary_lock = None /\ overlapped = {} /\ latest = None
      /\ pc = [r \in Requests |-> "start"] /\ total = [r \in Requests |-> 0]
      /\ found = [r \in Requests |-> {}] /\ todo = [r \in Requests |-> {}]
      /\ counting = [r \in Requests |-> None] /\ listed = [r \in Requests |-> {}]
      /\ draft = [r \in Requests |-> {}] /\ loaded = [r \in Requests |-> None]
      /\ began = [t \in Tallies |-> [c \in Candidates |-> [p \in Positions |-> 0]]]
      /\ changed = [t \in Tallies |-> {}]
  BY DEF Init
<1>2. /\ MaxBallots \in Nat /\ MaxChanges \in Nat /\ PositionOf \in [Standing -> Opened \cup {None}]
      /\ Opened \subseteq Positions /\ Standing \subseteq Candidates
      /\ Tallies \subseteq Requests /\ Publishes \subseteq Requests
  BY ResultAssumption DEF Requests
<1>3. TypeOK
  <2>1. place \in [Candidates -> opened \cup {None}]
    BY <1>1, <1>2
  <2>2. /\ votes \in [Candidates -> [Positions -> Nat]]
        /\ began \in [Tallies -> [Candidates -> [Positions -> Nat]]]
    BY <1>1, <1>2
  <2> QED
    BY <1>1, <1>2, <2>1, <2>2 DEF TypeOK, Step
<1>4. ResultsCoverCandidates /\ CountsBetween /\ DuplicatesFromOverlap
  BY <1>1 DEF ResultsCoverCandidates, CountsBetween, DuplicatesFromOverlap
<1>5. RequestsInOrder /\ DraftsCover /\ DraftsPlaced /\ DraftsOnce /\ RowsInOrder
  BY <1>1, <1>2 DEF RequestsInOrder, InFlight, DraftsCover, Counts, DraftsPlaced, DraftsOnce, RowsInOrder
<1>6. DraftsCount
  BY <1>1, <1>2 DEF DraftsCount
<1>7. LocksApart /\ OverlapsKnown /\ FoundInOrder
  BY <1>1, <1>2 DEF LocksApart, Locks, OverlapsKnown, InFlight, FoundInOrder
<1> QED
  BY <1>3, <1>4, <1>5, <1>6, <1>7 DEF IInv

\* Every step keeps the invariant.
LEMMA StepInv == IInv /\ [Next]_vars => IInv'
<1> SUFFICES ASSUME IInv, [Next]_vars PROVE IInv'
  OBVIOUS
<1>1. \A t \in Tallies : t \in Requests
  BY Typed
<1>2. ASSUME NEW t \in Tallies, TallyCountBallots(t) \/ TallyStep(t) PROVE IInv'
  BY <1>2, TallyCountBallotsStep, TallyReads, TallyPositionsStep, TallyCandidatesStep, TallyVotesStep,
     TallyFlushStep, TallyCommitStep DEF TallyStep
<1>3. ASSUME NEW p \in Publishes, PublishFindSummary(p) \/ PublishStep(p) PROVE IInv'
  BY <1>3, PublishReads, PublishMarkStep, PublishCommitStep DEF PublishStep
<1>4. ASSUME NEW chosen \in Choices, RecordBallot(chosen) PROVE IInv'
  BY <1>4, RecordBallotStep
<1>5. ASSUME NEW p \in Positions, CreatePosition(p) PROVE IInv'
  BY <1>5, CreatePositionStep
<1>6. ASSUME NEW c \in Candidates, NEW p \in opened \cup {None}, CreateCandidate(c, p) \/ MoveCandidate(c, p)
      PROVE  IInv'
  BY <1>6, CreateOrMoveStep
<1>7. ASSUME NEW c \in Candidates, RemoveCandidate(c) PROVE IInv'
  BY <1>7, RemoveCandidateStep
<1>8. ASSUME NEW r \in Requests, Abort(r) PROVE IInv'
  BY <1>8, AbortStep DEF Abort
<1>9. CASE UNCHANGED vars
  <2>1. UNCHANGED <<ballots, votes, opened, fresh, standing, place, changes, rows, shown, summary, summary_lock, pc,
                    total, found, todo, counting, listed, draft, loaded, began, changed, latest, overlapped>>
    BY <1>9 DEF vars, election, register, results, locals, work, history
  <2>2. TypeOK' /\ ResultsCoverCandidates' /\ CountsBetween' /\ DuplicatesFromOverlap'
    BY <2>1 DEF IInv, TypeOK, ResultsCoverCandidates, CountsBetween, DuplicatesFromOverlap
  <2>3. RequestsInOrder' /\ DraftsCover' /\ DraftsPlaced' /\ DraftsOnce'
    BY <2>1 DEF IInv, RequestsInOrder, InFlight, DraftsCover, Counts, DraftsPlaced, DraftsOnce
  <2>4. DraftsCount' /\ RowsInOrder' /\ LocksApart' /\ OverlapsKnown' /\ FoundInOrder'
    BY <2>1 DEF IInv, DraftsCount, RowsInOrder, LocksApart, Locks, OverlapsKnown, InFlight, FoundInOrder
  <2> QED
    BY <2>2, <2>3, <2>4 DEF IInv
<1> QED
  BY <1>2, <1>3, <1>4, <1>5, <1>6, <1>7, <1>8, <1>9 DEF Next, Done

LEMMA Invariant == Spec => []IInv
BY InitInv, StepInv, PTL DEF Spec

\* From the first tally on the results cover the candidates that kept the
\* position they had when the last tally was asked for, and have none for one
\* that is gone (tally_results, update_candidate, delete_candidate).
THEOREM ResultsStayWhole == Spec => []ResultsConsistent
<1>1. IInv => ResultsConsistent
  BY DEF IInv, ResultsConsistent
<1> QED
  BY <1>1, Invariant, PTL

\* A published count lies between the votes at the start of its tally and those
\* of now (tally_results).
THEOREM CountsTrue == Spec => []CountsBetween
<1>1. IInv => CountsBetween
  BY DEF IInv
<1> QED
  BY <1>1, Invariant, PTL

\* Two rows for one candidate come from tallies that overlapped, or from one
\* during which the candidate was moved (tally_results, update_candidate).
THEOREM DoubledOnlyByOverlap == Spec => []DuplicatesFromOverlap
<1>1. IInv => DuplicatesFromOverlap
  BY DEF IInv
<1> QED
  BY <1>1, Invariant, PTL
=============================================================================
