----------------------- MODULE ElectionLifecycleProofs -----------------------
(***************************************************************************)
(* What holds of the election lifecycle for any number of connections,     *)
(* positions and candidates.                                               *)
(***************************************************************************)
EXTENDS ElectionLifecycle, TLAPS

\* Every status a transition is allowed to is a status.
LEMMA AllowedType == \A s \in Status : Allowed[s] \subseteq Status
BY DEF Allowed, Status

LEMMA InitIInv == Init => IInv
BY NoneAssumption
DEF Init, IInv, TypeOK, NoStatusFromNowhere, ChecksStand, Status, Step, InFlight, Requests

\* One step of a request or of the rest of the program: Next with the requests
\* and their arguments named.
LEMMA NextSplit ==
  ASSUME Next, NEW ACTION P,
         \A t \in Transitions : FindPositions(t) \/ FindCandidates(t) => P,
         \A t \in Transitions, new \in Status : TransitionRead(t, new) => P,
         \A t \in Transitions : TransitionCommit(t) => P,
         \A u \in Edits : EditRead(u) \/ EditCommit(u) => P,
         \A p \in Publishes : PublishFindSummary(p) \/ PublishReadElection(p) => P,
         \A p \in Publishes : PublishFlush(p) => P,
         \A p \in Publishes : PublishCommit(p) => P,
         \A r \in Requests : Flush(r) \/ Abort(r) => P,
         (\E p \in Positions : PositionChanges(p)) => P,
         (\E c \in Candidates : CandidateChanges(c)) => P,
         Tally => P
  PROVE  P
BY DEF Next, TransitionStep, EditStep, PublishStep, Requests

\* A step that leaves the election alone leaves its history alone.
LEMMA HistoryKept ==
  ASSUME NoStatusFromNowhere, UNCHANGED election, tallied => tallied'
  PROVE  NoStatusFromNowhere'
BY DEF NoStatusFromNowhere, election

\* A new status with a visited status before it, or with a tally, keeps the
\* history sound.
LEMMA HistoryGrows ==
  ASSUME NoStatusFromNowhere, UNCHANGED tallied, NEW s, Become(s),
         (\E before \in visited : s \in Allowed[before]) \/ (s = "RESULT_PUBLISHED" /\ tallied)
  PROVE  NoStatusFromNowhere'
BY DEF NoStatusFromNowhere, Become

LEMMA NextIInv == IInv /\ [Next]_vars => IInv'
<1> SUFFICES ASSUME IInv, [Next]_vars PROVE IInv'
  OBVIOUS
<1> USE NoneAssumption, RequestsAssumption
<1>1. CASE UNCHANGED vars
  BY <1>1 DEF vars, election, checks, requests, IInv, TypeOK, NoStatusFromNowhere,
     ChecksStand, InFlight
<1>2. ASSUME NEW r \in Requests, NEW step \in Step, Advance(r, step), InFlight(r),
             UNCHANGED <<election, checks>>
      PROVE  IInv'
  <2>1. TypeOK'
    BY <1>2 DEF IInv, TypeOK, Advance, election, checks
  <2>2. ChecksStand'
    BY <1>2 DEF IInv, TypeOK, ChecksStand, Advance, InFlight, election, checks, Requests
  <2> QED
    BY <1>2, <2>1, <2>2, HistoryKept DEF IInv, checks
<1>3. ASSUME NEW r \in Requests, End(r), UNCHANGED checks,
             UNCHANGED election \/ \E s \in Status : Become(s)
      PROVE  TypeOK' /\ ChecksStand'
  <2>1. TypeOK'
    BY <1>3 DEF IInv, TypeOK, End, election, checks, Become, Step
  <2>2. ChecksStand'
    BY <1>3 DEF IInv, TypeOK, ChecksStand, End, InFlight, election, checks, Become, Requests
  <2> QED
    BY <2>1, <2>2
<1>4. ASSUME NEW t \in Transitions, FindPositions(t) \/ FindCandidates(t)
      PROVE  IInv'
  <2>1. CASE End(t)
    BY <1>3, <1>4, <2>1, HistoryKept
    DEF IInv, FindPositions, FindCandidates, checks, Requests
  <2>2. CASE \E step \in Step : Advance(t, step)
    BY <1>2, <1>4, <2>2 DEF FindPositions, FindCandidates, InFlight, Requests
  <2> QED
    BY <1>4, <2>1, <2>2 DEF FindPositions, FindCandidates, Step
<1>5. ASSUME NEW t \in Transitions, NEW new \in Status, TransitionRead(t, new)
      PROVE  IInv'
  <2>1. TypeOK'
    BY <1>5 DEF IInv, TypeOK, TransitionRead, Load, Step, election, checks, Requests
  <2>2. ChecksStand'
    BY <1>5
    DEF IInv, TypeOK, ChecksStand, TransitionRead, Load, InFlight, election, checks, Requests
  <2> QED
    BY <1>5, <2>1, <2>2, HistoryKept DEF IInv, TransitionRead, checks
<1>6. ASSUME NEW t \in Transitions, TransitionCommit(t)
      PROVE  IInv'
  <2>1. seen[t] \in visited /\ target[t] \in Allowed[seen[t]] /\ target[t] \in Status
    BY <1>6, AllowedType DEF IInv, TypeOK, ChecksStand, TransitionCommit, InFlight
  <2>2. TypeOK' /\ ChecksStand'
    BY <1>3, <1>6, <2>1 DEF TransitionCommit, Requests
  <2> QED
    BY <1>6, <2>1, <2>2, HistoryGrows DEF IInv, TransitionCommit, checks
<1>7. ASSUME NEW u \in Edits, EditRead(u) \/ EditCommit(u)
      PROVE  IInv'
  <2>1. CASE EditRead(u)
    <3>1. TypeOK'
      BY <2>1 DEF IInv, TypeOK, EditRead, Load, Step, election, checks, Requests
    <3>2. ChecksStand'
      BY <2>1
      DEF IInv, TypeOK, ChecksStand, EditRead, Load, InFlight, election, checks, Requests
    <3> QED
      BY <2>1, <3>1, <3>2, HistoryKept DEF IInv, EditRead, checks
  <2>2. CASE EditCommit(u)
    BY <1>3, <2>2, HistoryKept DEF IInv, EditCommit, checks, Requests
  <2> QED
    BY <1>7, <2>1, <2>2
<1>8. ASSUME NEW p \in Publishes, PublishFindSummary(p) \/ PublishReadElection(p)
      PROVE  IInv'
  <2>1. TypeOK'
    BY <1>8
    DEF IInv, TypeOK, PublishFindSummary, PublishReadElection, Advance, Load, Step, election,
        checks, Requests
  <2>2. ChecksStand'
    BY <1>8
    DEF IInv, TypeOK, ChecksStand, PublishFindSummary, PublishReadElection, Advance, Load,
        InFlight, election, checks, Requests
  <2> QED
    BY <1>8, <2>1, <2>2, HistoryKept DEF IInv, PublishFindSummary, PublishReadElection, checks
<1>9. ASSUME NEW r \in Requests, Flush(r) \/ Abort(r)
      PROVE  IInv'
  <2>1. CASE Flush(r)
    <3>1. TypeOK' /\ ChecksStand'
      BY <2>1 DEF IInv, TypeOK, ChecksStand, Flush, InFlight, Step, election, checks, Requests
    <3> QED
      BY <2>1, <3>1, HistoryKept DEF IInv, Flush, checks
  <2>2. CASE Abort(r)
    BY <1>3, <2>2, HistoryKept DEF IInv, Abort, checks
  <2> QED
    BY <1>9, <2>1, <2>2
<1>10. ASSUME NEW p \in Publishes, PublishFlush(p)
       PROVE  IInv'
  <2>1. CASE Flush(p)
    BY <1>9, <2>1 DEF Requests
  <2>2. CASE Advance(p, "flushed")
    BY <1>2, <1>10, <2>2 DEF PublishFlush, Flush, InFlight, Step, Requests
  <2> QED
    BY <1>10, <2>1, <2>2 DEF PublishFlush
<1>11. ASSUME NEW p \in Publishes, PublishCommit(p)
       PROVE  IInv'
  <2>1. tallied
    BY <1>11 DEF IInv, ChecksStand, PublishCommit, InFlight
  <2>2. TypeOK' /\ ChecksStand'
    BY <1>3, <1>11 DEF PublishCommit, Requests, Status
  <2>3. NoStatusFromNowhere'
    BY <1>11, <2>1, HistoryKept, HistoryGrows DEF IInv, PublishCommit, checks
  <2> QED
    BY <2>2, <2>3 DEF IInv
<1>12. ASSUME UNCHANGED <<election, requests, active>> \/ UNCHANGED <<election, requests, tallied>>,
              active' \subseteq Positions, approved' \subseteq Candidates,
              tallied' \in BOOLEAN, tallied => tallied'
       PROVE  IInv'
  <2>1. TypeOK' /\ ChecksStand'
    BY <1>12 DEF IInv, TypeOK, ChecksStand, InFlight, election, requests
  <2> QED
    BY <1>12, <2>1, HistoryKept DEF IInv
<1>13. ASSUME \E p \in Positions : PositionChanges(p) PROVE IInv'
  BY <1>12, <1>13 DEF PositionChanges, IInv, TypeOK
<1>14. ASSUME \E c \in Candidates : CandidateChanges(c) PROVE IInv'
  BY <1>12, <1>14 DEF CandidateChanges, IInv, TypeOK
<1>15. ASSUME Tally PROVE IInv'
  BY <1>12, <1>15 DEF Tally, IInv, TypeOK
<1>16. CASE Next
  BY <1>4, <1>5, <1>6, <1>7, <1>8, <1>9, <1>10, <1>11, <1>13, <1>14, <1>15, <1>16, NextSplit
<1> QED
  BY <1>1, <1>16

\* The inductive invariant holds of every run of the lifecycle.
THEOREM LifecycleInvariant == Spec => []IInv
<1>1. IInv /\ [Next]_vars => IInv'
  BY NextIInv
<1> QED
  BY <1>1, InitIInv, PTL DEF Spec

\* Every variable of the lifecycle keeps its type.
THEOREM TypeCorrect == Spec => []TypeOK
<1>1. IInv => TypeOK
  BY DEF IInv
<1> QED
  BY <1>1, LifecycleInvariant, PTL

\* However many transitions, edits and publications overlap, an election is
\* only in statuses that one of its earlier ones allows, or published from a
\* tally: transition_lifecycle and publish_results leave no other way.
THEOREM StatusEarned == Spec => []NoStatusFromNowhere
<1>1. IInv => NoStatusFromNowhere
  BY DEF IInv
<1> QED
  BY <1>1, LifecycleInvariant, PTL

\* A transition leaves the map, and an edit reaches a locked election, only
\* when another request committed a status between its check and its write.
THEOREM AstrayOnlyIfOvertaken == Spec => OnlyOvertakenGoesAstray
<1>1. ASSUME IInv, NEW t \in Transitions, TransitionCommit(t)
      PROVE  status' \in Allowed[status] \/ Overtaken(t)
  BY <1>1 DEF IInv, ChecksStand, TransitionCommit, Become, Overtaken, InFlight
<1>2. ASSUME IInv, NEW u \in Edits, EditCommit(u)
      PROVE  status \notin Locked \/ Overtaken(u)
  BY <1>2 DEF IInv, ChecksStand, EditCommit, Overtaken, InFlight
<1>3. IInv => [/\ \A t \in Transitions : TransitionCommit(t) => status' \in Allowed[status] \/ Overtaken(t)
               /\ \A u \in Edits : EditCommit(u) => status \notin Locked \/ Overtaken(u)]_vars
  BY <1>1, <1>2
<1> QED
  BY <1>3, LifecycleInvariant, PTL DEF OnlyOvertakenGoesAstray
=============================================================================
