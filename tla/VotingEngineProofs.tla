------------------------- MODULE VotingEngineProofs -------------------------
(***************************************************************************)
(* The voting engine's invariants and its refinement of the ballot box,    *)
(* for every roll and every number of concurrent requests.                 *)
(***************************************************************************)
EXTENDS VotingDay, FiniteSetTheorems, TLAPS

\* The initial states satisfy the invariant.
LEMMA InitIInv == Init => IInv
<1> SUFFICES ASSUME Init PROVE IInv
  OBVIOUS
<1>1. TypeOK
  BY RequestsAssumption DEF Init, TypeOK, VotingStatus, VoterStatus, SessionStatus, Step,
     Args, Params,
     Requests
<1>2. NoDoubleVote /\ VotedIffBallot /\ UsedIffBallot
  BY DEF Init, NoDoubleVote, VotedIffBallot, UsedIffBallot
<1>3. CheckInsConsistent
  BY DEF Init, CheckInsConsistent, CheckedIn
<1>4. CastsInOrder /\ SessionsInOrder /\ CheckInsInOrder /\ DeletesInOrder /\ LoadsInOrder
        /\ ArgsInOrder
  BY DEF Init, CastsInOrder, SessionsInOrder, CheckInsInOrder, DeletesInOrder, LoadsInOrder, ArgsInOrder,
     CastHasVoter,
     CheckedIn, Requests
<1> QED
  BY <1>1, <1>2, <1>3, <1>4 DEF IInv, Core

\* The steps of the specification, one disjunct for each action.
LEMMA NextSplit ==
  [Next]_vars =>
    \/ \E a \in Auths, e \in Elections, v \in Voters \cup {None} : AuthReadElection(a, e, v)
    \/ \E a \in Auths : AuthReadVoter(a)
    \/ \E a \in Auths : AuthCommit(a)
    \/ \E c \in Casts, s \in Auths, v \in Voters \cup {None}, e \in Elections :
         CastReadSession(c, s, v, e)
    \/ \E c \in Casts : CastLockVoter(c)
    \/ \E c \in Casts : CastRejectSelections(c)
    \/ \E c \in Casts : CastRecordBallot(c)
    \/ \E c \in Casts : CastUseSession(c)
    \/ \E c \in Casts : CastCommit(c)
    \/ \E k \in CheckIns, v \in Voters \cup {None}, e \in Elections :
         CheckInReadVoter(k, v, e)
    \/ \E k \in CheckIns : CheckInFindRow(k)
    \/ \E k \in CheckIns : CheckInFlush(k)
    \/ \E k \in CheckIns : CheckInCommit(k)
    \/ \E w \in Reviews, v \in Voters \cup {None}, new \in VoterStatus :
         ReviewReadVoter(w, v, new)
    \/ \E w \in Reviews : ReviewFlush(w)
    \/ \E w \in Reviews : ReviewCommit(w)
    \/ \E d \in Deletes, v \in Voters \cup {None} : DeleteReadVoter(d, v)
    \/ \E d \in Deletes : DeleteFlush(d)
    \/ \E d \in Deletes : DeleteCommit(d)
    \/ \E s \in Auths : Expire(s)
    \/ \E r \in Requests : Abort(r)
    \/ \E e \in Elections : ElectionChanges(e)
    \/ UNCHANGED vars
<1>1. "VERIFIED" \in VoterStatus
  BY DEF VoterStatus
<1>2. ASSUME NEW w \in Reviews, NEW v \in Voters \cup {None},
             VerifyVoter(w, v) \/ \E new \in VoterStatus : UpdateVoter(w, v, new)
      PROVE  \E new \in VoterStatus : ReviewReadVoter(w, v, new)
  <2>1. CASE VerifyVoter(w, v)
    BY <1>1, <2>1 DEF VerifyVoter
  <2>2. CASE \E new \in VoterStatus : UpdateVoter(w, v, new)
    BY <2>2 DEF UpdateVoter
  <2> QED
    BY <1>2, <2>1, <2>2
<1>3. Arrive => \/ \E a \in Auths, e \in Elections, v \in Voters \cup {None} :
                     AuthReadElection(a, e, v)
                \/ \E c \in Casts, s \in Auths, v \in Voters \cup {None}, e \in Elections :
                     CastReadSession(c, s, v, e)
                \/ \E k \in CheckIns, v \in Voters \cup {None}, e \in Elections :
                     CheckInReadVoter(k, v, e)
                \/ \E w \in Reviews, v \in Voters \cup {None}, new \in VoterStatus :
                     ReviewReadVoter(w, v, new)
                \/ \E d \in Deletes, v \in Voters \cup {None} : DeleteReadVoter(d, v)
  BY <1>2, Zenon DEF Arrive
<1>4. Serve => \/ \E a \in Auths : AuthReadVoter(a) \/ AuthCommit(a)
               \/ \E c \in Casts : \/ CastLockVoter(c) \/ CastRejectSelections(c)
                                   \/ CastRecordBallot(c) \/ CastUseSession(c) \/ CastCommit(c)
               \/ \E k \in CheckIns :
                    CheckInFindRow(k) \/ CheckInFlush(k) \/ CheckInCommit(k)
               \/ \E w \in Reviews : ReviewFlush(w) \/ ReviewCommit(w)
               \/ \E d \in Deletes : DeleteFlush(d) \/ DeleteCommit(d)
  BY Zenon DEF Serve, AuthStep, CastStep, CheckInStep, ReviewStep, DeleteStep
<1> QED
  BY <1>3, <1>4, Zenon DEF Next, Environment

\* The parameters of an arriving request have their type.
LEMMA ParamsType ==
  ASSUME arg \in [Requests -> Args], NEW r \in Requests,
         NEW v \in Voters \cup {None}, NEW e \in Elections \cup {None},
         NEW s \in Auths \cup {None}, NEW t \in VoterStatus \cup {None},
         arg' = [arg EXCEPT ![r] = Params(v, e, s, t)]
  PROVE  arg' \in [Requests -> Args]
BY DEF Args, Params

\* Every step keeps the types.
LEMMA TypeStep == Core /\ [Next]_vars => TypeOK'
<1> SUFFICES ASSUME Core, [Next]_vars PROVE TypeOK'
  OBVIOUS
<1> USE DEF Core, TypeOK, VotingStatus, VoterStatus, SessionStatus, Step, Requests,
        Advance, ReleaseLocks, Fail, tableVars, voterVars, sessionVars, lockVars,
        ArgsInOrder
<1>1. ASSUME NEW a \in Auths, NEW e \in Elections, NEW v \in Voters \cup {None},
             AuthReadElection(a, e, v)
      PROVE  TypeOK'
  <2>1. arg' \in [Requests -> Args]
    BY <1>1, ParamsType DEF AuthReadElection
  <2> QED
    BY <1>1, <2>1 DEF AuthReadElection
<1>2. ASSUME NEW a \in Auths, AuthReadVoter(a)
      PROVE  TypeOK'
  BY <1>2 DEF AuthReadVoter
<1>3. ASSUME NEW a \in Auths, AuthCommit(a)
      PROVE  TypeOK'
  BY <1>3 DEF AuthCommit
<1>4. ASSUME NEW c \in Casts, NEW s \in Auths, NEW v \in Voters \cup {None},
             NEW e \in Elections, CastReadSession(c, s, v, e)
      PROVE  TypeOK'
  <2>1. arg' \in [Requests -> Args]
    BY <1>4, ParamsType DEF CastReadSession
  <2> QED
    BY <1>4, <2>1 DEF CastReadSession
<1>5. ASSUME NEW c \in Casts, CastLockVoter(c)
      PROVE  TypeOK'
  BY <1>5 DEF CastLockVoter
<1>6. ASSUME NEW c \in Casts, CastRejectSelections(c)
      PROVE  TypeOK'
  BY <1>6 DEF CastRejectSelections
<1>7. ASSUME NEW c \in Casts, CastRecordBallot(c)
      PROVE  TypeOK'
  BY <1>7 DEF CastRecordBallot
<1>8. ASSUME NEW c \in Casts, CastUseSession(c)
      PROVE  TypeOK'
  BY <1>8 DEF CastUseSession
<1>9. ASSUME NEW c \in Casts, CastCommit(c)
      PROVE  TypeOK'
  BY <1>9 DEF CastCommit, CastsInOrder, CastHasVoter
<1>10. ASSUME NEW k \in CheckIns, NEW v \in Voters \cup {None}, NEW e \in Elections,
              CheckInReadVoter(k, v, e)
      PROVE  TypeOK'
  <2>1. arg' \in [Requests -> Args]
    BY <1>10, ParamsType DEF CheckInReadVoter
  <2> QED
    BY <1>10, <2>1 DEF CheckInReadVoter, Loaded
<1>11. ASSUME NEW k \in CheckIns, CheckInFindRow(k)
      PROVE  TypeOK'
  BY <1>11 DEF CheckInFindRow
<1>12. ASSUME NEW k \in CheckIns, CheckInFlush(k)
      PROVE  TypeOK'
  BY <1>12 DEF CheckInFlush
<1>13. ASSUME NEW k \in CheckIns, CheckInCommit(k)
      PROVE  TypeOK'
  BY <1>13 DEF CheckInCommit, CheckInsInOrder
<1>14. ASSUME NEW w \in Reviews, NEW v \in Voters \cup {None}, NEW new \in VoterStatus,
              ReviewReadVoter(w, v, new)
      PROVE  TypeOK'
  <2>1. arg' \in [Requests -> Args]
    BY <1>14, ParamsType DEF ReviewReadVoter
  <2> QED
    BY <1>14, <2>1 DEF ReviewReadVoter, Loaded
<1>15. ASSUME NEW w \in Reviews, ReviewFlush(w)
      PROVE  TypeOK'
  BY <1>15 DEF ReviewFlush
<1>16. ASSUME NEW w \in Reviews, ReviewCommit(w)
      PROVE  TypeOK'
  BY <1>16 DEF ReviewCommit
<1>17. ASSUME NEW d \in Deletes, NEW v \in Voters \cup {None}, DeleteReadVoter(d, v)
      PROVE  TypeOK'
  <2>1. arg' \in [Requests -> Args]
    BY <1>17, ParamsType DEF DeleteReadVoter
  <2> QED
    BY <1>17, <2>1 DEF DeleteReadVoter
<1>18. ASSUME NEW d \in Deletes, DeleteFlush(d)
      PROVE  TypeOK'
  BY <1>18 DEF DeleteFlush
<1>19. ASSUME NEW d \in Deletes, DeleteCommit(d)
      PROVE  TypeOK'
  BY <1>19 DEF DeleteCommit, Holds
<1>20. ASSUME NEW s \in Auths, Expire(s)
      PROVE  TypeOK'
  BY <1>20 DEF Expire
<1>21. ASSUME NEW r \in Requests, Abort(r)
      PROVE  TypeOK'
  BY <1>21 DEF Abort
<1>22. ASSUME NEW e \in Elections, ElectionChanges(e)
      PROVE  TypeOK'
  BY <1>22 DEF ElectionChanges
<1>23. CASE UNCHANGED vars
  BY <1>23 DEF vars
<1> HIDE DEF Core, TypeOK, VotingStatus, VoterStatus, SessionStatus, Step, Requests,
        Advance, ReleaseLocks, Fail, tableVars, voterVars, sessionVars, lockVars,
        ArgsInOrder
<1> QED
  BY NextSplit, <1>1, <1>2, <1>3, <1>4, <1>5, <1>6, <1>7, <1>8, <1>9, <1>10, <1>11, <1>12,
     <1>13, <1>14, <1>15, <1>16, <1>17, <1>18, <1>19, <1>20, <1>21, <1>22, <1>23

\* Every step keeps the parameters of a started request in order.
LEMMA ArgsStep == Core /\ [Next]_vars => ArgsInOrder'
<1> SUFFICES ASSUME Core, [Next]_vars PROVE ArgsInOrder'
  OBVIOUS
<1> USE RequestsAssumption, NoneAssumption DEF Core, TypeOK, Step, Args, Params, Requests,
        Advance, ReleaseLocks, Fail, tableVars, voterVars, sessionVars, lockVars,
        ArgsInOrder, InFlight, Ended
<1>1. ASSUME NEW a \in Auths, NEW e \in Elections, NEW v \in Voters \cup {None},
             AuthReadElection(a, e, v)
      PROVE  ArgsInOrder'
  BY <1>1 DEF AuthReadElection
<1>2. ASSUME NEW a \in Auths, AuthReadVoter(a)
      PROVE  ArgsInOrder'
  BY <1>2 DEF AuthReadVoter
<1>3. ASSUME NEW a \in Auths, AuthCommit(a)
      PROVE  ArgsInOrder'
  BY <1>3 DEF AuthCommit
<1>4. ASSUME NEW c \in Casts, NEW s \in Auths, NEW v \in Voters \cup {None},
             NEW e \in Elections, CastReadSession(c, s, v, e)
      PROVE  ArgsInOrder'
  BY <1>4 DEF CastReadSession
<1>5. ASSUME NEW c \in Casts, CastLockVoter(c)
      PROVE  ArgsInOrder'
  BY <1>5 DEF CastLockVoter
<1>6. ASSUME NEW c \in Casts, CastRejectSelections(c)
      PROVE  ArgsInOrder'
  BY <1>6 DEF CastRejectSelections
<1>7. ASSUME NEW c \in Casts, CastRecordBallot(c)
      PROVE  ArgsInOrder'
  BY <1>7 DEF CastRecordBallot
<1>8. ASSUME NEW c \in Casts, CastUseSession(c)
      PROVE  ArgsInOrder'
  BY <1>8 DEF CastUseSession
<1>9. ASSUME NEW c \in Casts, CastCommit(c)
      PROVE  ArgsInOrder'
  BY <1>9 DEF CastCommit
<1>10. ASSUME NEW k \in CheckIns, NEW v \in Voters \cup {None}, NEW e \in Elections,
              CheckInReadVoter(k, v, e)
      PROVE  ArgsInOrder'
  BY <1>10 DEF CheckInReadVoter
<1>11. ASSUME NEW k \in CheckIns, CheckInFindRow(k)
      PROVE  ArgsInOrder'
  BY <1>11 DEF CheckInFindRow
<1>12. ASSUME NEW k \in CheckIns, CheckInFlush(k)
      PROVE  ArgsInOrder'
  BY <1>12 DEF CheckInFlush
<1>13. ASSUME NEW k \in CheckIns, CheckInCommit(k)
      PROVE  ArgsInOrder'
  BY <1>13 DEF CheckInCommit
<1>14. ASSUME NEW w \in Reviews, NEW v \in Voters \cup {None}, NEW new \in VoterStatus,
              ReviewReadVoter(w, v, new)
      PROVE  ArgsInOrder'
  BY <1>14 DEF ReviewReadVoter
<1>15. ASSUME NEW w \in Reviews, ReviewFlush(w)
      PROVE  ArgsInOrder'
  BY <1>15 DEF ReviewFlush
<1>16. ASSUME NEW w \in Reviews, ReviewCommit(w)
      PROVE  ArgsInOrder'
  BY <1>16 DEF ReviewCommit
<1>17. ASSUME NEW d \in Deletes, NEW v \in Voters \cup {None}, DeleteReadVoter(d, v)
      PROVE  ArgsInOrder'
  BY <1>17 DEF DeleteReadVoter
<1>18. ASSUME NEW d \in Deletes, DeleteFlush(d)
      PROVE  ArgsInOrder'
  BY <1>18 DEF DeleteFlush
<1>19. ASSUME NEW d \in Deletes, DeleteCommit(d)
      PROVE  ArgsInOrder'
  BY <1>19 DEF DeleteCommit, Holds
<1>20. ASSUME NEW s \in Auths, Expire(s)
      PROVE  ArgsInOrder'
  BY <1>20 DEF Expire
<1>21. ASSUME NEW r \in Requests, Abort(r)
      PROVE  ArgsInOrder'
  BY <1>21 DEF Abort
<1>22. ASSUME NEW e \in Elections, ElectionChanges(e)
      PROVE  ArgsInOrder'
  BY <1>22 DEF ElectionChanges
<1>23. CASE UNCHANGED vars
  BY <1>23 DEF vars
<1> HIDE DEF Core, TypeOK, Step, Args, Params, Requests,
        Advance, ReleaseLocks, Fail, tableVars, voterVars, sessionVars, lockVars,
        ArgsInOrder, InFlight, Ended
<1> QED
  BY NextSplit, <1>1, <1>2, <1>3, <1>4, <1>5, <1>6, <1>7, <1>8, <1>9, <1>10, <1>11, <1>12,
     <1>13, <1>14, <1>15, <1>16, <1>17, <1>18, <1>19, <1>20, <1>21, <1>22, <1>23

\* Every step keeps the sessions in order.
LEMMA SessionsStep == Core /\ [Next]_vars => SessionsInOrder'
<1> SUFFICES ASSUME Core, [Next]_vars PROVE SessionsInOrder'
  OBVIOUS
<1> USE RequestsAssumption, NoneAssumption DEF Core, TypeOK, Step, Args, Params, Requests,
        Advance, ReleaseLocks, Fail, tableVars, voterVars, sessionVars, lockVars,
        SessionsInOrder, CastHasVoter,
        ArgsInOrder, InFlight, Ended
<1>1. ASSUME NEW a \in Auths, NEW e \in Elections, NEW v \in Voters \cup {None},
             AuthReadElection(a, e, v)
      PROVE  SessionsInOrder'
  BY <1>1 DEF AuthReadElection
<1>2. ASSUME NEW a \in Auths, AuthReadVoter(a)
      PROVE  SessionsInOrder'
  BY <1>2 DEF AuthReadVoter
<1>3. ASSUME NEW a \in Auths, AuthCommit(a)
      PROVE  SessionsInOrder'
  BY <1>3 DEF AuthCommit
<1>4. ASSUME NEW c \in Casts, NEW s \in Auths, NEW v \in Voters \cup {None},
             NEW e \in Elections, CastReadSession(c, s, v, e)
      PROVE  SessionsInOrder'
  BY <1>4 DEF CastReadSession
<1>5. ASSUME NEW c \in Casts, CastLockVoter(c)
      PROVE  SessionsInOrder'
  BY <1>5 DEF CastLockVoter
<1>6. ASSUME NEW c \in Casts, CastRejectSelections(c)
      PROVE  SessionsInOrder'
  BY <1>6 DEF CastRejectSelections
<1>7. ASSUME NEW c \in Casts, CastRecordBallot(c)
      PROVE  SessionsInOrder'
  BY <1>7 DEF CastRecordBallot
<1>8. ASSUME NEW c \in Casts, CastUseSession(c)
      PROVE  SessionsInOrder'
  BY <1>8 DEF CastUseSession
<1>9. ASSUME NEW c \in Casts, CastCommit(c)
      PROVE  SessionsInOrder'
  BY <1>9 DEF CastCommit
<1>10. ASSUME NEW k \in CheckIns, NEW v \in Voters \cup {None}, NEW e \in Elections,
              CheckInReadVoter(k, v, e)
      PROVE  SessionsInOrder'
  BY <1>10 DEF CheckInReadVoter
<1>11. ASSUME NEW k \in CheckIns, CheckInFindRow(k)
      PROVE  SessionsInOrder'
  BY <1>11 DEF CheckInFindRow
<1>12. ASSUME NEW k \in CheckIns, CheckInFlush(k)
      PROVE  SessionsInOrder'
  BY <1>12 DEF CheckInFlush
<1>13. ASSUME NEW k \in CheckIns, CheckInCommit(k)
      PROVE  SessionsInOrder'
  BY <1>13 DEF CheckInCommit
<1>14. ASSUME NEW w \in Reviews, NEW v \in Voters \cup {None}, NEW new \in VoterStatus,
              ReviewReadVoter(w, v, new)
      PROVE  SessionsInOrder'
  BY <1>14 DEF ReviewReadVoter
<1>15. ASSUME NEW w \in Reviews, ReviewFlush(w)
      PROVE  SessionsInOrder'
  BY <1>15 DEF ReviewFlush
<1>16. ASSUME NEW w \in Reviews, ReviewCommit(w)
      PROVE  SessionsInOrder'
  BY <1>16 DEF ReviewCommit
<1>17. ASSUME NEW d \in Deletes, NEW v \in Voters \cup {None}, DeleteReadVoter(d, v)
      PROVE  SessionsInOrder'
  BY <1>17 DEF DeleteReadVoter
<1>18. ASSUME NEW d \in Deletes, DeleteFlush(d)
      PROVE  SessionsInOrder'
  BY <1>18 DEF DeleteFlush
<1>19. ASSUME NEW d \in Deletes, DeleteCommit(d)
      PROVE  SessionsInOrder'
  BY <1>19 DEF DeleteCommit, Holds
<1>20. ASSUME NEW s \in Auths, Expire(s)
      PROVE  SessionsInOrder'
  BY <1>20 DEF Expire
<1>21. ASSUME NEW r \in Requests, Abort(r)
      PROVE  SessionsInOrder'
  BY <1>21 DEF Abort
<1>22. ASSUME NEW e \in Elections, ElectionChanges(e)
      PROVE  SessionsInOrder'
  BY <1>22 DEF ElectionChanges
<1>23. CASE UNCHANGED vars
  BY <1>23 DEF vars
<1> HIDE DEF Core, TypeOK, Step, Args, Params, Requests,
        Advance, ReleaseLocks, Fail, tableVars, voterVars, sessionVars, lockVars,
        SessionsInOrder, CastHasVoter,
        ArgsInOrder, InFlight, Ended
<1> QED
  BY NextSplit, <1>1, <1>2, <1>3, <1>4, <1>5, <1>6, <1>7, <1>8, <1>9, <1>10, <1>11, <1>12,
     <1>13, <1>14, <1>15, <1>16, <1>17, <1>18, <1>19, <1>20, <1>21, <1>22, <1>23

\* Every step keeps what a check-in holds.
LEMMA CheckInsStep == Core /\ [Next]_vars => CheckInsInOrder'
<1> SUFFICES ASSUME Core, [Next]_vars PROVE CheckInsInOrder'
  OBVIOUS
<1> USE RequestsAssumption, NoneAssumption DEF Core, TypeOK, Step, Args, Params, Requests,
        Advance, ReleaseLocks, Fail, tableVars, voterVars, sessionVars, lockVars,
        CheckInsInOrder, Holds, CheckedIn,
        ArgsInOrder
<1>1. ASSUME NEW a \in Auths, NEW e \in Elections, NEW v \in Voters \cup {None},
             AuthReadElection(a, e, v)
      PROVE  CheckInsInOrder'
  BY <1>1 DEF AuthReadElection
<1>2. ASSUME NEW a \in Auths, AuthReadVoter(a)
      PROVE  CheckInsInOrder'
  BY <1>2 DEF AuthReadVoter
<1>3. ASSUME NEW a \in Auths, AuthCommit(a)
      PROVE  CheckInsInOrder'
  BY <1>3 DEF AuthCommit
<1>4. ASSUME NEW c \in Casts, NEW s \in Auths, NEW v \in Voters \cup {None},
             NEW e \in Elections, CastReadSession(c, s, v, e)
      PROVE  CheckInsInOrder'
  BY <1>4 DEF CastReadSession
<1>5. ASSUME NEW c \in Casts, CastLockVoter(c)
      PROVE  CheckInsInOrder'
  BY <1>5 DEF CastLockVoter
<1>6. ASSUME NEW c \in Casts, CastRejectSelections(c)
      PROVE  CheckInsInOrder'
  BY <1>6 DEF CastRejectSelections
<1>7. ASSUME NEW c \in Casts, CastRecordBallot(c)
      PROVE  CheckInsInOrder'
  BY <1>7 DEF CastRecordBallot
<1>8. ASSUME NEW c \in Casts, CastUseSession(c)
      PROVE  CheckInsInOrder'
  BY <1>8 DEF CastUseSession
<1>9. ASSUME NEW c \in Casts, CastCommit(c)
      PROVE  CheckInsInOrder'
  BY <1>9 DEF CastCommit
<1>10. ASSUME NEW k \in CheckIns, NEW v \in Voters \cup {None}, NEW e \in Elections,
              CheckInReadVoter(k, v, e)
      PROVE  CheckInsInOrder'
  BY <1>10 DEF CheckInReadVoter
<1>11. ASSUME NEW k \in CheckIns, CheckInFindRow(k)
      PROVE  CheckInsInOrder'
  BY <1>11 DEF CheckInFindRow
<1>12. ASSUME NEW k \in CheckIns, CheckInFlush(k)
      PROVE  CheckInsInOrder'
  BY <1>12 DEF CheckInFlush
<1>13. ASSUME NEW k \in CheckIns, CheckInCommit(k)
      PROVE  CheckInsInOrder'
  BY <1>13 DEF CheckInCommit
<1>14. ASSUME NEW w \in Reviews, NEW v \in Voters \cup {None}, NEW new \in VoterStatus,
              ReviewReadVoter(w, v, new)
      PROVE  CheckInsInOrder'
  BY <1>14 DEF ReviewReadVoter
<1>15. ASSUME NEW w \in Reviews, ReviewFlush(w)
      PROVE  CheckInsInOrder'
  BY <1>15 DEF ReviewFlush
<1>16. ASSUME NEW w \in Reviews, ReviewCommit(w)
      PROVE  CheckInsInOrder'
  BY <1>16 DEF ReviewCommit
<1>17. ASSUME NEW d \in Deletes, NEW v \in Voters \cup {None}, DeleteReadVoter(d, v)
      PROVE  CheckInsInOrder'
  BY <1>17 DEF DeleteReadVoter
<1>18. ASSUME NEW d \in Deletes, DeleteFlush(d)
      PROVE  CheckInsInOrder'
  BY <1>18 DEF DeleteFlush
<1>19. ASSUME NEW d \in Deletes, DeleteCommit(d)
      PROVE  CheckInsInOrder'
  BY <1>19 DEF DeleteCommit, Holds
<1>20. ASSUME NEW s \in Auths, Expire(s)
      PROVE  CheckInsInOrder'
  BY <1>20 DEF Expire
<1>21. ASSUME NEW r \in Requests, Abort(r)
      PROVE  CheckInsInOrder'
  BY <1>21 DEF Abort
<1>22. ASSUME NEW e \in Elections, ElectionChanges(e)
      PROVE  CheckInsInOrder'
  BY <1>22 DEF ElectionChanges
<1>23. CASE UNCHANGED vars
  BY <1>23 DEF vars
<1> HIDE DEF Core, TypeOK, Step, Args, Params, Requests,
        Advance, ReleaseLocks, Fail, tableVars, voterVars, sessionVars, lockVars,
        CheckInsInOrder, Holds, CheckedIn,
        ArgsInOrder
<1> QED
  BY NextSplit, <1>1, <1>2, <1>3, <1>4, <1>5, <1>6, <1>7, <1>8, <1>9, <1>10, <1>11, <1>12,
     <1>13, <1>14, <1>15, <1>16, <1>17, <1>18, <1>19, <1>20, <1>21, <1>22, <1>23

\* Every step keeps what a cast holds.
LEMMA CastsStep == Core /\ [Next]_vars => CastsInOrder'
<1> SUFFICES ASSUME Core, [Next]_vars PROVE CastsInOrder'
  OBVIOUS
<1> USE RequestsAssumption, NoneAssumption DEF Core, TypeOK, Step, Args, Params, Requests,
        Advance, ReleaseLocks, Fail, tableVars, voterVars, sessionVars, lockVars,
        CastsInOrder, CastHasVoter, Holds,
        AlreadyVoted, ArgsInOrder, InFlight, Ended
<1>1. ASSUME NEW a \in Auths, NEW e \in Elections, NEW v \in Voters \cup {None},
             AuthReadElection(a, e, v)
      PROVE  CastsInOrder'
  BY <1>1 DEF AuthReadElection
<1>2. ASSUME NEW a \in Auths, AuthReadVoter(a)
      PROVE  CastsInOrder'
  BY <1>2 DEF AuthReadVoter
<1>3. ASSUME NEW a \in Auths, AuthCommit(a)
      PROVE  CastsInOrder'
  BY <1>3 DEF AuthCommit
<1>4. ASSUME NEW c \in Casts, NEW s \in Auths, NEW v \in Voters \cup {None},
             NEW e \in Elections, CastReadSession(c, s, v, e)
      PROVE  CastsInOrder'
  BY <1>4 DEF CastReadSession
<1>5. ASSUME NEW c \in Casts, CastLockVoter(c)
      PROVE  CastsInOrder'
  BY <1>5 DEF CastLockVoter
<1>6. ASSUME NEW c \in Casts, CastRejectSelections(c)
      PROVE  CastsInOrder'
  BY <1>6 DEF CastRejectSelections
<1>7. ASSUME NEW c \in Casts, CastRecordBallot(c)
      PROVE  CastsInOrder'
  BY <1>7 DEF CastRecordBallot
<1>8. ASSUME NEW c \in Casts, CastUseSession(c)
      PROVE  CastsInOrder'
  BY <1>8 DEF CastUseSession
<1>9. ASSUME NEW c \in Casts, CastCommit(c)
      PROVE  CastsInOrder'
  BY <1>9 DEF CastCommit
<1>10. ASSUME NEW k \in CheckIns, NEW v \in Voters \cup {None}, NEW e \in Elections,
              CheckInReadVoter(k, v, e)
      PROVE  CastsInOrder'
  BY <1>10 DEF CheckInReadVoter
<1>11. ASSUME NEW k \in CheckIns, CheckInFindRow(k)
      PROVE  CastsInOrder'
  BY <1>11 DEF CheckInFindRow
<1>12. ASSUME NEW k \in CheckIns, CheckInFlush(k)
      PROVE  CastsInOrder'
  BY <1>12 DEF CheckInFlush
<1>13. ASSUME NEW k \in CheckIns, CheckInCommit(k)
      PROVE  CastsInOrder'
  BY <1>13 DEF CheckInCommit
<1>14. ASSUME NEW w \in Reviews, NEW v \in Voters \cup {None}, NEW new \in VoterStatus,
              ReviewReadVoter(w, v, new)
      PROVE  CastsInOrder'
  BY <1>14 DEF ReviewReadVoter
<1>15. ASSUME NEW w \in Reviews, ReviewFlush(w)
      PROVE  CastsInOrder'
  BY <1>15 DEF ReviewFlush
<1>16. ASSUME NEW w \in Reviews, ReviewCommit(w)
      PROVE  CastsInOrder'
  BY <1>16 DEF ReviewCommit
<1>17. ASSUME NEW d \in Deletes, NEW v \in Voters \cup {None}, DeleteReadVoter(d, v)
      PROVE  CastsInOrder'
  BY <1>17 DEF DeleteReadVoter
<1>18. ASSUME NEW d \in Deletes, DeleteFlush(d)
      PROVE  CastsInOrder'
  BY <1>18 DEF DeleteFlush
<1>19. ASSUME NEW d \in Deletes, DeleteCommit(d)
      PROVE  CastsInOrder'
  BY <1>19 DEF DeleteCommit, Holds
<1>20. ASSUME NEW s \in Auths, Expire(s)
      PROVE  CastsInOrder'
  BY <1>20 DEF Expire
<1>21. ASSUME NEW r \in Requests, Abort(r)
      PROVE  CastsInOrder'
  BY <1>21 DEF Abort
<1>22. ASSUME NEW e \in Elections, ElectionChanges(e)
      PROVE  CastsInOrder'
  BY <1>22 DEF ElectionChanges
<1>23. CASE UNCHANGED vars
  BY <1>23 DEF vars
<1> HIDE DEF Core, TypeOK, Step, Args, Params, Requests,
        Advance, ReleaseLocks, Fail, tableVars, voterVars, sessionVars, lockVars,
        CastsInOrder, CastHasVoter, Holds,
        AlreadyVoted, ArgsInOrder, InFlight, Ended
<1> QED
  BY NextSplit, <1>1, <1>2, <1>3, <1>4, <1>5, <1>6, <1>7, <1>8, <1>9, <1>10, <1>11, <1>12,
     <1>13, <1>14, <1>15, <1>16, <1>17, <1>18, <1>19, <1>20, <1>21, <1>22, <1>23

\* The steps that change what the properties speak of: four commits.
Writes == \/ \E c \in Casts : CastCommit(c)
          \/ \E a \in Auths : AuthCommit(a)
          \/ \E k \in CheckIns : CheckInCommit(k)
          \/ \E d \in Deletes : DeleteCommit(d)
          \/ UNCHANGED <<roll, has_voted, voting_status, session_status, ballots, checkins>>

ArgsKept == \A c \in Casts : pc[c] # "new" => arg'[c] = arg[c]

\* Nothing but those commits writes, and a started cast keeps its parameters.
LEMMA QuietStep == Core /\ [Next]_vars => Writes /\ ArgsKept
<1> SUFFICES ASSUME Core, [Next]_vars PROVE Writes /\ ArgsKept
  OBVIOUS
<1> USE RequestsAssumption, NoneAssumption DEF Core, TypeOK, Writes, ArgsKept, Step, Args,
        Params, Requests,
        Advance, ReleaseLocks, Fail, tableVars, voterVars, sessionVars, lockVars
<1>1. ASSUME NEW a \in Auths, NEW e \in Elections, NEW v \in Voters \cup {None},
             AuthReadElection(a, e, v)
      PROVE  Writes /\ ArgsKept
  BY <1>1 DEF AuthReadElection
<1>2. ASSUME NEW a \in Auths, AuthReadVoter(a)
      PROVE  Writes /\ ArgsKept
  BY <1>2 DEF AuthReadVoter
<1>3. ASSUME NEW a \in Auths, AuthCommit(a)
      PROVE  Writes /\ ArgsKept
  BY <1>3 DEF AuthCommit
<1>4. ASSUME NEW c \in Casts, NEW s \in Auths, NEW v \in Voters \cup {None},
             NEW e \in Elections, CastReadSession(c, s, v, e)
      PROVE  Writes /\ ArgsKept
  BY <1>4 DEF CastReadSession
<1>5. ASSUME NEW c \in Casts, CastLockVoter(c)
      PROVE  Writes /\ ArgsKept
  BY <1>5 DEF CastLockVoter
<1>6. ASSUME NEW c \in Casts, CastRejectSelections(c)
      PROVE  Writes /\ ArgsKept
  BY <1>6 DEF CastRejectSelections
<1>7. ASSUME NEW c \in Casts, CastRecordBallot(c)
      PROVE  Writes /\ ArgsKept
  BY <1>7 DEF CastRecordBallot
<1>8. ASSUME NEW c \in Casts, CastUseSession(c)
      PROVE  Writes /\ ArgsKept
  BY <1>8 DEF CastUseSession
<1>9. ASSUME NEW c \in Casts, CastCommit(c)
      PROVE  Writes /\ ArgsKept
  BY <1>9 DEF CastCommit
<1>10. ASSUME NEW k \in CheckIns, NEW v \in Voters \cup {None}, NEW e \in Elections,
              CheckInReadVoter(k, v, e)
      PROVE  Writes /\ ArgsKept
  BY <1>10 DEF CheckInReadVoter
<1>11. ASSUME NEW k \in CheckIns, CheckInFindRow(k)
      PROVE  Writes /\ ArgsKept
  BY <1>11 DEF CheckInFindRow
<1>12. ASSUME NEW k \in CheckIns, CheckInFlush(k)
      PROVE  Writes /\ ArgsKept
  BY <1>12 DEF CheckInFlush
<1>13. ASSUME NEW k \in CheckIns, CheckInCommit(k)
      PROVE  Writes /\ ArgsKept
  BY <1>13 DEF CheckInCommit
<1>14. ASSUME NEW w \in Reviews, NEW v \in Voters \cup {None}, NEW new \in VoterStatus,
              ReviewReadVoter(w, v, new)
      PROVE  Writes /\ ArgsKept
  BY <1>14 DEF ReviewReadVoter
<1>15. ASSUME NEW w \in Reviews, ReviewFlush(w)
      PROVE  Writes /\ ArgsKept
  BY <1>15 DEF ReviewFlush
<1>16. ASSUME NEW w \in Reviews, ReviewCommit(w)
      PROVE  Writes /\ ArgsKept
  BY <1>16 DEF ReviewCommit
<1>17. ASSUME NEW d \in Deletes, NEW v \in Voters \cup {None}, DeleteReadVoter(d, v)
      PROVE  Writes /\ ArgsKept
  BY <1>17 DEF DeleteReadVoter
<1>18. ASSUME NEW d \in Deletes, DeleteFlush(d)
      PROVE  Writes /\ ArgsKept
  BY <1>18 DEF DeleteFlush
<1>19. ASSUME NEW d \in Deletes, DeleteCommit(d)
      PROVE  Writes /\ ArgsKept
  BY <1>19 DEF DeleteCommit, Holds
<1>20. ASSUME NEW s \in Auths, Expire(s)
      PROVE  Writes /\ ArgsKept
  BY <1>20 DEF Expire
<1>21. ASSUME NEW r \in Requests, Abort(r)
      PROVE  Writes /\ ArgsKept
  BY <1>21 DEF Abort
<1>22. ASSUME NEW e \in Elections, ElectionChanges(e)
      PROVE  Writes /\ ArgsKept
  BY <1>22 DEF ElectionChanges
<1>23. CASE UNCHANGED vars
  BY <1>23 DEF vars
<1> HIDE DEF Core, TypeOK, Writes, ArgsKept, Step, Args, Params, Requests,
        Advance, ReleaseLocks, Fail, tableVars, voterVars, sessionVars, lockVars
<1> QED
  BY NextSplit, <1>1, <1>2, <1>3, <1>4, <1>5, <1>6, <1>7, <1>8, <1>9, <1>10, <1>11, <1>12,
     <1>13, <1>14, <1>15, <1>16, <1>17, <1>18, <1>19, <1>20, <1>21, <1>22, <1>23

\* The ballots already in the vault keep their voter and their session.
LEMMA BallotsKept ==
  ASSUME Core, [Next]_vars, NEW b \in ballots
  PROVE  VoterOf(b)' = VoterOf(b) /\ (arg[b.serial].session)' = arg[b.serial].session
<1>1. ArgsKept
  BY QuietStep
<1>2. b.serial \in Casts /\ pc[b.serial] # "new"
  BY DEF Core, TypeOK, CastsInOrder
<1> QED
  BY <1>1, <1>2 DEF ArgsKept, VoterOf

\* What a cast's commit does, from the invariant: the voter had not voted,
\* the ballot is new, and their rows change together.
LEMMA CastCommitEffect ==
  ASSUME Core, NEW c \in Casts, CastCommit(c)
  PROVE  LET v == arg[c].voter IN
         /\ v \in roll /\ ~has_voted[v]
         /\ arg' = arg /\ checkins' = checkins /\ roll' = roll
         /\ \A b \in ballots : b.serial # c
         /\ \E b \in [serial : Casts, election : Elections] :
              b.serial = c /\ ballots' = ballots \cup {b}
         /\ has_voted' = [has_voted EXCEPT ![v] = TRUE]
         /\ voting_status' = [voting_status EXCEPT ![v] = "VOTED"]
         /\ arg[c].session \in Auths
         /\ session_status' = [session_status EXCEPT ![arg[c].session] = "USED"]
<1>1. arg[c].voter \in roll /\ ~has_voted[arg[c].voter]
  BY DEF Core, CastsInOrder, CastHasVoter, CastCommit
<1>2. \A b \in ballots : b.serial # c
  BY DEF Core, CastsInOrder, CastCommit
<1>3. arg[c].session \in Auths /\ arg[c].election \in Elections
  BY DEF Core, ArgsInOrder, CastCommit
<1> DEFINE b == [serial |-> c, election |-> arg[c].election]
<1>4. b \in [serial : Casts, election : Elections] /\ b.serial = c /\ ballots' = ballots \cup {b}
  BY <1>3 DEF CastCommit
<1> QED
  BY <1>1, <1>2, <1>3, <1>4 DEF CastCommit

\* Every step keeps what a deletion holds.
LEMMA DeletesStep == IInv /\ [Next]_vars => DeletesInOrder'
<1> SUFFICES ASSUME IInv, [Next]_vars PROVE DeletesInOrder'
  OBVIOUS
<1> USE RequestsAssumption, NoneAssumption DEF IInv, Core, TypeOK, Step, Args, Params, Requests,
        Advance, ReleaseLocks, Fail, tableVars, voterVars, sessionVars, lockVars,
        DeletesInOrder, ArgsInOrder, InFlight, Ended
<1>1. ASSUME NEW a \in Auths, NEW e \in Elections, NEW v \in Voters \cup {None},
             AuthReadElection(a, e, v)
      PROVE  DeletesInOrder'
  BY <1>1 DEF AuthReadElection
<1>2. ASSUME NEW a \in Auths, AuthReadVoter(a)
      PROVE  DeletesInOrder'
  BY <1>2 DEF AuthReadVoter
<1>3. ASSUME NEW a \in Auths, AuthCommit(a)
      PROVE  DeletesInOrder'
  BY <1>3 DEF AuthCommit
<1>4. ASSUME NEW c \in Casts, NEW s \in Auths, NEW v \in Voters \cup {None},
             NEW e \in Elections, CastReadSession(c, s, v, e)
      PROVE  DeletesInOrder'
  BY <1>4 DEF CastReadSession
<1>5. ASSUME NEW c \in Casts, CastLockVoter(c)
      PROVE  DeletesInOrder'
  BY <1>5 DEF CastLockVoter
<1>6. ASSUME NEW c \in Casts, CastRejectSelections(c)
      PROVE  DeletesInOrder'
  BY <1>6 DEF CastRejectSelections
<1>7. ASSUME NEW c \in Casts, CastRecordBallot(c)
      PROVE  DeletesInOrder'
  BY <1>7 DEF CastRecordBallot
<1>8. ASSUME NEW c \in Casts, CastUseSession(c)
      PROVE  DeletesInOrder'
  BY <1>8 DEF CastUseSession
<1>9. ASSUME NEW c \in Casts, CastCommit(c)
      PROVE  DeletesInOrder'
  BY <1>9 DEF CastCommit
<1>10. ASSUME NEW k \in CheckIns, NEW v \in Voters \cup {None}, NEW e \in Elections,
              CheckInReadVoter(k, v, e)
      PROVE  DeletesInOrder'
  BY <1>10 DEF CheckInReadVoter
<1>11. ASSUME NEW k \in CheckIns, CheckInFindRow(k)
      PROVE  DeletesInOrder'
  BY <1>11 DEF CheckInFindRow
<1>12. ASSUME NEW k \in CheckIns, CheckInFlush(k)
      PROVE  DeletesInOrder'
  BY <1>12 DEF CheckInFlush
<1>13. ASSUME NEW k \in CheckIns, CheckInCommit(k)
      PROVE  DeletesInOrder'
  BY <1>13 DEF CheckInCommit
<1>14. ASSUME NEW w \in Reviews, NEW v \in Voters \cup {None}, NEW new \in VoterStatus,
              ReviewReadVoter(w, v, new)
      PROVE  DeletesInOrder'
  BY <1>14 DEF ReviewReadVoter
<1>15. ASSUME NEW w \in Reviews, ReviewFlush(w)
      PROVE  DeletesInOrder'
  BY <1>15 DEF ReviewFlush
<1>16. ASSUME NEW w \in Reviews, ReviewCommit(w)
      PROVE  DeletesInOrder'
  BY <1>16 DEF ReviewCommit
<1>17. ASSUME NEW d \in Deletes, NEW v \in Voters \cup {None}, DeleteReadVoter(d, v)
      PROVE  DeletesInOrder'
  BY <1>17 DEF DeleteReadVoter
<1>18. ASSUME NEW d \in Deletes, DeleteFlush(d)
      PROVE  DeletesInOrder'
  BY <1>18 DEF DeleteFlush
<1>19. ASSUME NEW d \in Deletes, DeleteCommit(d)
      PROVE  DeletesInOrder'
  BY <1>19 DEF DeleteCommit, Holds
<1>20. ASSUME NEW s \in Auths, Expire(s)
      PROVE  DeletesInOrder'
  BY <1>20 DEF Expire
<1>21. ASSUME NEW r \in Requests, Abort(r)
      PROVE  DeletesInOrder'
  BY <1>21 DEF Abort
<1>22. ASSUME NEW e \in Elections, ElectionChanges(e)
      PROVE  DeletesInOrder'
  BY <1>22 DEF ElectionChanges
<1>23. CASE UNCHANGED vars
  BY <1>23 DEF vars
<1> HIDE DEF IInv, Core, TypeOK, Step, Args, Params, Requests,
        Advance, ReleaseLocks, Fail, tableVars, voterVars, sessionVars, lockVars,
        DeletesInOrder, ArgsInOrder, InFlight, Ended
<1> QED
  BY NextSplit, <1>1, <1>2, <1>3, <1>4, <1>5, <1>6, <1>7, <1>8, <1>9, <1>10, <1>11, <1>12,
     <1>13, <1>14, <1>15, <1>16, <1>17, <1>18, <1>19, <1>20, <1>21, <1>22, <1>23

\* Every step keeps what a check-in has loaded.
LEMMA LoadsStep == IInv /\ [Next]_vars => LoadsInOrder'
<1> SUFFICES ASSUME IInv, [Next]_vars PROVE LoadsInOrder'
  OBVIOUS
<1> USE RequestsAssumption, NoneAssumption DEF IInv, Core, TypeOK, Step, Args, Params, Requests,
        Advance, ReleaseLocks, Fail, tableVars, voterVars, sessionVars, lockVars,
        LoadsInOrder, CheckedIn, ArgsInOrder, InFlight, Ended
<1>1. ASSUME NEW a \in Auths, NEW e \in Elections, NEW v \in Voters \cup {None},
             AuthReadElection(a, e, v)
      PROVE  LoadsInOrder'
  BY <1>1 DEF AuthReadElection
<1>2. ASSUME NEW a \in Auths, AuthReadVoter(a)
      PROVE  LoadsInOrder'
  BY <1>2 DEF AuthReadVoter
<1>3. ASSUME NEW a \in Auths, AuthCommit(a)
      PROVE  LoadsInOrder'
  BY <1>3 DEF AuthCommit
<1>4. ASSUME NEW c \in Casts, NEW s \in Auths, NEW v \in Voters \cup {None},
             NEW e \in Elections, CastReadSession(c, s, v, e)
      PROVE  LoadsInOrder'
  BY <1>4 DEF CastReadSession
<1>5. ASSUME NEW c \in Casts, CastLockVoter(c)
      PROVE  LoadsInOrder'
  BY <1>5 DEF CastLockVoter
<1>6. ASSUME NEW c \in Casts, CastRejectSelections(c)
      PROVE  LoadsInOrder'
  BY <1>6 DEF CastRejectSelections
<1>7. ASSUME NEW c \in Casts, CastRecordBallot(c)
      PROVE  LoadsInOrder'
  BY <1>7 DEF CastRecordBallot
<1>8. ASSUME NEW c \in Casts, CastUseSession(c)
      PROVE  LoadsInOrder'
  BY <1>8 DEF CastUseSession
<1>9. ASSUME NEW c \in Casts, CastCommit(c)
      PROVE  LoadsInOrder'
  BY <1>9 DEF CastCommit
<1>10. ASSUME NEW k \in CheckIns, NEW v \in Voters \cup {None}, NEW e \in Elections,
              CheckInReadVoter(k, v, e)
      PROVE  LoadsInOrder'
  <2>1. CASE pc'[k] = "failed"
    BY <1>10, <2>1 DEF CheckInReadVoter
  <2>2. CASE pc'[k] # "failed"
    <3>1. /\ v \in roll /\ v \in Voters /\ ~AlreadyVoted(v)
          /\ pc' = [pc EXCEPT ![k] = "voter_read"] /\ arg'[k].voter = v
          /\ seen' = [seen EXCEPT ![k] = Loaded(v)] /\ UNCHANGED <<roll, checkins>>
      BY <1>10, <2>2 DEF CheckInReadVoter
    <3>2. /\ Loaded(v).voting_status # "VOTED"
          /\ Loaded(v).voting_status = "CHECKED_IN" => CheckedIn(v)
      BY <3>1 DEF AlreadyVoted, Loaded, CheckInsConsistent
    <3>3. \A q \in CheckIns : q # k => arg'[q] = arg[q]
      BY <1>10 DEF CheckInReadVoter
    <3> QED
      BY <3>1, <3>2, <3>3
  <2> QED
    BY <2>1, <2>2
<1>11. ASSUME NEW k \in CheckIns, CheckInFindRow(k)
      PROVE  LoadsInOrder'
  BY <1>11 DEF CheckInFindRow
<1>12. ASSUME NEW k \in CheckIns, CheckInFlush(k)
      PROVE  LoadsInOrder'
  BY <1>12 DEF CheckInFlush
<1>13. ASSUME NEW k \in CheckIns, CheckInCommit(k)
      PROVE  LoadsInOrder'
  BY <1>13 DEF CheckInCommit
<1>14. ASSUME NEW w \in Reviews, NEW v \in Voters \cup {None}, NEW new \in VoterStatus,
              ReviewReadVoter(w, v, new)
      PROVE  LoadsInOrder'
  BY <1>14 DEF ReviewReadVoter
<1>15. ASSUME NEW w \in Reviews, ReviewFlush(w)
      PROVE  LoadsInOrder'
  BY <1>15 DEF ReviewFlush
<1>16. ASSUME NEW w \in Reviews, ReviewCommit(w)
      PROVE  LoadsInOrder'
  BY <1>16 DEF ReviewCommit
<1>17. ASSUME NEW d \in Deletes, NEW v \in Voters \cup {None}, DeleteReadVoter(d, v)
      PROVE  LoadsInOrder'
  BY <1>17 DEF DeleteReadVoter
<1>18. ASSUME NEW d \in Deletes, DeleteFlush(d)
      PROVE  LoadsInOrder'
  BY <1>18 DEF DeleteFlush
<1>19. ASSUME NEW d \in Deletes, DeleteCommit(d)
      PROVE  LoadsInOrder'
  BY <1>19 DEF DeleteCommit, Holds
<1>20. ASSUME NEW s \in Auths, Expire(s)
      PROVE  LoadsInOrder'
  BY <1>20 DEF Expire
<1>21. ASSUME NEW r \in Requests, Abort(r)
      PROVE  LoadsInOrder'
  BY <1>21 DEF Abort
<1>22. ASSUME NEW e \in Elections, ElectionChanges(e)
      PROVE  LoadsInOrder'
  BY <1>22 DEF ElectionChanges
<1>23. CASE UNCHANGED vars
  BY <1>23 DEF vars
<1> HIDE DEF IInv, Core, TypeOK, Step, Args, Params, Requests,
        Advance, ReleaseLocks, Fail, tableVars, voterVars, sessionVars, lockVars,
        LoadsInOrder, CheckedIn, ArgsInOrder, InFlight, Ended
<1> QED
  BY NextSplit, <1>1, <1>2, <1>3, <1>4, <1>5, <1>6, <1>7, <1>8, <1>9, <1>10, <1>11, <1>12,
     <1>13, <1>14, <1>15, <1>16, <1>17, <1>18, <1>19, <1>20, <1>21, <1>22, <1>23

\* No step gives a voter a second ballot.
LEMMA NoDoubleVoteStep == IInv /\ [Next]_vars => NoDoubleVote' /\ VotedIffBallot'
<1> SUFFICES ASSUME IInv, [Next]_vars PROVE NoDoubleVote' /\ VotedIffBallot'
  OBVIOUS
<1>1. ASSUME NEW c \in Casts, CastCommit(c)
      PROVE  NoDoubleVote' /\ VotedIffBallot'
  <2> DEFINE v == arg[c].voter
  <2>1. PICK b \in [serial : Casts, election : Elections] : b.serial = c /\ ballots' = ballots \cup {b}
    BY <1>1, CastCommitEffect DEF IInv
  <2>2. /\ v \in roll /\ v \in Voters /\ ~has_voted[v] /\ arg' = arg
        /\ has_voted' = [has_voted EXCEPT ![v] = TRUE]
    BY <1>1, CastCommitEffect DEF IInv, Core, TypeOK
  <2>3. \A x \in ballots : VoterOf(x) # v
    BY <2>2 DEF IInv, Core, VotedIffBallot
  <2>4. VoterOf(b)' = v /\ \A x : VoterOf(x)' = VoterOf(x)
    BY <2>1, <2>2 DEF VoterOf
  <2>5. NoDoubleVote'
    BY <2>1, <2>3, <2>4 DEF IInv, Core, NoDoubleVote
  <2>6. VotedIffBallot'
    BY <2>1, <2>2, <2>4 DEF IInv, Core, VotedIffBallot, TypeOK
  <2> QED
    BY <2>5, <2>6
<1>2. ASSUME UNCHANGED <<has_voted, ballots>>
      PROVE  NoDoubleVote' /\ VotedIffBallot'
  BY <1>2, BallotsKept DEF IInv, Core, NoDoubleVote, VotedIffBallot
<1> QED
  BY <1>1, <1>2, QuietStep DEF IInv, Writes, AuthCommit, CheckInCommit, DeleteCommit, voterVars

\* A step uses a session exactly when it casts a ballot with it.
LEMMA UsedStep == Core /\ [Next]_vars => UsedIffBallot'
<1> SUFFICES ASSUME Core, [Next]_vars PROVE UsedIffBallot'
  OBVIOUS
<1>1. ASSUME NEW c \in Casts, CastCommit(c)
      PROVE  UsedIffBallot'
  BY <1>1, CastCommitEffect DEF Core, UsedIffBallot, TypeOK
<1>2. ASSUME NEW a \in Auths, AuthCommit(a)
      PROVE  UsedIffBallot'
  <2>1. session_status[a] = "NONE" /\ session_status' = [session_status EXCEPT ![a] = "ACTIVE"]
    BY <1>2 DEF AuthCommit, Core, SessionsInOrder
  <2>2. arg' = arg /\ ballots' = ballots
    BY <1>2 DEF AuthCommit
  <2> QED
    BY <2>1, <2>2 DEF Core, UsedIffBallot, TypeOK
<1>3. ASSUME UNCHANGED <<session_status, ballots>>
      PROVE  UsedIffBallot'
  BY <1>3, BallotsKept DEF Core, UsedIffBallot
<1> QED
  BY <1>1, <1>2, <1>3, QuietStep DEF Writes, CheckInCommit, DeleteCommit, sessionVars

\* What holds whatever becomes of the roll is kept by every step.
LEMMA CoreStep == Core /\ [Next]_vars => Core'
BY TypeStep, ArgsStep, SessionsStep, CheckInsStep, CastsStep, UsedStep DEF Core

\* A step that checks a voter in finds no row of theirs, because it holds the
\* voter's row since it looked.
LEMMA CheckInsConsistentStep == IInv /\ [Next]_vars => CheckInsConsistent'
<1> SUFFICES ASSUME IInv, [Next]_vars PROVE CheckInsConsistent'
  OBVIOUS
<1>1. ASSUME NEW c \in Casts, CastCommit(c)
      PROVE  CheckInsConsistent'
  <2>1. /\ arg[c].voter \in roll /\ checkins' = checkins /\ roll' = roll
        /\ has_voted' = [has_voted EXCEPT ![arg[c].voter] = TRUE]
        /\ voting_status' = [voting_status EXCEPT ![arg[c].voter] = "VOTED"]
    BY <1>1, CastCommitEffect DEF IInv
  <2> QED
    BY <2>1 DEF IInv, Core, CheckInsConsistent, CheckedIn, TypeOK
<1>2. ASSUME NEW k \in CheckIns, CheckInCommit(k)
      PROVE  CheckInsConsistent'
  <2>1. arg[k].voter \in roll /\ ~CheckedIn(arg[k].voter)
    BY <1>2 DEF IInv, Core, CheckInsInOrder, CheckInCommit
  <2>0. seen[k].voting_status # "CHECKED_IN"
    BY <1>2, <2>1 DEF IInv, LoadsInOrder, CheckInCommit
  <2> DEFINE v   == arg[k].voter
             row == [voter |-> v, by |-> k]
  <2>2. /\ checkins' = checkins \cup {row} /\ row.voter = v
        /\ voting_status' = [voting_status EXCEPT ![v] = "CHECKED_IN"]
        /\ has_voted' = has_voted /\ roll' = roll
    BY <1>2, <2>0 DEF CheckInCommit
  <2> HIDE DEF row
  <2>3. \A x, y \in checkins' : x.voter = y.voter => x = y
    BY <2>1, <2>2 DEF IInv, Core, CheckInsConsistent, CheckedIn
  <2>4. \A u \in Voters : CheckedIn(u)' <=> CheckedIn(u) \/ u = v
    BY <2>2 DEF CheckedIn
  <2> QED
    BY <2>1, <2>2, <2>3, <2>4 DEF IInv, Core, CheckInsConsistent, TypeOK
<1>3. ASSUME NEW d \in Deletes, DeleteCommit(d)
      PROVE  CheckInsConsistent'
  <2>1. /\ roll' = roll \ Holds(d)
        /\ checkins' = {x \in checkins : x.voter \notin Holds(d)}
        /\ UNCHANGED <<has_voted, voting_status>>
    BY <1>3 DEF DeleteCommit
  <2> QED
    BY <2>1 DEF IInv, Core, CheckInsConsistent, CheckedIn
<1>4. ASSUME UNCHANGED <<roll, has_voted, voting_status, checkins>>
      PROVE  CheckInsConsistent'
  BY <1>4 DEF IInv, Core, CheckInsConsistent, CheckedIn
<1> QED
  BY <1>1, <1>2, <1>3, <1>4, QuietStep DEF IInv, Writes, AuthCommit, voterVars

\* IInv is an invariant: in every reachable state the rows of voters,
\* sessions, ballots and check-ins agree with each other and with what the
\* requests in flight hold.
THEOREM EngineInvariant == Spec => []IInv
<1>1. IInv /\ [Next]_vars => IInv'
  BY CoreStep, DeletesStep, LoadsStep, NoDoubleVoteStep, CheckInsConsistentStep DEF IInv
<1> QED
  BY InitIInv, <1>1, PTL DEF Spec

\* Every reachable state is well typed.
THEOREM TypeCorrect == Spec => []TypeOK
<1>1. IInv => TypeOK
  BY DEF IInv, Core
<1> QED
  BY <1>1, EngineInvariant, PTL

\* For every roll and any number of concurrent, failing or repeated requests,
\* no voter has two ballots in the vault.
THEOREM OneBallotPerVoter == Spec => []NoDoubleVote
<1>1. IInv => NoDoubleVote
  BY DEF IInv, Core
<1> QED
  BY <1>1, EngineInvariant, PTL

\* The marks of the voters, the used sessions and the ballots in the vault
\* agree at every moment: cast_ballot's writes are never seen apart.
THEOREM BallotsAccounted == Spec => []BallotsAccountedFor
<1>1. IInv => BallotsAccountedFor
  BY DEF IInv, Core, BallotsAccountedFor
<1> QED
  BY <1>1, EngineInvariant, PTL

\* One check-in row for a voter, and a register that agrees with the rows.
THEOREM RegisterConsistent == Spec => []CheckInsConsistent
<1>1. IInv => CheckInsConsistent
  BY DEF IInv, Core
<1> QED
  BY <1>1, EngineInvariant, PTL

\* No step takes back a vote: neither the mark on the voter nor the ballot.
THEOREM NothingTakenBack == Spec => VotesAreFinal
<1>1. IInv /\ [Next]_vars => [/\ \A v \in Voters : has_voted[v] => has_voted'[v]
                             /\ ballots \subseteq ballots']_vars
  <2> SUFFICES ASSUME IInv, [Next]_vars
               PROVE  /\ \A v \in Voters : has_voted[v] => has_voted'[v]
                      /\ ballots \subseteq ballots'
    OBVIOUS
  <2>1. ASSUME NEW c \in Casts, CastCommit(c)
        PROVE  /\ \A v \in Voters : has_voted[v] => has_voted'[v]
               /\ ballots \subseteq ballots'
    BY <2>1, CastCommitEffect DEF IInv, Core, TypeOK
  <2>2. CASE UNCHANGED <<has_voted, ballots>>
    BY <2>2
  <2> QED
    BY <2>1, <2>2, QuietStep DEF IInv, Writes, AuthCommit, CheckInCommit, DeleteCommit, voterVars
<1> QED
  BY <1>1, EngineInvariant, PTL DEF Spec, VotesAreFinal

\* A step of the engine is a step of the ballot box or leaves it alone.
LEMMA BoxStep == IInv /\ [Next]_vars => [Box!Next]_(Box!vars)
<1> SUFFICES ASSUME IInv, [Next]_vars PROVE [Box!Next]_(Box!vars)
  OBVIOUS
<1>1. ASSUME NEW c \in Casts, CastCommit(c)
      PROVE  Box!Next
  <2> DEFINE v == arg[c].voter
  <2>1. PICK b \in [serial : Casts, election : Elections] : b.serial = c /\ ballots' = ballots \cup {b}
    BY <1>1, CastCommitEffect DEF IInv
  <2>2. /\ v \in Voters /\ ~has_voted[v] /\ \A x \in ballots : x.serial # c
        /\ has_voted' = [has_voted EXCEPT ![v] = TRUE]
    BY <1>1, CastCommitEffect DEF IInv, Core, TypeOK
  <2>3. {x.serial : x \in ballots'} = {x.serial : x \in ballots} \cup {c}
    BY <2>1
  <2>4. {u \in Voters : has_voted'[u]} = {u \in Voters : has_voted[u]} \cup {v}
    BY <2>2 DEF IInv, Core, TypeOK
  <2>5. Box!Cast(v, c)
    BY <2>2, <2>3, <2>4 DEF Box!Cast
  <2> QED
    BY <2>2, <2>5 DEF Box!Next
<1>2. CASE UNCHANGED <<has_voted, ballots>>
  BY <1>2 DEF Box!vars
<1> QED
  BY <1>1, <1>2, QuietStep DEF IInv, Writes, AuthCommit, CheckInCommit, DeleteCommit, voterVars

\* The engine is a ballot box: each commit of a cast puts one new ballot of
\* one voter who had not voted in it, and no other step touches it.
THEOREM EngineImplementsBallotBox == Spec => ImplementsBallotBox
<1>1. Init => Box!Init
  BY DEF Init, Box!Init
<1> QED
  BY <1>1, BoxStep, EngineInvariant, PTL DEF Spec, ImplementsBallotBox, Box!Spec

\* Both sets of an audit grow one element at a time from empty, so both are
\* finite, on any roll, and their sizes are numbers.
Marked == {v \in Voters : has_voted[v]}

Serials == {b.serial : b \in ballots}

CountsAgree == /\ IsFiniteSet(Marked)
               /\ IsFiniteSet(Serials)
               /\ Cardinality(Marked) = Cardinality(Serials)

\* While no voter who has voted is deleted, as many voters of the roll are
\* marked as having voted as there are ballots in the vault.
THEOREM EngineBalances == Spec => []RegisterBalances
<1>1. Init => CountsAgree
  <2> SUFFICES ASSUME Init PROVE CountsAgree
    OBVIOUS
  <2>1. Marked = {} /\ Serials = {}
    BY DEF Init, Marked, Serials
  <2> QED
    BY <2>1, FS_EmptySet DEF CountsAgree, Marked, Serials
<1>2. ASSUME CountsAgree, NEW v \in Voters, NEW c \in Casts, Box!Cast(v, c)
      PROVE  CountsAgree'
  <2>1. /\ v \notin Marked  /\ Marked'  = Marked \cup {v}
        /\ c \notin Serials /\ Serials' = Serials \cup {c}
    BY <1>2 DEF Box!Cast, Marked, Serials
  <2>2. /\ IsFiniteSet(Marked')  /\ Cardinality(Marked')  = Cardinality(Marked) + 1
        /\ IsFiniteSet(Serials') /\ Cardinality(Serials') = Cardinality(Serials) + 1
    BY <1>2, <2>1, FS_AddElement DEF CountsAgree
  <2> QED
    BY <1>2, <2>2 DEF CountsAgree, Marked, Serials
<1>3. CountsAgree /\ UNCHANGED Box!vars => CountsAgree'
  BY DEF CountsAgree, Marked, Serials, Box!vars
<1>4. CountsAgree /\ IInv /\ [Next]_vars => CountsAgree'
  BY <1>2, <1>3, BoxStep DEF Box!Next
<1>5. CountsAgree /\ IInv => RegisterBalances
  <2> SUFFICES ASSUME CountsAgree, IInv, Marked \subseteq roll
               PROVE  Cardinality({v \in roll : has_voted[v]}) = Cardinality(Serials)
    BY DEF RegisterBalances, Marked, Serials
  <2>1. {v \in roll : has_voted[v]} = Marked
    BY DEF IInv, Core, TypeOK, Marked
  <2> QED
    BY <2>1 DEF CountsAgree
<1> QED
  BY <1>1, <1>4, <1>5, EngineInvariant, PTL DEF Spec

-----------------------------------------------------------------------------
(***************************************************************************)
(* The voting day: the same engine on a roll that voters leave and enter.  *)
(***************************************************************************)
\* An enrolment finds no request that holds the number's row, so it disturbs
\* nothing that holds on any roll.
LEMMA EnrolKeepsCore ==
  ASSUME Core, NEW v \in Voters, NEW t \in VoterStatus, Enrol(v, t)
  PROVE  Core'
<1>1. /\ v \notin roll /\ roll' = roll \cup {v}
      /\ has_voted' = [has_voted EXCEPT ![v] = FALSE]
      /\ voting_status' = [voting_status EXCEPT ![v] = "NOT_VOTED"]
      /\ status' = [status EXCEPT ![v] = t]
  BY DEF Enrol
<1>2. UNCHANGED <<live, session_status, expired, ballots, checkins, voter_lock, session_lock,
                  pc, arg, seen>>
  BY DEF Enrol, sessionVars, lockVars
<1>3. TypeOK'
  BY <1>1, <1>2 DEF Core, TypeOK, VotingStatus
<1>4. CastsInOrder'
  BY <1>1, <1>2 DEF Core, TypeOK, CastsInOrder, CastHasVoter
<1>5. CheckInsInOrder'
  BY <1>1, <1>2 DEF Core, CheckInsInOrder, CheckedIn
<1>6. UsedIffBallot' /\ SessionsInOrder' /\ ArgsInOrder'
  BY <1>2 DEF Core, UsedIffBallot, SessionsInOrder, CastHasVoter, ArgsInOrder
<1> QED
  BY <1>3, <1>4, <1>5, <1>6 DEF Core

\* An enrolment adds a voter of whom nothing is current.
LEMMA EnrolKeepsDay ==
  ASSUME DayInv, NEW v \in Voters, NEW t \in VoterStatus, Enrol(v, t),
         outdated' = outdated \cup {b.serial : b \in {x \in ballots : VoterOf(x) \in roll \ roll'}}
  PROVE  DayInv'
<1>1. Core'
  BY EnrolKeepsCore DEF DayInv
<1>2. /\ v \notin roll /\ roll' = roll \cup {v}
      /\ has_voted' = [has_voted EXCEPT ![v] = FALSE] /\ UNCHANGED <<ballots, arg>>
  BY DEF Enrol
<1>3. outdated' = outdated
  BY <1>2
<1>4. Current' = Current /\ \A b : VoterOf(b)' = VoterOf(b)
  BY <1>2, <1>3 DEF Current, VoterOf
<1>5. MarkOfEnrolment'
  BY <1>2, <1>4 DEF DayInv, Core, TypeOK, MarkOfEnrolment
<1>6. OneBallotPerEnrolment'
  BY <1>4 DEF DayInv, OneBallotPerEnrolment
<1> QED
  BY <1>1, <1>2, <1>3, <1>4, <1>5, <1>6 DEF DayInv

\* A cast's commit gives its voter, of whom nothing was current, a ballot.
LEMMA CastKeepsDay ==
  ASSUME DayInv, Core', NEW c \in Casts, CastCommit(c),
         outdated' = outdated \cup {b.serial : b \in {x \in ballots : VoterOf(x) \in roll \ roll'}}
  PROVE  DayInv'
<1> DEFINE v == arg[c].voter
<1>1. PICK b \in [serial : Casts, election : Elections] :
        b.serial = c /\ ballots' = ballots \cup {b}
  BY CastCommitEffect DEF DayInv
<1>2. /\ v \in roll /\ v \in Voters /\ ~has_voted[v] /\ arg' = arg /\ roll' = roll
      /\ has_voted' = [has_voted EXCEPT ![v] = TRUE]
      /\ \A x \in ballots : x.serial # c
  BY CastCommitEffect DEF DayInv, Core, TypeOK
<1>3. outdated' = outdated /\ c \notin outdated
  BY <1>2 DEF DayInv
<1>4. Current' = Current \cup {b}
  BY <1>1, <1>3 DEF Current
<1>5. VoterOf(b)' = v /\ \A x : VoterOf(x)' = VoterOf(x)
  BY <1>1, <1>2 DEF VoterOf
<1>6. \A x \in Current : VoterOf(x) # v
  BY <1>2 DEF DayInv, MarkOfEnrolment
<1>7. OneBallotPerEnrolment'
  BY <1>4, <1>5, <1>6 DEF DayInv, OneBallotPerEnrolment
<1>8. MarkOfEnrolment'
  BY <1>2, <1>4, <1>5 DEF DayInv, Core, TypeOK, MarkOfEnrolment
<1>9. \A x \in Current' : VoterOf(x)' \in roll'
  BY <1>2, <1>4, <1>5 DEF DayInv
<1> QED
  BY <1>1, <1>3, <1>7, <1>8, <1>9 DEF DayInv

\* Any other step of the engine changes no mark and no ballot, and makes the
\* ballots of those it takes off the roll outdated.
LEMMA OthersKeepDay ==
  ASSUME DayInv, Core', [Next]_vars, UNCHANGED <<has_voted, ballots>>, roll' \subseteq roll,
         outdated' = outdated \cup {b.serial : b \in {x \in ballots : VoterOf(x) \in roll \ roll'}}
  PROVE  DayInv'
<1>1. \A b \in ballots : VoterOf(b)' = VoterOf(b)
  BY BallotsKept DEF DayInv
<1>2. \A b1, b2 \in ballots : b1.serial = b2.serial => VoterOf(b1) = VoterOf(b2)
  BY DEF VoterOf
<1>3. \A b \in Current' : b \in Current /\ VoterOf(b) \in roll'
  BY DEF Current, DayInv
<1>4. \A b \in Current : VoterOf(b) \in roll' => b \in Current'
  BY <1>2 DEF Current
<1>5. OneBallotPerEnrolment'
  BY <1>1, <1>3 DEF DayInv, OneBallotPerEnrolment, Current
<1>6. MarkOfEnrolment'
  BY <1>1, <1>3, <1>4 DEF DayInv, MarkOfEnrolment, Current
<1>7. \A b \in Current' : VoterOf(b)' \in roll'
  BY <1>1, <1>3 DEF Current
<1>8. outdated' \subseteq {b.serial : b \in ballots'}
  BY DEF DayInv
<1> QED
  BY <1>5, <1>6, <1>7, <1>8 DEF DayInv

\* The invariant of the day, on every roll and for any number of deletions and
\* enrolments between the statements of any number of requests.
THEOREM DayInvariant == DaySpec => []DayInv
<1>1. DayInit => DayInv
  <2> SUFFICES ASSUME DayInit PROVE DayInv
    OBVIOUS
  <2>1. Core
    BY InitIInv DEF DayInit, IInv
  <2> QED
    BY <2>1 DEF DayInit, Init, DayInv, OneBallotPerEnrolment, MarkOfEnrolment, Current
<1>2. DayInv /\ [DayNext]_dayVars => DayInv'
  <2> SUFFICES ASSUME DayInv, [DayNext]_dayVars PROVE DayInv'
    OBVIOUS
  <2> DEFINE Outdates ==
        outdated' = outdated \cup {b.serial : b \in {x \in ballots : VoterOf(x) \in roll \ roll'}}
  <2>1. ASSUME NEW v \in Voters, NEW t \in VoterStatus, Enrol(v, t), Outdates
        PROVE  DayInv'
    BY <2>1, EnrolKeepsDay
  <2>2. ASSUME [Next]_vars, Outdates
        PROVE  DayInv'
    <3>1. Core'
      BY <2>2, CoreStep DEF DayInv
    <3>2. ASSUME NEW c \in Casts, CastCommit(c)
          PROVE  DayInv'
      BY <2>2, <3>1, <3>2, CastKeepsDay
    <3>3. CASE UNCHANGED <<has_voted, ballots>> /\ roll' \subseteq roll
      BY <2>2, <3>1, <3>3, OthersKeepDay
    <3> QED
      BY <2>2, <3>2, <3>3, QuietStep
         DEF DayInv, Writes, AuthCommit, CheckInCommit, DeleteCommit, voterVars
  <2>3. CASE UNCHANGED dayVars
    <3>1. UNCHANGED vars /\ UNCHANGED <<roll, outdated>>
      BY <2>3 DEF dayVars, vars, tableVars, voterVars
    <3>2. Outdates
      BY <3>1
    <3> QED
      BY <2>2, <3>1, <3>2
  <2> QED
    BY <2>1, <2>2, <2>3 DEF DayNext
<1> QED
  BY <1>1, <1>2, PTL DEF DaySpec

\* However often a voter is deleted and enrolled again, no row gets a second
\* ballot.
THEOREM DayOneBallot == DaySpec => []OneBallotPerEnrolment
<1>1. DayInv => OneBallotPerEnrolment
  BY DEF DayInv
<1> QED
  BY <1>1, DayInvariant, PTL

\* However often a voter is deleted and enrolled again, the mark of a row tells
\* whether a ballot was cast for it, and nothing of the rows before it.
THEOREM DayMarks == DaySpec => []MarkOfEnrolment
<1>1. DayInv => MarkOfEnrolment
  BY DEF DayInv
<1> QED
  BY <1>1, DayInvariant, PTL
=============================================================================
