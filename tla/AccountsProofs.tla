--------------------------- MODULE AccountsProofs ---------------------------
(***************************************************************************)
(* The properties of accounts and login sessions, for any number of        *)
(* requests, emails and passwords, however many are served at a time.      *)
(***************************************************************************)
EXTENDS Accounts, FiniteSetTheorems, TLAPS

Enders == Refreshes \cup Logouts

\* The steps of a request that has not made its account yet.
Unmade == {"new", "insert"}

\* A request makes one account and one session, an account is one request's,
\* and whatever a request has loaded had been made.
MadeOnce ==
  /\ \A e \in Known : pc[account[e].id] \notin Unmade
  /\ \A e, f \in Known : account[e].id = account[f].id => e = f
  /\ \A r \in Requests : seen[r].id # None => pc[seen[r].id] \notin Unmade
  /\ \A r \in SignIns : session[r].status # "NONE" => pc[r] = "done"

\* Who is on the way to which step: only an onboarding goes on to a login, only
\* the two make a session from what they have loaded, only a login comes from
\* Google, and only a request in flight has loaded an account.
StepsInOrder ==
  /\ \A r \in Requests : pc[r] = "login" => r \in Onboards
  /\ \A r \in Requests : pc[r] = "session" => r \in Onboards \cup Logins
  /\ \A r \in Requests : seen[r].id # None => r \in InFlight
  /\ \A r \in Requests : order[r].way = "google" => r \in Logins

\* A refresh or a logout in flight names a session that has been made; a
\* refresh that has loaded its user has loaded that of the session.
EndersInOrder ==
  /\ \A r \in Enders : r \in InFlight =>
       order[r].session \in SignIns /\ pc[order[r].session] = "done"
  /\ \A r \in Refreshes :
       pc[r] = "commit" /\ session[order[r].session].status # "NONE"
       => session[order[r].session].of = seen[r].id

\* Related requests that are in flight have overlapped.
OverlapsKnown ==
  \A q, r \in Requests :
    q # r /\ Related(q, r) /\ q \in InFlight /\ r \in InFlight => {q, r} \in overlapped

\* A session that was ended is over, and whoever is still about to end it has
\* overlapped with those who did.
EndingsInOrder ==
  /\ \A s \in SignIns : Ended(s) # {} =>
       session[s].status \in {"revoked", "NONE"} /\ pc[s] = "done"
  /\ \A r \in Enders : r \in InFlight =>
       \A q \in Ended(order[r].session) : {q, r} \in overlapped

\* An update that has overlapped with r is committed on the account e.
DeactivatedDuring(r, e) ==
  \E u \in Updates : pc[u] = "done" /\ order[u].email = e /\ {r, u} \in overlapped

\* Who has been let in and is inactive was deactivated meanwhile.
LetInActive ==
  \A r \in SignIns, e \in Known :
    /\ r \in Refreshes \/ order[r].way = "google"
    /\ seen[r].id = account[e].id /\ ~account[e].active
    => DeactivatedDuring(r, e)

\* The inductive invariant.
IInv ==
  /\ TypeOK /\ BelongTogether /\ EndedOnce
  /\ MadeOnce /\ StepsInOrder /\ EndersInOrder /\ OverlapsKnown /\ EndingsInOrder /\ LetInActive

-----------------------------------------------------------------------------
\* The steps of the specification, each with what it is about.
LEMMA NextSplit ==
  ASSUME NEW ACTION P, [Next]_vars,
         \A r \in Onboards, e \in Emails, p \in Passwords : OnboardRead(r, e, p) => P,
         \A r \in Invites, e \in Emails, p \in Passwords, b \in BOOLEAN : InviteRead(r, e, p, b) => P,
         \A r \in Logins, e \in Emails, p \in Passwords, way \in {"password", "code", "google"}, k \in Secrets :
           LoginRead(r, e, way, p, k) => P,
         \A r \in Resets, e \in Emails, p \in Passwords : ResetRead(r, e, p) => P,
         \A r \in Setups, e \in Known : SetupRead(r, e) => P,
         \A r \in Confirms, e \in Known : ConfirmRead(r, e) => P,
         \A r \in Updates, e \in Known, b \in BOOLEAN : UpdateRead(r, e, b) => P,
         \A e \in Known : Purge(e) => P,
         \A r \in Refreshes, s \in SignIns : RefreshRead(r, s) => P,
         \A r \in Logouts, s \in SignIns : LogoutRead(r, s) => P,
         \A s \in SignIns : Expire(s) => P,
         \A r \in Requests : OnboardCommit(r) => P,
         \A r \in Requests : InviteCommit(r) => P,
         \A r \in Requests : OnboardLogin(r) => P,
         \A r \in Requests : SessionCommit(r) => P,
         \A r \in Requests : RefreshUser(r) => P,
         \A r \in Requests : RefreshCommit(r) => P,
         \A r \in Requests : LogoutCommit(r) => P,
         \A r \in Requests : AccountCommit(r) => P,
         \A r \in Requests : Fail(r) => P,
         UNCHANGED vars => P
  PROVE  P
BY DEF Next

\* Ways in which a record is written.
LEMMA RecordTypes ==
  /\ NoAccount \in Account /\ NoOrder \in Order /\ NoSession \in Session
  /\ NoAccount.id = None /\ NoOrder.way = "none" /\ NoSession.status = "NONE"
BY DEF NoAccount, Account, NoOrder, Order, NoSession, Session

\* Whom a request names is one of those who can.
LEMMA Names ==
  /\ Creators \subseteq Requests /\ SignIns \subseteq Requests /\ Enders \subseteq Requests
  /\ Onboards \subseteq Creators /\ Onboards \subseteq SignIns /\ Invites \subseteq Creators
  /\ Logins \subseteq SignIns /\ Refreshes \subseteq SignIns
  /\ Setups \subseteq Requests /\ Confirms \subseteq Requests /\ Resets \subseteq Requests
  /\ Updates \subseteq Requests /\ Logouts \subseteq Requests
  /\ None \notin Requests
BY AccountsAssumption DEF Creators, SignIns, Requests, Enders

\* Kinds are disjoint where the proofs need it.
LEMMA Disjoint ==
  /\ Onboards \cap Invites = {} /\ Onboards \cap Logins = {} /\ Onboards \cap Refreshes = {}
  /\ Logins \cap Refreshes = {} /\ Updates \cap SignIns = {} /\ Updates \cap Creators = {}
  /\ Updates \cap (Setups \cup Confirms \cup Resets \cup Logouts) = {}
  /\ Setups \cap (Confirms \cup Resets) = {} /\ Confirms \cap Resets = {}
  /\ Logouts \cap SignIns = {} /\ Enders \cap (Creators \cup Logins) = {} /\ Creators \cap Logins = {}
  /\ Enders \cap (Setups \cup Confirms \cup Resets \cup Updates) = {}
<1> DEFINE Apart(i, j) == Kinds[i] \cap Kinds[j] = {}
<1>1. \A i, j \in 1..9 : i # j => Apart(i, j)
  BY AccountsAssumption DEF Kinds
<1>2. /\ Kinds[1] = Onboards /\ Kinds[2] = Invites /\ Kinds[3] = Logins
      /\ Kinds[4] = Refreshes /\ Kinds[5] = Logouts /\ Kinds[6] = Setups
      /\ Kinds[7] = Confirms /\ Kinds[8] = Resets /\ Kinds[9] = Updates
  BY DEF Kinds
<1> QED
  BY <1>1, <1>2 DEF SignIns, Creators, Enders

\* Whoever begins takes its place among those in flight.
LEMMA BeginStep ==
  ASSUME IInv, NEW r \in Requests, NEW o \in Order, NEW a \in Account,
         NEW step \in {"insert", "session", "user", "commit"}, Begin(r, step, o, a),
         step = "session" => r \in Logins,
         o.way = "google" => r \in Logins /\ a.active,
         a = NoAccount \/ \E e \in Known : a = account[e],
         r \in Enders => o.session \in SignIns /\ session[o.session].status \in {"live", "expired"},
         r \in Refreshes => step = "user" /\ a = NoAccount
  PROVE  IInv'
<1> USE DEF IInv
<1>1. /\ pc[r] = "new" /\ pc' = [pc EXCEPT ![r] = step]
      /\ order' = [order EXCEPT ![r] = o] /\ seen' = [seen EXCEPT ![r] = a]
      /\ overlapped' = overlapped \cup {{r, q} : q \in {p \in InFlight : Related(p, r)}}
      /\ UNCHANGED <<account, workspace, session>>
  BY DEF Begin
<1>2. /\ pc \in [Requests -> Step] /\ order \in [Requests -> Order] /\ seen \in [Requests -> Account]
      /\ session \in [SignIns -> Session] /\ account \in [Emails -> Account]
      /\ SignIns \subseteq Requests /\ None \notin Requests
  BY Names DEF TypeOK
<1>3. Known' = Known
  BY <1>1 DEF Known
<1>4. TypeOK'
  <2>1. \A q \in InFlight : {r, q} \subseteq Requests
    BY DEF InFlight
  <2> QED
    BY <1>1, <1>2, <2>1 DEF TypeOK, Step
<1>5. BelongTogether'
  BY <1>1, <1>3 DEF BelongTogether
<1>6. \A s : Ended(s)' = Ended(s)
  BY <1>1, <1>2, Names DEF Ended
<1>7. EndedOnce'
  BY <1>1, <1>6 DEF EndedOnce
<1>8. MadeOnce'
  BY <1>1, <1>2, <1>3, RecordTypes DEF MadeOnce, Unmade, Known
<1>9. StepsInOrder'
  BY <1>1, <1>2 DEF StepsInOrder, InFlight
<1>10. \A q \in Requests : q # r => (q \in InFlight <=> q \in InFlight')
  BY <1>1, <1>2 DEF InFlight
<1>11. r \in Enders => pc[o.session] = "done" /\ Ended(o.session) = {}
  BY <1>2 DEF MadeOnce, EndingsInOrder
<1>12. EndersInOrder'
  <2>1. \A q \in Enders : q \in InFlight' =>
          order'[q].session \in SignIns /\ pc'[order'[q].session] = "done"
    BY <1>1, <1>2, <1>10, <1>11, Names DEF EndersInOrder
  <2>2. \A q \in Refreshes :
          pc'[q] = "commit" /\ session'[order'[q].session].status # "NONE"
          => session'[order'[q].session].of = seen'[q].id
    BY <1>1, <1>2, Names DEF EndersInOrder
  <2> QED
    BY <2>1, <2>2 DEF EndersInOrder
<1>13. OverlapsKnown'
  BY <1>1, <1>10 DEF OverlapsKnown, Related
<1>14. EndingsInOrder'
  <2>1. \A s \in SignIns : Ended(s)' # {} => session'[s].status \in {"revoked", "NONE"} /\ pc'[s] = "done"
    BY <1>1, <1>2, <1>6 DEF EndingsInOrder
  <2>2. ASSUME NEW q \in Enders, q \in InFlight', NEW p \in Ended(order[q].session)'
        PROVE  {p, q} \in overlapped'
    <3>1. p \in Ended(order'[q].session)
      BY <1>1, <1>2, <2>2, Names DEF Ended
    <3>2. q # r
      BY <1>1, <1>2, <1>11, <3>1, Names
    <3> QED
      BY <1>1, <1>2, <1>10, <2>2, <3>1, <3>2, Names DEF EndingsInOrder
  <2> QED
    BY <2>1, <2>2 DEF EndingsInOrder
<1>15. LetInActive'
  <2> SUFFICES ASSUME NEW q \in SignIns, NEW e \in Known,
                      q \in Refreshes \/ order'[q].way = "google",
                      seen'[q].id = account[e].id, ~account[e].active
               PROVE  DeactivatedDuring(q, e)'
    BY <1>1, <1>3 DEF LetInActive
  <2>1. q # r
    <3>1. CASE q = r /\ a = NoAccount
      BY <1>1, <1>2, <3>1, RecordTypes DEF Known
    <3>2. CASE q = r /\ a # NoAccount
      <4>1. PICK f \in Known : a = account[f]
        BY <3>2
      <4>2. f = e
        BY <1>1, <1>2, <3>2, <4>1 DEF MadeOnce
      <4> QED
        BY <1>1, <1>2, <3>2, <4>1, <4>2
    <3> QED
      BY <3>1, <3>2
  <2>2. DeactivatedDuring(q, e)
    BY <1>1, <1>2, <2>1 DEF LetInActive
  <2> QED
    BY <1>1, <1>2, <2>2, Names DEF DeactivatedDuring
<1> QED
  BY <1>4, <1>5, <1>7, <1>8, <1>9, <1>12, <1>13, <1>14, <1>15

\* A request that reads and waits for its commit.
LEMMA ReadSteps ==
  ASSUME IInv
  PROVE  /\ \A r \in Onboards, e \in Emails, p \in Passwords : OnboardRead(r, e, p) => IInv'
         /\ \A r \in Invites, e \in Emails, p \in Passwords, b \in BOOLEAN : InviteRead(r, e, p, b) => IInv'
         /\ \A r \in Logins, e \in Emails, p \in Passwords, way \in {"password", "code", "google"}, k \in Secrets :
              LoginRead(r, e, way, p, k) => IInv'
         /\ \A r \in Resets, e \in Emails, p \in Passwords : ResetRead(r, e, p) => IInv'
         /\ \A r \in Setups, e \in Known : SetupRead(r, e) => IInv'
         /\ \A r \in Confirms, e \in Known : ConfirmRead(r, e) => IInv'
         /\ \A r \in Updates, e \in Known, b \in BOOLEAN : UpdateRead(r, e, b) => IInv'
<1>1. Known \subseteq Emails /\ \A e \in Emails : account[e] \in Account
  BY DEF IInv, TypeOK, Known
<1>2. ASSUME NEW r \in Onboards, NEW e \in Emails, NEW p \in Passwords, OnboardRead(r, e, p)
      PROVE  IInv'
  <2>1. PICK slug \in 1..Cardinality(Onboards) :
          Begin(r, "insert", [NoOrder EXCEPT !.email = e, !.password = p, !.slug = slug], NoAccount)
    BY <1>2 DEF OnboardRead
  <2>2. slug \in Nat
    BY AccountsAssumption, FS_CardinalityType
  <2>3. [NoOrder EXCEPT !.email = e, !.password = p, !.slug = slug] \in Order
    BY <2>2 DEF NoOrder, Order
  <2>4. r \in Requests /\ r \notin Enders
    BY Names, Disjoint
  <2> QED
    BY <2>1, <2>3, <2>4, BeginStep, RecordTypes DEF NoOrder, Enders
<1>3. ASSUME NEW r \in Invites, NEW e \in Emails, NEW p \in Passwords, NEW b \in BOOLEAN, InviteRead(r, e, p, b)
      PROVE  IInv'
  <2>1. [NoOrder EXCEPT !.email = e, !.password = p, !.active = b] \in Order
    BY DEF NoOrder, Order
  <2>2. r \in Requests /\ r \notin Enders
    BY Names, Disjoint
  <2> QED
    BY <1>3, <2>1, <2>2, BeginStep, RecordTypes DEF NoOrder, Enders, InviteRead
<1>4. ASSUME NEW r \in Logins, NEW e \in Emails, NEW p \in Passwords,
             NEW way \in {"password", "code", "google"}, NEW k \in Secrets, LoginRead(r, e, way, p, k)
      PROVE  IInv'
  <2>1. [NoOrder EXCEPT !.email = e, !.way = way] \in Order
    BY DEF NoOrder, Order
  <2>2. r \in Requests /\ r \notin Enders
    BY Names, Disjoint
  <2>3. way = "google" => account[e].active
    BY <1>4 DEF LoginRead, MaySignIn
  <2> QED
    BY <1>1, <1>4, <2>1, <2>2, <2>3, BeginStep DEF NoOrder, Enders, LoginRead
<1>5. ASSUME NEW r \in Resets \cup Setups \cup Confirms \cup Updates, NEW e \in Emails, NEW o \in Order,
             AccountRead(r, e, o), o.way = "none"
      PROVE  IInv'
  <2>1. [o EXCEPT !.email = e] \in Order /\ [o EXCEPT !.email = e].way = "none"
    BY <1>5 DEF Order
  <2>2. r \in Requests /\ r \notin Enders
    BY Names, Disjoint
  <2> QED
    BY <1>1, <1>5, <2>1, <2>2, BeginStep DEF Enders, AccountRead
<1>6. /\ \A k \in Setups \cup {None} :
           [NoOrder EXCEPT !.secret = k] \in Order /\ [NoOrder EXCEPT !.secret = k].way = "none"
      /\ \A p \in Passwords :
           [NoOrder EXCEPT !.password = p] \in Order /\ [NoOrder EXCEPT !.password = p].way = "none"
      /\ \A b \in BOOLEAN :
           [NoOrder EXCEPT !.active = b] \in Order /\ [NoOrder EXCEPT !.active = b].way = "none"
  BY DEF NoOrder, Order
<1>7. \A e \in Emails : account[e].secret \in Setups \cup {None}
  BY <1>1 DEF Account
<1>8. \A r \in Resets, e \in Emails, p \in Passwords : ResetRead(r, e, p) => IInv'
  BY <1>5, <1>6 DEF ResetRead
<1>9. \A r \in Setups, e \in Known : SetupRead(r, e) => IInv'
  BY <1>1, <1>5, <1>6 DEF SetupRead
<1>10. \A r \in Confirms, e \in Known : ConfirmRead(r, e) => IInv'
  BY <1>1, <1>5, <1>6, <1>7 DEF ConfirmRead
<1>11. \A r \in Updates, e \in Known, b \in BOOLEAN : UpdateRead(r, e, b) => IInv'
  BY <1>1, <1>5, <1>6 DEF UpdateRead
<1> QED
  BY <1>2, <1>3, <1>4, <1>8, <1>9, <1>10, <1>11

LEMMA SessionReadSteps ==
  ASSUME IInv, NEW s \in SignIns
  PROVE  /\ \A r \in Refreshes : RefreshRead(r, s) => IInv'
         /\ \A r \in Logouts : LogoutRead(r, s) => IInv'
<1>1. [NoOrder EXCEPT !.session = s] \in Order /\ [NoOrder EXCEPT !.session = s].way = "none"
      /\ [NoOrder EXCEPT !.session = s].session = s
  BY DEF NoOrder, Order
<1>2. \A r \in Logouts : r \notin Refreshes
  BY Names, Disjoint
<1> QED
  BY <1>1, <1>2, BeginStep, RecordTypes, Names DEF RefreshRead, LogoutRead, MayRefresh, Enders

\* Any step but a beginning finds these types.
LEMMA Typed ==
  ASSUME IInv
  PROVE  /\ account \in [Emails -> Account] /\ session \in [SignIns -> Session]
         /\ pc \in [Requests -> Step] /\ order \in [Requests -> Order] /\ seen \in [Requests -> Account]
         /\ Known \subseteq Emails /\ SignIns \subseteq Requests /\ None \notin Requests
         /\ InFlight \subseteq Requests /\ \A r \in Requests : r \in InFlight <=> pc[r] \notin {"new", "done", "failed"}
BY Names DEF IInv, TypeOK, Known, InFlight

LEMMA FailStep ==
  ASSUME IInv, NEW r \in Requests, Fail(r)
  PROVE  IInv'
<1> USE DEF IInv
<1>1. /\ r \in InFlight /\ pc' = [pc EXCEPT ![r] = "failed"] /\ order' = [order EXCEPT ![r] = NoOrder]
      /\ seen' = [seen EXCEPT ![r] = NoAccount]
      /\ UNCHANGED <<account, workspace, session, overlapped>>
  BY DEF Fail, End
<1>2. Known' = Known /\ \A q \in Requests : q \in InFlight' <=> q # r /\ q \in InFlight
  BY <1>1, Typed DEF Known, InFlight
<1>3. TypeOK' /\ BelongTogether'
  BY <1>1, <1>2, RecordTypes DEF TypeOK, Step, BelongTogether
<1>4. \A s : Ended(s)' = Ended(s)
  BY <1>1, Typed, Names DEF Ended
<1>5. EndedOnce'
  BY <1>1, <1>4 DEF EndedOnce
<1>6. MadeOnce'
  BY <1>1, <1>2, Typed, RecordTypes DEF MadeOnce, Unmade, Known
<1>7. StepsInOrder'
  BY <1>1, <1>2, Typed, RecordTypes DEF StepsInOrder
<1>8. EndersInOrder'
  BY <1>1, <1>2, Typed, Names DEF EndersInOrder
<1>9. OverlapsKnown'
  BY <1>1, <1>2 DEF OverlapsKnown, Related
<1>10. EndingsInOrder'
  <2>1. \A s \in SignIns : Ended(s) # {} => pc[s] = "done"
    BY DEF EndingsInOrder
  <2>2. ASSUME NEW q \in Enders, q \in InFlight'
        PROVE  order'[q].session = order[q].session /\ q \in InFlight
    BY <1>1, <1>2, <2>2, Typed, Names
  <2> QED
    BY <1>1, <1>2, <1>4, <2>1, <2>2, Typed, Names DEF EndingsInOrder
<1>11. LetInActive'
  <2> SUFFICES ASSUME NEW q \in SignIns, NEW e \in Known,
                      q \in Refreshes \/ order'[q].way = "google",
                      seen'[q].id = account[e].id, ~account[e].active
               PROVE  DeactivatedDuring(q, e)'
    BY <1>1, <1>2 DEF LetInActive
  <2>1. DeactivatedDuring(q, e)
    BY <1>1, Typed, RecordTypes DEF LetInActive, Known
  <2> QED
    BY <1>1, <2>1, Typed, Names DEF DeactivatedDuring, InFlight
<1> QED
  BY <1>3, <1>5, <1>6, <1>7, <1>8, <1>9, <1>10, <1>11

LEMMA PurgeStep ==
  ASSUME IInv, NEW e \in Known, Purge(e)
  PROVE  IInv'
<1> USE DEF IInv
<1>1. /\ account' = [account EXCEPT ![e] = NoAccount]
      /\ session' = [r \in SignIns |-> IF session[r].of = account[e].id THEN NoSession ELSE session[r]]
      /\ UNCHANGED <<workspace, pc, order, seen, overlapped>>
  BY DEF Purge
<1>2. /\ Known' = Known \ {e} /\ \A f \in Known' : account'[f] = account[f]
      /\ InFlight' = InFlight
  BY <1>1, Typed, RecordTypes DEF Known, InFlight
<1>3. \A r \in SignIns : session'[r].status # "NONE" =>
        session'[r] = session[r] /\ session[r].of # account[e].id
  BY <1>1, RecordTypes
<1>4. TypeOK'
  BY <1>1, RecordTypes DEF TypeOK
<1>5. BelongTogether'
  BY <1>1, <1>2, <1>3 DEF BelongTogether
<1>6. \A s : Ended(s)' \subseteq Ended(s)
  BY <1>1, <1>3, Names DEF Ended
<1>7. EndedOnce'
  BY <1>1, <1>6 DEF EndedOnce
<1>8. MadeOnce'
  BY <1>1, <1>2, <1>3 DEF MadeOnce
<1>9. StepsInOrder' /\ OverlapsKnown'
  BY <1>1, <1>2 DEF StepsInOrder, OverlapsKnown, Related
<1>10. EndersInOrder'
  BY <1>1, <1>2, <1>3, Typed, Names DEF EndersInOrder, InFlight, Enders
<1>11. EndingsInOrder'
  <2>1. \A s \in SignIns : session'[s].status \in {"revoked", "NONE"} \/ session'[s] = session[s]
    BY <1>1, <1>3, RecordTypes
  <2> QED
    BY <1>1, <1>2, <1>6, <2>1 DEF EndingsInOrder
<1>12. LetInActive'
  <2>1. \A r \in SignIns, f \in Known : DeactivatedDuring(r, f)' <=> DeactivatedDuring(r, f)
    BY <1>1 DEF DeactivatedDuring
  <2> QED
    BY <1>1, <1>2, <2>1 DEF LetInActive
<1> QED
  BY <1>4, <1>5, <1>7, <1>8, <1>9, <1>10, <1>11, <1>12

LEMMA ExpireStep ==
  ASSUME IInv, NEW s \in SignIns, Expire(s)
  PROVE  IInv'
<1> USE DEF IInv
<1>1. /\ session[s].status = "live" /\ session' = [session EXCEPT ![s].status = "expired"]
      /\ UNCHANGED <<account, workspace, pc, order, seen, overlapped>>
  BY DEF Expire
<1>2. Known' = Known /\ InFlight' = InFlight
  BY <1>1 DEF Known, InFlight
<1>3. \A r \in SignIns : /\ session'[r].of = session[r].of /\ session'[r].parent = session[r].parent
                         /\ session'[r].status = "NONE" <=> session[r].status = "NONE"
                         /\ r # s => session'[r] = session[r]
  BY <1>1, Typed DEF Session
<1>4. TypeOK'
  BY <1>1 DEF TypeOK, Session
<1>5. /\ BelongTogether' /\ MadeOnce'
      /\ StepsInOrder' /\ OverlapsKnown' /\ LetInActive'
  <2>1. BelongTogether' /\ MadeOnce'
    BY <1>1, <1>2, <1>3 DEF BelongTogether, MadeOnce
  <2>2. StepsInOrder' /\ OverlapsKnown'
    BY <1>1, <1>2 DEF StepsInOrder, OverlapsKnown, Related
  <2>3. \A r \in SignIns, f \in Known : DeactivatedDuring(r, f)' <=> DeactivatedDuring(r, f)
    BY <1>1 DEF DeactivatedDuring
  <2>4. LetInActive'
    BY <1>1, <1>2, <2>3 DEF LetInActive
  <2> QED
    BY <2>1, <2>2, <2>4
<1>6. \A t : Ended(t)' = Ended(t)
  BY <1>1, <1>3, Names DEF Ended
<1>7. EndedOnce' /\ EndingsInOrder'
  BY <1>1, <1>2, <1>3, <1>6 DEF EndedOnce, EndingsInOrder
<1>8. EndersInOrder'
  BY <1>1, <1>2, <1>3, Names DEF EndersInOrder, InFlight, Enders
<1> QED
  BY <1>4, <1>5, <1>7, <1>8

\* A request goes on with the account that it has loaded.
LEMMA LoadStep ==
  ASSUME IInv, NEW r \in Requests, NEW e \in Known, NEW step \in {"session", "commit"},
         r \in InFlight, pc[r] # "insert", seen' = [seen EXCEPT ![r] = account[e]], Goto(r, step),
         UNCHANGED <<account, workspace, session>>,
         step = "session" => r \in Onboards,
         step = "commit" => /\ r \in Refreshes /\ account[e].active
                            /\ session[order[r].session].of = account[e].id
  PROVE  IInv'
<1> USE DEF IInv
<1>1. /\ pc' = [pc EXCEPT ![r] = step] /\ seen' = [seen EXCEPT ![r] = account[e]]
      /\ UNCHANGED <<account, workspace, session, order, overlapped>>
  BY DEF Goto
<1>2. Known' = Known /\ InFlight' = InFlight
  BY <1>1, Typed DEF Known, InFlight
<1>3. account[e] \in Account /\ account[e].id # None
  BY Typed DEF Known
<1>4. TypeOK' /\ BelongTogether'
  BY <1>1, <1>2, <1>3 DEF TypeOK, Step, BelongTogether
<1>5. \A s : Ended(s)' = Ended(s)
  BY <1>1, Typed, Names DEF Ended
<1>6. EndedOnce' /\ OverlapsKnown'
  BY <1>1, <1>2, <1>5 DEF EndedOnce, OverlapsKnown, Related
<1>7. MadeOnce'
  BY <1>1, <1>2, <1>3, Typed DEF MadeOnce, Unmade, InFlight
<1>8. StepsInOrder'
  BY <1>1, <1>2, Typed DEF StepsInOrder
<1>9. EndersInOrder'
  BY <1>1, <1>2, Typed, Names, Disjoint DEF EndersInOrder
<1>10. EndingsInOrder'
  BY <1>1, <1>2, <1>5, Typed DEF EndingsInOrder
<1>11. LetInActive'
  <2> SUFFICES ASSUME NEW q \in SignIns, NEW f \in Known,
                      q \in Refreshes \/ order[q].way = "google",
                      seen'[q].id = account[f].id, ~account[f].active
               PROVE  DeactivatedDuring(q, f)'
    BY <1>1, <1>2 DEF LetInActive
  <2>1. q # r
    <3>1. r \in Onboards => r \notin Refreshes /\ order[r].way # "google"
      BY Disjoint, Names DEF StepsInOrder
    <3>2. q = r => f = e
      BY <1>1, Typed DEF MadeOnce
    <3> QED
      BY <3>1, <3>2
  <2>2. DeactivatedDuring(q, f)
    BY <1>1, <2>1, Typed DEF LetInActive
  <2> QED
    BY <1>1, <1>2, <2>2, Typed, Names DEF DeactivatedDuring
<1> QED
  BY <1>4, <1>6, <1>7, <1>8, <1>9, <1>10, <1>11

LEMMA LoadSteps ==
  ASSUME IInv, NEW r \in Requests
  PROVE  (OnboardLogin(r) => IInv') /\ (RefreshUser(r) => IInv')
<1>1. CASE OnboardLogin(r)
  <2>1. pc[r] = "login" /\ r \in Onboards /\ order[r].email \in Known
    BY <1>1 DEF OnboardLogin, IInv, StepsInOrder
  <2> QED
    BY <1>1, <2>1, LoadStep, Typed DEF OnboardLogin
<1>2. CASE RefreshUser(r)
  BY <1>2, LoadStep, Typed DEF RefreshUser
<1> QED
  BY <1>1, <1>2

\* The first commit of an onboarding, or that of an invitation.
LEMMA CreateStep ==
  ASSUME IInv, NEW r \in Creators, NEW e, e = order[r].email, pc[r] = "insert", e \notin Known,
         account' \in [Emails -> Account], pc' \in [Requests -> Step],
         order' \in [Requests -> Order], seen' \in [Requests -> Account],
         workspace' \in [Onboards -> [slug : Nat, owner : Emails \cup {None}]],
         UNCHANGED <<session, overlapped>>,
         \A f \in Emails : f # e => account'[f] = account[f],
         e \in Emails => /\ account'[e].id = r
                         /\ account'[e].owner <=> r \in Onboards,
         \A q \in Requests : q # r => pc'[q] = pc[q] /\ order'[q] = order[q] /\ seen'[q] = seen[q],
         order'[r].way = order[r].way,
         \A q \in Onboards : q # r => workspace'[q] = workspace[q],
         \/ /\ r \in Onboards /\ pc'[r] = "login" /\ seen'[r] = seen[r]
            /\ workspace'[r].owner = e /\ workspace'[r].slug \notin Slugs
         \/ r \notin Onboards /\ pc'[r] = "done" /\ seen'[r] = NoAccount
  PROVE  IInv'
<1> USE DEF IInv
<1>1. /\ e \in Emails => Known' = Known \cup {e} /\ account'[e].id = r
      /\ e \notin Emails => Known' = Known
      /\ \A f \in Known : f \in Known' /\ account'[f] = account[f] /\ f # e
      /\ r \in Requests /\ r # None
  BY Typed, Names DEF Known
<1>2. \A q \in Requests : /\ q # r => (q \in InFlight' <=> q \in InFlight)
                          /\ r \in InFlight
                          /\ r \in InFlight' <=> pc'[r] = "login"
  BY <1>1, Typed DEF InFlight
<1>3. r \notin Enders /\ r \notin Logins /\ r \notin Refreshes /\ r \notin Updates
  BY Disjoint DEF Enders
<1>4. /\ \A f \in Known : account[f].id # r /\ account[f].id \in Requests
      /\ \A q \in Requests : seen[q].id # r
  BY <1>1, Typed, Names DEF MadeOnce, Unmade, Account, Known
<1>5. TypeOK'
  BY <1>1, Typed DEF TypeOK
<1>6. BelongTogether'
  <2>1. \A f \in Known' : account'[f].owner <=> account'[f].id \in Onboards
    BY <1>1 DEF BelongTogether
  <2>2. \A f \in Known' : account'[f].owner => workspace'[account'[f].id].owner = f
    BY <1>1, <1>4 DEF BelongTogether
  <2>3. \A p, q \in Onboards :
          p # q /\ workspace'[p].owner # None => workspace'[p].slug # workspace'[q].slug
    BY DEF BelongTogether, Slugs
  <2>4. \A q \in SignIns :
          session'[q].status # "NONE" => \E f \in Known' : account'[f].id = session'[q].of
    BY <1>1 DEF BelongTogether
  <2> QED
    BY <2>1, <2>2, <2>3, <2>4 DEF BelongTogether
<1>7. \A s : Ended(s)' = Ended(s)
  BY <1>1, <1>3, Typed, Names DEF Ended, Enders
<1>8. EndedOnce'
  BY <1>7 DEF EndedOnce
<1>9. MadeOnce'
  <2>1. \A f \in Known' : pc'[account'[f].id] \notin Unmade
    BY <1>1, <1>4 DEF MadeOnce, Unmade
  <2>2. \A f, g \in Known' : account'[f].id = account'[g].id => f = g
    BY <1>1, <1>4 DEF MadeOnce
  <2>3. \A q \in Requests : seen'[q].id # None => pc'[seen'[q].id] \notin Unmade
    BY <1>1, <1>4, Typed, Names, RecordTypes DEF MadeOnce, Unmade, Account
  <2>4. \A q \in SignIns : session'[q].status # "NONE" => pc'[q] = "done"
    BY <1>1, Typed DEF MadeOnce
  <2> QED
    BY <2>1, <2>2, <2>3, <2>4 DEF MadeOnce
<1>10. StepsInOrder'
  BY <1>1, <1>2, Typed, RecordTypes DEF StepsInOrder
<1>11. EndersInOrder'
  BY <1>1, <1>2, <1>3, Typed, Names DEF EndersInOrder
<1>12. OverlapsKnown'
  BY <1>2 DEF OverlapsKnown, Related
<1>13. EndingsInOrder'
  <2>1. \A s \in SignIns : Ended(s)' # {} => session'[s].status \in {"revoked", "NONE"} /\ pc'[s] = "done"
    <3>1. \A s \in SignIns : Ended(s)' # {} => session[s].status \in {"revoked", "NONE"} /\ pc[s] = "done"
      BY <1>7 DEF EndingsInOrder
    <3>2. \A s \in SignIns : pc[s] = "done" => pc'[s] = "done"
      BY Names
    <3> QED
      BY <3>1, <3>2
  <2>2. \A q \in Enders : q \in InFlight' => q \in InFlight /\ order'[q].session = order[q].session
    BY <1>2, <1>3, Typed, Names
  <2> QED
    BY <1>7, <2>1, <2>2 DEF EndingsInOrder
<1>14. LetInActive'
  <2> SUFFICES ASSUME NEW q \in SignIns, NEW f \in Known',
                      q \in Refreshes \/ order'[q].way = "google",
                      seen'[q].id = account'[f].id, ~account'[f].active
               PROVE  DeactivatedDuring(q, f)'
    BY DEF LetInActive
  <2>1. f \in Known /\ account'[f] = account[f]
    BY <1>1, <1>4, Typed, RecordTypes
  <2>2. q # r
    BY <1>1, <1>3, Typed DEF StepsInOrder
  <2>3. DeactivatedDuring(q, f)
    BY <2>1, <2>2, Typed, RecordTypes DEF LetInActive, Known
  <2> QED
    BY <1>1, <1>3, <2>3, Typed, Names DEF DeactivatedDuring
<1> QED
  BY <1>5, <1>6, <1>8, <1>9, <1>10, <1>11, <1>12, <1>13, <1>14

\* What is left of an order when its request ends.
LEMMA OrderLeft ==
  ASSUME NEW o \in Order
  PROVE  LET n == [o EXCEPT !.password = None, !.slug = 0] IN
         n \in Order /\ n.email = o.email /\ n.session = o.session /\ n.way = o.way
BY DEF Order

LEMMA CreateSteps ==
  ASSUME IInv, NEW r \in Requests
  PROVE  (OnboardCommit(r) => IInv') /\ (InviteCommit(r) => IInv')
<1>1. order[r] \in Order
  BY Typed
<1>2. CASE OnboardCommit(r)
  <2> DEFINE a == [NoAccount EXCEPT !.id = r, !.active = TRUE, !.verified = TRUE,
                                    !.owner = TRUE, !.password = order[r].password]
  <2>1. /\ r \in Onboards /\ r \in Creators /\ pc[r] = "insert" /\ order[r].email \notin Known /\ order[r].slug \notin Slugs
        /\ workspace' = [workspace EXCEPT ![r] = [slug |-> order[r].slug, owner |-> order[r].email]]
        /\ account' = [account EXCEPT ![order[r].email] = a]
        /\ pc' = [pc EXCEPT ![r] = "login"] /\ order' = order /\ seen' = seen
        /\ UNCHANGED <<session, overlapped>>
    BY <1>2, Names DEF OnboardCommit, Goto, Unique
  <2>2. a \in Account /\ a.id = r /\ (a.owner <=> r \in Onboards)
    BY <2>1, Typed DEF Account, NoAccount, Order
  <2>3. workspace' \in [Onboards -> [slug : Nat, owner : Emails \cup {None}]]
        /\ workspace'[r] = [slug |-> order[r].slug, owner |-> order[r].email]
        /\ \A q \in Onboards : q # r => workspace'[q] = workspace[q]
    BY <2>1, Typed DEF IInv, TypeOK, Order
  <2>4. pc' \in [Requests -> Step] /\ pc'[r] = "login" /\ \A q \in Requests : q # r => pc'[q] = pc[q]
    BY <2>1, Typed DEF Step
  <2>5. seen' \in [Requests -> Account]
    BY <2>1, Typed
  <2>6. account' \in [Emails -> Account] /\ \A f \in Emails : account'[f] = IF f = order[r].email THEN a ELSE account[f]
    BY <2>1, <2>2, Typed
  <2>7. workspace'[r].owner = order[r].email /\ workspace'[r].slug \notin Slugs
    BY <2>1, <2>3
  <2> HIDE DEF a
  <2> QED
    BY <1>1, <2>1, <2>2, <2>3, <2>4, <2>5, <2>6, <2>7, Typed, CreateStep
<1>3. CASE InviteCommit(r)
  <2> DEFINE a == [NoAccount EXCEPT !.id = r, !.active = order[r].active, !.password = order[r].password]
             n == [order[r] EXCEPT !.password = None, !.slug = 0]
  <2>1. /\ r \in Invites /\ r \in Creators /\ pc[r] = "insert" /\ order[r].email \notin Known
        /\ account' = [account EXCEPT ![order[r].email] = a]
        /\ pc' = [pc EXCEPT ![r] = "done"] /\ order' = [order EXCEPT ![r] = n]
        /\ seen' = [seen EXCEPT ![r] = NoAccount]
        /\ UNCHANGED <<workspace, session, overlapped>>
    BY <1>3, Names, Typed DEF InviteCommit, End
  <2>2. a \in Account /\ a.id = r /\ r \notin Onboards /\ (a.owner <=> r \in Onboards)
    BY <2>1, Typed, Disjoint DEF Account, NoAccount, Order
  <2>3. workspace' \in [Onboards -> [slug : Nat, owner : Emails \cup {None}]] /\ workspace' = workspace
    BY <2>1 DEF IInv, TypeOK
  <2>4. pc' \in [Requests -> Step] /\ pc'[r] = "done" /\ \A q \in Requests : q # r => pc'[q] = pc[q]
    BY <2>1, Typed DEF Step
  <2>5. n \in Order /\ n.way = order[r].way
    BY <1>1, OrderLeft
  <2>6. seen' \in [Requests -> Account] /\ seen'[r] = NoAccount /\ \A q \in Requests : q # r => seen'[q] = seen[q]
    BY <2>1, Typed, RecordTypes
  <2>7. account' \in [Emails -> Account] /\ \A f \in Emails : account'[f] = IF f = order[r].email THEN a ELSE account[f]
    BY <2>1, <2>2, Typed
  <2>8. order' \in [Requests -> Order] /\ order'[r] = n /\ \A q \in Requests : q # r => order'[q] = order[q]
    BY <2>1, <2>5, Typed
  <2> HIDE DEF a, n
  <2> QED
    BY <2>1, <2>2, <2>3, <2>4, <2>5, <2>6, <2>7, <2>8, CreateStep
<1> QED
  BY <1>2, <1>3

\* A request that ends with a commit forgets what it has loaded.
LEMMA DoneStep ==
  ASSUME IInv, NEW r \in Requests, End(r, "done"), r \in InFlight, pc[r] # "insert",
         account' \in [Emails -> Account], session' \in [SignIns -> Session], workspace' = workspace,
         \A f \in Emails : account'[f].id = account[f].id /\ account'[f].owner = account[f].owner
  PROVE  /\ pc' = [pc EXCEPT ![r] = "done"] /\ overlapped' = overlapped
         /\ \A q \in Requests : /\ q # r => order'[q] = order[q] /\ seen'[q] = seen[q]
                                /\ order'[q].email = order[q].email /\ order'[q].session = order[q].session
                                /\ order'[q].way = order[q].way
         /\ seen'[r] = NoAccount /\ Known' = Known
         /\ \A q \in Requests : q \in InFlight' <=> q # r /\ q \in InFlight
         /\ TypeOK' /\ StepsInOrder' /\ OverlapsKnown'
         /\ \A e \in Known : pc'[account'[e].id] \notin Unmade
         /\ \A e, f \in Known : account'[e].id = account'[f].id => e = f
         /\ \A q \in Requests : seen'[q].id # None => pc'[seen'[q].id] \notin Unmade
         /\ \A e \in Known : account'[e].owner <=> account'[e].id \in Onboards
         /\ \A e \in Known : account'[e].owner => workspace'[account'[e].id].owner = e
         /\ \A p, q \in Onboards :
              p # q /\ workspace'[p].owner # None => workspace'[p].slug # workspace'[q].slug
<1> USE DEF IInv
<1> DEFINE n == [order[r] EXCEPT !.password = None, !.slug = 0]
<1>1. /\ pc' = [pc EXCEPT ![r] = "done"] /\ order' = [order EXCEPT ![r] = n]
      /\ seen' = [seen EXCEPT ![r] = NoAccount] /\ overlapped' = overlapped
  BY Typed DEF End
<1>2. n \in Order /\ n.email = order[r].email /\ n.session = order[r].session /\ n.way = order[r].way
  BY Typed, OrderLeft
<1> HIDE DEF n
<1>3. \A q \in Requests : /\ q # r => order'[q] = order[q] /\ seen'[q] = seen[q]
                          /\ order'[q].email = order[q].email /\ order'[q].session = order[q].session
                          /\ order'[q].way = order[q].way
  BY <1>1, <1>2, Typed
<1>4. seen'[r] = NoAccount /\ Known' = Known
  BY <1>1, Typed DEF Known
<1>5. \A q \in Requests : q \in InFlight' <=> q # r /\ q \in InFlight
  BY <1>1, Typed DEF InFlight
<1>6. TypeOK'
  BY <1>1, <1>2, RecordTypes DEF TypeOK, Step
<1>7. StepsInOrder'
  BY <1>1, <1>3, <1>4, <1>5, Typed, RecordTypes DEF StepsInOrder
<1>8. OverlapsKnown'
  BY <1>1, <1>5 DEF OverlapsKnown, Related
<1>9. /\ \A e \in Known : pc'[account'[e].id] \notin Unmade
      /\ \A e, f \in Known : account'[e].id = account'[f].id => e = f
      /\ \A q \in Requests : seen'[q].id # None => pc'[seen'[q].id] \notin Unmade
  <2>1. \A q : pc[q] \notin Unmade => pc'[q] \notin Unmade
    BY <1>1, Typed DEF Unmade
  <2> QED
    BY <1>3, <1>4, <2>1, Typed, RecordTypes DEF MadeOnce
<1>10. /\ \A e \in Known : account'[e].owner <=> account'[e].id \in Onboards
       /\ \A e \in Known : account'[e].owner => workspace'[account'[e].id].owner = e
       /\ \A p, q \in Onboards :
            p # q /\ workspace'[p].owner # None => workspace'[p].slug # workspace'[q].slug
  BY Typed DEF BelongTogether
<1> QED
  BY <1>1, <1>3, <1>4, <1>5, <1>6, <1>7, <1>8, <1>9, <1>10

LEMMA SessionCommitStep ==
  ASSUME IInv, NEW r \in Requests, SessionCommit(r)
  PROVE  IInv'
<1> DEFINE e == order[r].email
           n == [of |-> account[e].id, parent |-> None, status |-> "live"]
           a == SignedIn(account[e], seen[r], order[r].way)
<1> USE DEF IInv
<1>1. /\ pc[r] = "session" /\ e \in Known /\ End(r, "done")
      /\ account' = [account EXCEPT ![e] = a] /\ session' = [session EXCEPT ![r] = n]
      /\ workspace' = workspace
  BY DEF SessionCommit, StillThere
<1>2. r \in SignIns /\ r \notin Enders /\ r \in InFlight
  BY <1>1, Typed, Names, Disjoint DEF StepsInOrder
<1>3. a \in Account /\ a.id = account[e].id /\ a.owner = account[e].owner /\ a.active = account[e].active
  <2>1. a = account[e] \/ a = [account[e] EXCEPT !.verified = TRUE]
    BY DEF SignedIn
  <2>2. account[e] \in Account
    BY <1>1, Typed
  <2> QED
    BY <2>1, <2>2 DEF Account
<1>4. n \in Session /\ n.of = account[e].id /\ n.parent = None /\ n.status = "live"
  BY <1>1, Typed DEF Session, Account
<1> HIDE DEF a, n
<1>5. account' \in [Emails -> Account] /\ session' \in [SignIns -> Session] /\ session[r].status = "NONE"
  BY <1>1, <1>2, <1>3, <1>4, Typed DEF MadeOnce
<1>6. \A f \in Emails : /\ account'[f].id = account[f].id /\ account'[f].owner = account[f].owner
                        /\ account'[f].active = account[f].active
  BY <1>1, <1>3, Typed
<1>7. /\ pc' = [pc EXCEPT ![r] = "done"] /\ overlapped' = overlapped
      /\ \A q \in Requests : /\ q # r => order'[q] = order[q] /\ seen'[q] = seen[q]
                             /\ order'[q].email = order[q].email /\ order'[q].session = order[q].session
                             /\ order'[q].way = order[q].way
      /\ seen'[r] = NoAccount /\ Known' = Known
      /\ \A q \in Requests : q \in InFlight' <=> q # r /\ q \in InFlight
      /\ TypeOK' /\ StepsInOrder' /\ OverlapsKnown'
  BY <1>1, <1>2, <1>5, <1>6, DoneStep
<1>8. BelongTogether'
  <2>1. \A q \in SignIns : session'[q].status # "NONE" => \E f \in Known : account[f].id = session'[q].of
    BY <1>1, <1>4, Typed DEF BelongTogether
  <2> QED
    BY <1>1, <1>2, <1>5, <1>6, <1>7, <2>1, DoneStep, Typed DEF BelongTogether
<1>9. MadeOnce'
  <2>1. \A q \in SignIns : session'[q].status # "NONE" => pc'[q] = "done"
    BY <1>1, <1>7, Typed DEF MadeOnce
  <2> QED
    BY <1>1, <1>2, <1>5, <1>6, <1>7, <2>1, DoneStep DEF MadeOnce
<1>10. \A s \in SignIns : Ended(s)' = Ended(s)
  BY <1>1, <1>2, <1>4, <1>5, <1>7, Typed, Names DEF Ended, Enders
<1>11. EndedOnce'
  BY <1>7, <1>10 DEF EndedOnce
<1>12. \A q \in Enders : q \in InFlight => order[q].session # r /\ order[q].session \in SignIns
  BY <1>1 DEF EndersInOrder
<1>13. EndersInOrder'
  <2>1. \A q \in Enders : q \in InFlight' => order'[q].session \in SignIns /\ pc'[order'[q].session] = "done"
    BY <1>7, Typed, Names DEF EndersInOrder
  <2>2. \A q \in Refreshes : pc'[q] = "commit" => q # r /\ q \in InFlight
    BY <1>7, Typed, Names
  <2>3. \A q \in Refreshes : pc'[q] = "commit" =>
          session'[order'[q].session] = session[order[q].session] /\ seen'[q] = seen[q]
    BY <1>1, <1>7, <1>12, <2>2, Typed, Names DEF Enders
  <2> QED
    BY <1>7, <2>1, <2>2, <2>3, Typed, Names DEF EndersInOrder
<1>14. EndingsInOrder'
  <2>1. \A s \in SignIns : Ended(s)' # {} => session'[s].status \in {"revoked", "NONE"} /\ pc'[s] = "done"
    BY <1>1, <1>7, <1>10, Typed DEF EndingsInOrder
  <2>2. \A q \in Enders : q \in InFlight' => q \in InFlight /\ order'[q].session = order[q].session
    BY <1>7, Names
  <2> QED
    BY <1>7, <1>10, <1>12, <2>1, <2>2 DEF EndingsInOrder
<1>15. LetInActive'
  <2> SUFFICES ASSUME NEW q \in SignIns, NEW f \in Known,
                      q \in Refreshes \/ order[q].way = "google",
                      seen'[q].id = account[f].id, ~account[f].active
               PROVE  DeactivatedDuring(q, f)'
    BY <1>6, <1>7, Typed DEF LetInActive
  <2>1. DeactivatedDuring(q, f)
    BY <1>7, Typed, RecordTypes DEF LetInActive, Known
  <2> QED
    BY <1>1, <1>7, <2>1, Typed, Names DEF DeactivatedDuring
<1> QED
  BY <1>7, <1>8, <1>9, <1>11, <1>13, <1>14, <1>15

\* The commit of a refresh or a logout r, which ends the session s.
LEMMA EndingStep ==
  ASSUME IInv, NEW r \in Enders, NEW s, s = order[r].session, pc[r] = "commit",
         session[s].status # "NONE", End(r, "done"), UNCHANGED <<account, workspace>>,
         session' \in [SignIns -> Session], session'[s] = [session[s] EXCEPT !.status = "revoked"],
         \A t \in SignIns : t # s => session'[t] = session[t] \/ t = r,
         r \in Refreshes => /\ session'[r].of = seen[r].id /\ session'[r].parent = s
                            /\ session'[r].status = "live"
  PROVE  IInv'
<1> USE DEF IInv
<1>1. /\ r \in Requests /\ r \in InFlight /\ s \in SignIns /\ pc[s] = "done" /\ r # s
      /\ r \in Refreshes \/ r \in Logouts
  BY Typed, Names DEF EndersInOrder, Enders
<1>2. /\ pc' = [pc EXCEPT ![r] = "done"] /\ overlapped' = overlapped
      /\ \A q \in Requests : /\ q # r => order'[q] = order[q] /\ seen'[q] = seen[q]
                             /\ order'[q].email = order[q].email /\ order'[q].session = order[q].session
                             /\ order'[q].way = order[q].way
      /\ seen'[r] = NoAccount /\ Known' = Known
      /\ \A q \in Requests : q \in InFlight' <=> q # r /\ q \in InFlight
      /\ TypeOK' /\ StepsInOrder' /\ OverlapsKnown'
  BY <1>1, DoneStep, Typed
<1>3. /\ session'[s].of = session[s].of /\ session'[s].parent = session[s].parent
      /\ session'[s].status = "revoked"
  BY <1>1, Typed DEF Session
<1>4. /\ \A t \in SignIns : session'[t].status # "NONE" /\ t # r =>
           session[t].status # "NONE" /\ session'[t].of = session[t].of /\ session'[t].parent = session[t].parent
      /\ r \in SignIns => session[r].status = "NONE"
  BY <1>1, <1>3, Typed DEF MadeOnce
<1>5. BelongTogether'
  <2>1. ASSUME NEW q \in SignIns, session'[q].status # "NONE"
        PROVE  \E f \in Known : account[f].id = session'[q].of
    <3>1. CASE q = r /\ r \in Refreshes
      BY <1>1, <3>1 DEF BelongTogether, EndersInOrder
    <3>2. CASE q # r
      BY <1>4, <2>1, <3>2 DEF BelongTogether
    <3> QED
      BY <1>1, <2>1, <3>1, <3>2, Disjoint
  <2> QED
    BY <1>1, <1>2, <2>1, DoneStep, Typed DEF BelongTogether
<1>6. MadeOnce'
  <2>1. \A q \in SignIns : session'[q].status # "NONE" => pc'[q] = "done"
    BY <1>1, <1>2, <1>4, Typed DEF MadeOnce
  <2> QED
    BY <1>1, <1>2, <2>1, DoneStep, Typed DEF MadeOnce
<1>7. Ended(s)' \subseteq Ended(s) \cup {r} /\ r \notin Ended(s)
  BY <1>1, <1>2, <1>4, Typed, Names, Disjoint DEF Ended
<1>8. \A t \in SignIns : t # s => Ended(t)' \subseteq Ended(t)
  BY <1>1, <1>2, <1>4, Typed, Names, Disjoint DEF Ended
<1>9. \A q \in Ended(s) : {q, r} \in overlapped
  BY <1>1 DEF EndingsInOrder
<1>10. EndedOnce'
  <2>1. ASSUME NEW p \in Ended(s)', NEW q \in Ended(s)', p # q
        PROVE  {p, q} \in overlapped
    <3>1. \A t : {t, r} = {r, t}
      OBVIOUS
    <3> QED
      BY <1>1, <1>7, <1>9, <2>1, <3>1 DEF EndedOnce
  <2> QED
    BY <1>2, <1>8, <2>1 DEF EndedOnce
<1>11. EndersInOrder'
  <2>1. \A q \in Enders : q \in InFlight' => order'[q].session \in SignIns /\ pc'[order'[q].session] = "done"
    BY <1>2, Typed, Names DEF EndersInOrder
  <2>2. \A q \in Refreshes : pc'[q] = "commit" => q # r /\ pc[q] = "commit" /\ q \in InFlight
    BY <1>1, <1>2, Typed, Names
  <2>3. \A q \in Refreshes : pc'[q] = "commit" => order[q].session # r /\ order[q].session \in SignIns
    BY <2>2 DEF EndersInOrder, Enders
  <2>4. ASSUME NEW q \in Refreshes, pc'[q] = "commit", session'[order'[q].session].status # "NONE"
        PROVE  session'[order'[q].session].of = seen'[q].id
    <3>1. order'[q].session = order[q].session /\ seen'[q] = seen[q]
      BY <1>2, <2>2, <2>4, Names
    <3>2. session'[order[q].session].of = session[order[q].session].of
          /\ session[order[q].session].status # "NONE"
      BY <1>4, <2>3, <2>4, <3>1
    <3> QED
      BY <2>2, <2>4, <3>1, <3>2 DEF EndersInOrder
  <2> QED
    BY <2>1, <2>4 DEF EndersInOrder
<1>12. EndingsInOrder'
  <2>1. ASSUME NEW t \in SignIns, Ended(t)' # {}
        PROVE  session'[t].status \in {"revoked", "NONE"} /\ pc'[t] = "done"
    <3>1. CASE t = s
      BY <1>1, <1>2, <1>3, <3>1, Typed
    <3>2. CASE t # s
      <4>1. Ended(t) # {}
        BY <1>8, <2>1, <3>2
      <4>2. t # r
        BY <1>1, <4>1 DEF EndingsInOrder
      <4> QED
        BY <1>1, <1>2, <3>2, <4>1, <4>2, Typed DEF EndingsInOrder
    <3> QED
      BY <3>1, <3>2
  <2>2. ASSUME NEW q \in Enders, q \in InFlight', NEW p \in Ended(order[q].session)'
        PROVE  {p, q} \in overlapped
    <3>1. q # r /\ q \in InFlight /\ q \in Requests /\ order[q].session \in SignIns
      BY <1>2, <2>2, Names DEF EndersInOrder
    <3>2. p \in Ended(order[q].session)' => \E t \in SignIns : t = order[q].session /\ p \in Ended(t)'
      BY <1>2, <3>1
    <3>3. CASE p \in Ended(order[q].session)
      BY <3>1, <3>3 DEF EndingsInOrder
    <3>4. CASE p \notin Ended(order[q].session)
      <4>1. p = r
        BY <1>7, <1>8, <2>2, <3>2, <3>1, <3>4
      <4>2. Related(p, q)
        BY <4>1 DEF Related, Enders
      <4> QED
        BY <1>1, <3>1, <4>1, <4>2 DEF OverlapsKnown
    <3> QED
      BY <3>3, <3>4
  <2>3. \A q \in Enders : order'[q].session = order[q].session
    BY <1>2, Names
  <2> QED
    BY <1>2, <2>1, <2>2, <2>3 DEF EndingsInOrder
<1>13. LetInActive'
  <2> SUFFICES ASSUME NEW q \in SignIns, NEW f \in Known,
                      q \in Refreshes \/ order[q].way = "google",
                      seen'[q].id = account[f].id, ~account[f].active
               PROVE  DeactivatedDuring(q, f)'
    BY <1>2, Typed DEF LetInActive
  <2>1. DeactivatedDuring(q, f)
    BY <1>2, Typed, RecordTypes DEF LetInActive, Known
  <2> QED
    BY <1>1, <1>2, <2>1, Typed, Names DEF DeactivatedDuring
<1> QED
  BY <1>2, <1>5, <1>6, <1>10, <1>11, <1>12, <1>13

LEMMA EndingSteps ==
  ASSUME IInv, NEW r \in Requests
  PROVE  (RefreshCommit(r) => IInv') /\ (LogoutCommit(r) => IInv')
<1> DEFINE s == order[r].session
<1>1. CASE RefreshCommit(r)
  <2> DEFINE n == [of |-> seen[r].id, parent |-> s, status |-> "live"]
  <2>1. /\ r \in Refreshes /\ r \in Enders /\ r \in SignIns /\ pc[r] = "commit" /\ session[s].status # "NONE"
        /\ session' = [session EXCEPT ![s].status = "revoked", ![r] = n]
        /\ End(r, "done") /\ UNCHANGED <<account, workspace>>
    BY <1>1, Names DEF RefreshCommit, Enders
  <2>2. s \in SignIns /\ pc[s] = "done" /\ s # r
    BY <2>1, Typed DEF IInv, EndersInOrder
  <2>3. n \in Session /\ n.of = seen[r].id /\ n.parent = s /\ n.status = "live"
    BY <2>2, Typed DEF Session, Account
  <2>4. [session[s] EXCEPT !.status = "revoked"] \in Session
    BY <2>2, Typed DEF Session
  <2> HIDE DEF n
  <2>5. /\ session' \in [SignIns -> Session] /\ session'[s] = [session[s] EXCEPT !.status = "revoked"]
        /\ \A t \in SignIns : t # s => session'[t] = session[t] \/ t = r
        /\ session'[r] = n
    BY <2>1, <2>2, <2>3, <2>4, Typed
  <2> QED
    BY <2>1, <2>3, <2>5, EndingStep
<1>2. CASE LogoutCommit(r)
  <2>1. /\ r \in Logouts /\ r \in Enders /\ r \notin SignIns /\ pc[r] = "commit" /\ session[s].status # "NONE"
        /\ session' = [session EXCEPT ![s].status = "revoked"]
        /\ End(r, "done") /\ UNCHANGED <<account, workspace>>
    BY <1>2, Disjoint DEF LogoutCommit, Enders
  <2>2. s \in SignIns
    BY <2>1, Typed DEF IInv, EndersInOrder
  <2>3. [session[s] EXCEPT !.status = "revoked"] \in Session
    BY <2>2, Typed DEF Session
  <2>4. /\ session' \in [SignIns -> Session] /\ session'[s] = [session[s] EXCEPT !.status = "revoked"]
        /\ \A t \in SignIns : t # s => session'[t] = session[t]
        /\ r \notin Refreshes
    BY <2>1, <2>2, <2>3, Typed, Names
  <2> QED
    BY <2>1, <2>4, EndingStep
<1> QED
  BY <1>1, <1>2

\* What a request writes of the account that it changes.
LEMMA ChangedRow ==
  ASSUME NEW r \in Setups \cup Confirms \cup Resets \cup Updates, NEW row \in Account,
         order[r] \in Order, seen[r] \in Account
  PROVE  LET c == Changed(r, row) IN
         /\ c \in Account /\ c.id = row.id /\ c.owner = row.owner
         /\ r \notin Resets => c.password = row.password
         /\ r \notin Setups => c.secret = row.secret
         /\ r \notin Updates => c.active = row.active
         /\ row.mfa => c.mfa
         /\ row.verified => c.verified
<1> DEFINE o == order[r]
           how == IF o.active = seen[r].active THEN row.active ELSE o.active
<1>1. /\ r \in Setups => Changed(r, row) = [row EXCEPT !.secret = o.secret]
      /\ r \in Confirms => Changed(r, row) = [row EXCEPT !.mfa = TRUE]
      /\ r \in Resets => Changed(r, row) = [row EXCEPT !.password = o.password, !.verified = TRUE]
      /\ r \in Updates => Changed(r, row) = [row EXCEPT !.active = how]
  BY Disjoint DEF Changed
<1>2. o.secret \in Setups \cup {None} /\ o.password \in Passwords \cup {None}
  BY DEF Order
<1>3. how \in BOOLEAN
  BY DEF Order, Account
<1> HIDE DEF o, how
<1>4. CASE r \in Setups
  BY <1>1, <1>2, <1>4, Disjoint DEF Account
<1>5. CASE r \in Confirms
  BY <1>1, <1>5, Disjoint DEF Account
<1>6. CASE r \in Resets
  BY <1>1, <1>2, <1>6, Disjoint DEF Account
<1>7. CASE r \in Updates
  BY <1>1, <1>3, <1>7, Disjoint DEF Account
<1> QED
  BY <1>4, <1>5, <1>6, <1>7

LEMMA AccountCommitStep ==
  ASSUME IInv, NEW r \in Requests, AccountCommit(r)
  PROVE  IInv'
<1> DEFINE e == order[r].email
           a == Changed(r, account[e])
<1> USE DEF IInv
<1>1. /\ r \in Setups \cup Confirms \cup Resets \cup Updates /\ pc[r] = "commit"
      /\ e \in Known /\ account[e].id = seen[r].id /\ End(r, "done")
      /\ account' = [account EXCEPT ![e] = a] /\ UNCHANGED <<workspace, session>>
  BY DEF AccountCommit, StillThere
<1>2. r \notin Enders
  BY <1>1, Disjoint
<1>3. /\ a \in Account /\ a.id = account[e].id /\ a.owner = account[e].owner
      /\ r \notin Updates => a.active = account[e].active
  BY <1>1, ChangedRow, Typed
<1> HIDE DEF a
<1>4. /\ r \in InFlight /\ account' \in [Emails -> Account]
      /\ \A f \in Emails : /\ account'[f].id = account[f].id /\ account'[f].owner = account[f].owner
                           /\ f # e \/ r \notin Updates => account'[f].active = account[f].active
  BY <1>1, <1>3, Typed
<1>5. /\ pc' = [pc EXCEPT ![r] = "done"] /\ overlapped' = overlapped
      /\ \A q \in Requests : /\ q # r => order'[q] = order[q] /\ seen'[q] = seen[q]
                             /\ order'[q].email = order[q].email /\ order'[q].session = order[q].session
                             /\ order'[q].way = order[q].way
      /\ seen'[r] = NoAccount /\ Known' = Known
      /\ \A q \in Requests : q \in InFlight' <=> q # r /\ q \in InFlight
      /\ TypeOK' /\ StepsInOrder' /\ OverlapsKnown'
  BY <1>1, <1>4, DoneStep, Typed
<1>6. BelongTogether'
  <2>1. \A q \in SignIns : session'[q].status # "NONE" => \E f \in Known : account'[f].id = session'[q].of
    BY <1>1, <1>4, Typed DEF BelongTogether
  <2> QED
    BY <1>1, <1>4, <1>5, <2>1, DoneStep, Typed DEF BelongTogether
<1>7. MadeOnce'
  <2>1. \A q \in SignIns : session'[q].status # "NONE" => pc'[q] = "done"
    BY <1>1, <1>5, Typed DEF MadeOnce
  <2> QED
    BY <1>1, <1>4, <1>5, <2>1, DoneStep, Typed DEF MadeOnce
<1>8. \A s : Ended(s)' = Ended(s)
  BY <1>1, <1>2, <1>5, Typed, Names DEF Ended, Enders
<1>9. EndedOnce'
  BY <1>5, <1>8 DEF EndedOnce
<1>10. EndersInOrder'
  BY <1>1, <1>2, <1>5, Typed, Names DEF EndersInOrder, Enders
<1>11. EndingsInOrder'
  <2>1. \A s \in SignIns : Ended(s)' # {} => session'[s].status \in {"revoked", "NONE"} /\ pc'[s] = "done"
    BY <1>1, <1>5, <1>8, Typed DEF EndingsInOrder
  <2>2. \A q \in Enders : q \in InFlight' => q \in InFlight /\ order'[q].session = order[q].session
    BY <1>5, Names
  <2> QED
    BY <1>5, <1>8, <2>1, <2>2 DEF EndingsInOrder
<1>12. LetInActive'
  <2> SUFFICES ASSUME NEW q \in SignIns, NEW f \in Known,
                      q \in Refreshes \/ order[q].way = "google",
                      seen'[q].id = account[f].id, ~account'[f].active
               PROVE  DeactivatedDuring(q, f)'
    BY <1>4, <1>5, Typed DEF LetInActive
  <2>1. q # r /\ q \in Requests /\ seen[q].id = account[f].id
    BY <1>5, Typed, RecordTypes DEF Known
  <2>2. CASE ~account[f].active
    <3>1. DeactivatedDuring(q, f)
      BY <2>1, <2>2 DEF LetInActive
    <3> QED
      BY <1>1, <1>5, <3>1, Typed, Names DEF DeactivatedDuring
  <2>3. CASE account[f].active
    <3>1. f = e /\ r \in Updates
      BY <1>4, <2>3, Typed
    <3>2. q \in InFlight
      BY <2>1 DEF StepsInOrder, Known
    <3>3. Related(q, r)
      BY <3>1 DEF Related
    <3>4. {q, r} \in overlapped
      BY <1>4, <2>1, <3>2, <3>3 DEF OverlapsKnown
    <3> QED
      BY <1>5, <3>1, <3>4, Typed, Names DEF DeactivatedDuring
  <2> QED
    BY <2>2, <2>3
<1> QED
  BY <1>5, <1>6, <1>7, <1>9, <1>10, <1>11, <1>12

-----------------------------------------------------------------------------
\* The invariant holds at the start.
LEMMA InitInv == Init => IInv
<1> SUFFICES ASSUME Init PROVE IInv
  OBVIOUS
<1>1. /\ \A e \in Emails : account[e] = NoAccount
      /\ \A r \in SignIns : session[r] = NoSession
      /\ \A r \in Requests : pc[r] = "new" /\ order[r] = NoOrder /\ seen[r] = NoAccount
      /\ \A r \in Onboards : workspace[r] = [slug |-> 0, owner |-> None]
  BY DEF Init
<1>2. Known = {} /\ InFlight = {}
  BY <1>1, RecordTypes DEF Known, InFlight
<1>3. TypeOK
  BY RecordTypes DEF Init, TypeOK, Step
<1>4. \A s : Ended(s) = {}
  BY <1>1, RecordTypes, Names DEF Ended
<1>5. BelongTogether /\ EndedOnce
  BY <1>1, <1>2, <1>4, RecordTypes DEF BelongTogether, EndedOnce
<1>6. MadeOnce /\ StepsInOrder
  BY <1>1, <1>2, RecordTypes, Names DEF MadeOnce, StepsInOrder
<1>7. EndersInOrder /\ OverlapsKnown
  BY <1>1, <1>2, Names DEF EndersInOrder, OverlapsKnown
<1>8. EndingsInOrder /\ LetInActive
  BY <1>2, <1>4 DEF EndingsInOrder, LetInActive
<1> QED
  BY <1>3, <1>5, <1>6, <1>7, <1>8 DEF IInv

\* Every step keeps it.
LEMMA StepInv == IInv /\ [Next]_vars => IInv'
<1> SUFFICES ASSUME IInv, [Next]_vars PROVE IInv'
  OBVIOUS
<1>1. Known \subseteq Emails
  BY Typed
<1>2. UNCHANGED vars => IInv'
  <2> SUFFICES ASSUME UNCHANGED vars PROVE IInv'
    OBVIOUS
  <2>1. Known' = Known /\ InFlight' = InFlight /\ \A s : Ended(s)' = Ended(s)
    BY DEF vars, Known, InFlight, Ended
  <2>2. TypeOK' /\ BelongTogether' /\ MadeOnce'
    BY <2>1 DEF vars, IInv, TypeOK, BelongTogether, MadeOnce
  <2>3. EndedOnce' /\ OverlapsKnown' /\ EndingsInOrder'
    BY <2>1 DEF vars, IInv, EndedOnce, OverlapsKnown, Related, EndingsInOrder
  <2>4. StepsInOrder' /\ EndersInOrder'
    BY <2>1 DEF vars, IInv, StepsInOrder, EndersInOrder
  <2>5. \A r, e : DeactivatedDuring(r, e)' <=> DeactivatedDuring(r, e)
    BY DEF vars, DeactivatedDuring
  <2>6. LetInActive'
    BY <2>1, <2>5 DEF vars, IInv, LetInActive
  <2> QED
    BY <2>2, <2>3, <2>4, <2>6 DEF IInv
<1> QED
  BY <1>2, NextSplit, ReadSteps, SessionReadSteps, FailStep, PurgeStep, ExpireStep, LoadSteps, CreateSteps,
     SessionCommitStep, EndingSteps, AccountCommitStep

LEMMA Invariant == Spec => []IInv
BY InitInv, StepInv, PTL DEF Spec

(***************************************************************************)
(* The theorems.                                                           *)
(***************************************************************************)
\* Accounts, workspaces and sessions belong together however requests overlap
\* (auth_service.py, user_service.py).
THEOREM AccountsConsistent == Spec => []Consistent
BY Invariant, PTL DEF IInv, Consistent

\* A session is ended once, unless two requests that end it overlapped
\* (refresh_access_token, revoke_session).
THEOREM SessionsEndOnce == Spec => []EndedOnce
<1>1. IInv => EndedOnce
  BY DEF IInv
<1> QED
  BY <1>1, Invariant, PTL

\* Who is inactive renews no session and comes in by no Google login, unless he
\* was deactivated meanwhile (refresh_access_token, authenticate_google).
THEOREM InactiveStayOut == Spec => InactiveNotRenewed
<1> DEFINE Renewed(r, e) ==
       /\ session[r].status = "NONE" /\ session'[r].status # "NONE"
       /\ session'[r].of = account[e].id /\ ~account[e].active
       /\ r \in Refreshes \/ order[r].way = "google"
     Kept == \A r \in SignIns, e \in Emails : Renewed(r, e) => DeactivatedDuring(r, e)
<1>1. IInv /\ [Next]_vars => Kept
  <2> SUFFICES ASSUME IInv, [Next]_vars, NEW r \in SignIns, NEW e \in Emails, Renewed(r, e)
               PROVE  DeactivatedDuring(r, e)
    OBVIOUS
  <2> USE DEF IInv
  <2>1. session' # session /\ session[r] # session'[r]
    OBVIOUS
  <2>2. \A q \in Requests : SessionCommit(q) => DeactivatedDuring(r, e)
    <3> SUFFICES ASSUME NEW q \in Requests, SessionCommit(q) PROVE DeactivatedDuring(r, e)
      OBVIOUS
    <3> DEFINE f == order[q].email
    <3>1. /\ f \in Known /\ account[f].id = seen[q].id /\ q = r
          /\ session'[r].of = account[f].id
      BY <2>1, Typed DEF SessionCommit, StillThere
    <3>2. f = e
      BY <3>1, Typed DEF MadeOnce, Known
    <3> QED
      BY <3>1, <3>2 DEF LetInActive
  <2>3. \A q \in Requests : RefreshCommit(q) => DeactivatedDuring(r, e)
    <3> SUFFICES ASSUME NEW q \in Requests, RefreshCommit(q) PROVE DeactivatedDuring(r, e)
      OBVIOUS
    <3> DEFINE s == order[q].session
    <3>1. /\ q \in Refreshes /\ q \in InFlight /\ pc[q] = "commit" /\ session[s].status # "NONE" /\ s \in SignIns
          /\ session' = [session EXCEPT ![s].status = "revoked",
                                        ![q] = [of |-> seen[q].id, parent |-> s, status |-> "live"]]
      BY Typed DEF RefreshCommit, EndersInOrder, Enders
    <3>2. q = r /\ session'[r].of = seen[r].id
      BY <3>1, Typed DEF EndersInOrder, Enders
    <3>3. \E g \in Known : account[g].id = seen[r].id
      BY <3>1, <3>2 DEF BelongTogether, EndersInOrder
    <3>4. e \in Known
      BY <3>2, <3>3 DEF Known
    <3> QED
      BY <3>2, <3>4 DEF LetInActive
  <2>4. /\ \A q \in Refreshes, s \in SignIns : ~RefreshRead(q, s)
        /\ \A q \in Logouts, s \in SignIns : ~LogoutRead(q, s)
        /\ \A q \in Requests : /\ ~OnboardCommit(q) /\ ~InviteCommit(q) /\ ~OnboardLogin(q)
                               /\ ~RefreshUser(q) /\ ~AccountCommit(q) /\ ~Fail(q)
        /\ ~UNCHANGED vars
    BY <2>1 DEF RefreshRead, LogoutRead, Begin, OnboardCommit, InviteCommit, OnboardLogin, RefreshUser,
                AccountCommit, Fail, vars
  <2>5. /\ \A q \in Onboards, f \in Emails, p \in Passwords : ~OnboardRead(q, f, p)
        /\ \A q \in Invites, f \in Emails, p \in Passwords, b \in BOOLEAN : ~InviteRead(q, f, p, b)
        /\ \A q \in Logins, f \in Emails, p \in Passwords, way \in {"password", "code", "google"}, k \in Secrets :
             ~LoginRead(q, f, way, p, k)
        /\ \A q \in Resets, f \in Emails, p \in Passwords : ~ResetRead(q, f, p)
        /\ \A q \in Setups, f \in Known : ~SetupRead(q, f)
        /\ \A q \in Confirms, f \in Known : ~ConfirmRead(q, f)
        /\ \A q \in Updates, f \in Known, b \in BOOLEAN : ~UpdateRead(q, f, b)
    BY <2>1 DEF OnboardRead, InviteRead, LoginRead, ResetRead, SetupRead, ConfirmRead, UpdateRead, AccountRead, Begin
  <2>6. /\ \A f \in Known : ~Purge(f)
        /\ \A s \in SignIns : ~Expire(s)
        /\ \A q \in Requests : ~LogoutCommit(q)
    <3>1. \A f \in Known : ~Purge(f)
      BY <2>1, RecordTypes DEF Purge
    <3>2. \A s \in SignIns : ~Expire(s)
      BY Typed DEF Expire, Session
    <3>3. ASSUME NEW q \in Requests, LogoutCommit(q) PROVE FALSE
      BY <3>3, Typed DEF LogoutCommit, Session
    <3> QED
      BY <3>1, <3>2, <3>3
  <2> HIDE DEF IInv, Renewed
  <2> QED
    BY <2>2, <2>3, <2>4, <2>5, <2>6, NextSplit
<1>2. Kept => [\A r \in SignIns, e \in Emails :
       /\ session[r].status = "NONE" /\ session'[r].status # "NONE"
       /\ session'[r].of = account[e].id /\ ~account[e].active
       /\ r \in Refreshes \/ order[r].way = "google"
       => \E u \in Updates : pc[u] = "done" /\ order[u].email = e /\ {r, u} \in overlapped]_vars
  BY DEF DeactivatedDuring
<1> HIDE DEF Kept
<1> QED
  BY <1>1, <1>2, Invariant, PTL DEF Spec, InactiveNotRenewed

\* No request undoes a column of an account that another one has written: the
\* password changes only by a reset, the secret by a setup, the activation by an
\* update, and no second factor is switched off (setup_mfa, confirm_mfa,
\* reset_password_with_otp, update_user, verify_login_otp).
THEOREM NoColumnLost == Spec => ColumnsKept
<1> DEFINE By(kind, e) == \E r \in kind : pc[r] = "commit" /\ pc'[r] = "done" /\ order[r].email = e
     RowKept(e) ==
       /\ account'[e].password # account[e].password => By(Resets, e)
       /\ account'[e].secret # account[e].secret => By(Setups, e)
       /\ account'[e].active # account[e].active => By(Updates, e)
       /\ account[e].mfa => account'[e].mfa
       /\ account[e].verified => account'[e].verified
     Kept == \A e \in Emails : account[e].id # None /\ account'[e].id = account[e].id => RowKept(e)
<1>1. IInv /\ [Next]_vars => Kept
  <2> SUFFICES ASSUME IInv, [Next]_vars, NEW e \in Emails, e \in Known, account'[e].id = account[e].id
               PROVE  RowKept(e)
    BY DEF Known
  <2>1. account'[e] = account[e] => RowKept(e)
    OBVIOUS
  <2>2. ASSUME NEW r \in Requests, OnboardCommit(r) \/ InviteCommit(r) PROVE RowKept(e)
    <3>1. order[r].email \notin Known
      BY <2>2 DEF OnboardCommit, InviteCommit, Unique
    <3>2. account'[e] = account[e]
      BY <2>2, <3>1, Typed DEF OnboardCommit, InviteCommit
    <3> HIDE DEF RowKept
    <3> QED
      BY <2>1, <3>2
  <2>3. ASSUME NEW r \in Requests, SessionCommit(r) PROVE RowKept(e)
    <3>1. account'[e] = account[e] \/ account'[e] = [account[e] EXCEPT !.verified = TRUE]
      BY <2>3, Typed DEF SessionCommit, SignedIn
    <3>2. CASE account'[e] = [account[e] EXCEPT !.verified = TRUE]
      BY <3>2, Typed DEF Account
    <3> HIDE DEF RowKept
    <3> QED
      BY <2>1, <3>1, <3>2
  <2>4. ASSUME NEW r \in Requests, AccountCommit(r) PROVE RowKept(e)
    <3>1. /\ r \in Setups \cup Confirms \cup Resets \cup Updates /\ pc[r] = "commit" /\ pc'[r] = "done"
          /\ account' = [account EXCEPT ![order[r].email] = Changed(r, account[order[r].email])]
      BY <2>4, Typed DEF AccountCommit, End
    <3>2. CASE order[r].email # e
      <4>1. account'[e] = account[e]
        BY <3>1, <3>2, Typed
      <4> HIDE DEF RowKept
      <4> QED
        BY <2>1, <4>1
    <3>3. CASE order[r].email = e
      <4>1. account'[e] = Changed(r, account[e])
        BY <3>1, <3>3, Typed
      <4>2. /\ r \notin Resets => account'[e].password = account[e].password
            /\ r \notin Setups => account'[e].secret = account[e].secret
            /\ r \notin Updates => account'[e].active = account[e].active
            /\ account[e].mfa => account'[e].mfa
            /\ account[e].verified => account'[e].verified
        BY <3>1, <4>1, ChangedRow, Typed
      <4> QED
        BY <3>1, <3>3, <4>2
    <3> QED
      BY <3>2, <3>3
  <2>5. \A f \in Known : Purge(f) => RowKept(e)
    <3> SUFFICES ASSUME NEW f \in Known, Purge(f) PROVE RowKept(e)
      OBVIOUS
    <3>1. f # e
      BY RecordTypes, Typed DEF Purge, Known
    <3>2. account'[e] = account[e]
      BY <3>1, Typed DEF Purge
    <3> HIDE DEF RowKept
    <3> QED
      BY <2>1, <3>2
  <2>6. /\ \A q \in Refreshes, s \in SignIns : RefreshRead(q, s) => account' = account
        /\ \A q \in Logouts, s \in SignIns : LogoutRead(q, s) => account' = account
        /\ \A s \in SignIns : Expire(s) => account' = account
        /\ \A q \in Requests : /\ OnboardLogin(q) => account' = account
                               /\ RefreshUser(q) => account' = account
                               /\ RefreshCommit(q) => account' = account
                               /\ LogoutCommit(q) => account' = account
                               /\ Fail(q) => account' = account
        /\ UNCHANGED vars => account' = account
    BY DEF RefreshRead, LogoutRead, Begin, Expire, OnboardLogin, RefreshUser, RefreshCommit, LogoutCommit, Fail, vars
  <2>7. /\ \A q \in Onboards, f \in Emails, p \in Passwords : OnboardRead(q, f, p) => account' = account
        /\ \A q \in Invites, f \in Emails, p \in Passwords, b \in BOOLEAN :
             InviteRead(q, f, p, b) => account' = account
        /\ \A q \in Logins, f \in Emails, p \in Passwords, way \in {"password", "code", "google"}, k \in Secrets :
             LoginRead(q, f, way, p, k) => account' = account
        /\ \A q \in Resets, f \in Emails, p \in Passwords : ResetRead(q, f, p) => account' = account
        /\ \A q \in Setups, f \in Known : SetupRead(q, f) => account' = account
        /\ \A q \in Confirms, f \in Known : ConfirmRead(q, f) => account' = account
        /\ \A q \in Updates, f \in Known, b \in BOOLEAN : UpdateRead(q, f, b) => account' = account
    BY DEF OnboardRead, InviteRead, LoginRead, ResetRead, SetupRead, ConfirmRead, UpdateRead, AccountRead, Begin
  <2>8. account' = account => RowKept(e)
    BY <2>1
  <2> HIDE DEF RowKept
  <2> QED
    BY <2>2, <2>3, <2>4, <2>5, <2>6, <2>7, <2>8, NextSplit
<1>2. Kept => [\A e \in Emails :
       account[e].id # None /\ account'[e].id = account[e].id =>
         LET by(kind) == \E r \in kind : pc[r] = "commit" /\ pc'[r] = "done" /\ order[r].email = e IN
         /\ account'[e].password # account[e].password => by(Resets)
         /\ account'[e].secret # account[e].secret => by(Setups)
         /\ account'[e].active # account[e].active => by(Updates)
         /\ account[e].mfa => account'[e].mfa
         /\ account[e].verified => account'[e].verified]_vars
  OBVIOUS
<1> HIDE DEF Kept
<1> QED
  BY <1>1, <1>2, Invariant, PTL DEF Spec, ColumnsKept
=============================================================================
