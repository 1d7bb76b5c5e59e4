------------------------------ MODULE Accounts ------------------------------
(***************************************************************************)
(* Accounts and login sessions: onboarding of a workspace with its owner,  *)
(* logins, rotation of refresh tokens, logout, second factors and password *)
(* resets (services/auth_service.py), team members, their activation and   *)
(* their removal (services/user_service.py).                               *)
(*                                                                         *)
(* A request is one transaction (an onboarding two): what it read may be   *)
(* stale when it commits, its flush writes only the columns whose value    *)
(* differs from the one loaded, and an update of a row that is gone fails. *)
(* A request that is refused leaves nothing, since get_db rolls back:      *)
(* neither the count of failed logins that authenticate_user flushes before*)
(* it raises nor the lock that follows from it.                            *)
(***************************************************************************)
EXTENDS Naturals, FiniteSets

CONSTANTS
  Onboards,   \* requests to POST /auth/register or /auth/signup/verify-otp
  Invites,    \* requests to POST /users
  Logins,     \* requests to POST /auth/login, /auth/login/verify-otp or /auth/google
  Refreshes,  \* requests to POST /auth/refresh
  Logouts,    \* requests to POST /auth/logout
  Setups,     \* requests to POST /auth/mfa/setup; each names the secret it draws
  Confirms,   \* requests to POST /auth/mfa/confirm
  Resets,     \* requests to POST /auth/reset-password with a code
  Updates,    \* requests to PUT or DELETE /users/{id}
  Emails,
  Passwords,
  Requested,  \* bound: requests that are made
  Slots,      \* bound: requests that are served at a time
  None        \* a missing value or row

Creators == Onboards \cup Invites

SignIns == Onboards \cup Logins \cup Refreshes

Requests == Creators \cup SignIns \cup Logouts \cup Setups \cup Confirms \cup Resets \cup Updates

Kinds == <<Onboards, Invites, Logins, Refreshes, Logouts, Setups, Confirms, Resets, Updates>>

ASSUME AccountsAssumption ==
  /\ \A i, j \in DOMAIN Kinds : i # j => Kinds[i] \cap Kinds[j] = {}
  /\ IsFiniteSet(Onboards) /\ Requested \in Nat /\ Slots \in Nat
  /\ None \notin Requests \cup Emails \cup Passwords

VARIABLES
  account,     \* rows of users by their email, which is unique
  workspace,   \* organizations, with the owner and the draft election made with them
  session,     \* rows of user_sessions by the request that made them
  pc,          \* the request's next statement
  order,       \* what a request asks for
  seen,        \* the account that the request has loaded
  overlapped   \* history: pairs of requests that were in flight together, both on
               \* sessions or one of them an update

vars == <<account, workspace, session, pc, order, seen, overlapped>>

\* An account is known by the request that made it: an email may be used again.
Account ==
  [id : Creators \cup {None}, active : BOOLEAN, verified : BOOLEAN, owner : BOOLEAN,
   password : Passwords \cup {None}, secret : Setups \cup {None}, mfa : BOOLEAN]

NoAccount ==
  [id |-> None, active |-> FALSE, verified |-> FALSE, owner |-> FALSE,
   password |-> None, secret |-> None, mfa |-> FALSE]

Session ==
  [of : Creators \cup {None}, parent : SignIns \cup {None}, status : {"NONE", "live", "revoked", "expired"}]

NoSession == [of |-> None, parent |-> None, status |-> "NONE"]

Order ==
  [email : Emails \cup {None}, password : Passwords \cup {None}, slug : Nat, session : SignIns \cup {None},
   secret : Setups \cup {None}, active : BOOLEAN, way : {"none", "password", "code", "google"}]

NoOrder ==
  [email |-> None, password |-> None, slug |-> 0, session |-> None,
   secret |-> None, active |-> FALSE, way |-> "none"]

Step == {"new", "insert", "login", "session", "user", "commit", "done", "failed"}

InFlight == {r \in Requests : pc[r] \notin {"new", "done", "failed"}}

Known == {e \in Emails : account[e].id # None}

Related(q, r) ==
  \/ {q, r} \subseteq Refreshes \cup Logouts
  \/ {q, r} \cap Updates # {} /\ {q, r} \cap SignIns # {}

\* A request comes in, asks for o and has loaded the account a.
Begin(r, step, o, a) ==
  /\ pc[r] = "new"
  /\ Cardinality({q \in Requests : pc[q] # "new"}) < Requested
  /\ Cardinality(InFlight) < Slots
  /\ pc' = [pc EXCEPT ![r] = step]
  /\ order' = [order EXCEPT ![r] = o]
  /\ seen' = [seen EXCEPT ![r] = a]
  /\ overlapped' = overlapped \cup {{r, q} : q \in {p \in InFlight : Related(p, r)}}
  /\ UNCHANGED <<account, workspace, session>>

Goto(r, step) == pc' = [pc EXCEPT ![r] = step] /\ UNCHANGED <<order, overlapped>>

\* A request ends and forgets what it has loaded and the password.
End(r, how) ==
  /\ pc' = [pc EXCEPT ![r] = how]
  /\ order' = [order EXCEPT ![r] =
                 IF how = "failed" THEN NoOrder ELSE [@ EXCEPT !.password = None, !.slug = 0]]
  /\ seen' = [seen EXCEPT ![r] = NoAccount]
  /\ UNCHANGED overlapped

Init ==
  /\ account = [e \in Emails |-> NoAccount]
  /\ workspace = [r \in Onboards |-> [slug |-> 0, owner |-> None]]
  /\ session = [r \in SignIns |-> NoSession]
  /\ pc = [r \in Requests |-> "new"]
  /\ order = [r \in Requests |-> NoOrder]
  /\ seen = [r \in Requests |-> NoAccount]
  /\ overlapped = {}

\* The row that r has loaded is still there.
StillThere(r) == LET e == order[r].email IN e \in Known /\ account[e].id = seen[r].id

(***************************************************************************)
(* onboard_user and verify_signup_otp.  All workspaces have one name, so   *)
(* that their slugs differ in the suffix alone.                            *)
(***************************************************************************)
Slugs == {workspace[r].slug : r \in Onboards}

OnboardRead(r, e, password) ==
  /\ e \notin Known
  /\ \E slug \in 1..Cardinality(Onboards) :
       /\ slug \notin Slugs /\ 1..(slug - 1) \subseteq Slugs
       /\ Begin(r, "insert", [NoOrder EXCEPT !.email = e, !.password = password, !.slug = slug], NoAccount)

\* Mutant of Unique: nothing makes a slug unique.
UniqueEmail(e, slug) == e \notin Known

\* The constraints on users.email and organizations.slug.
Unique(e, slug) == e \notin Known /\ slug \notin Slugs

\* The organization, its draft election, its owner and his role, in one commit.
OnboardCommit(r) ==
  LET o == order[r] IN
  /\ r \in Onboards
  /\ pc[r] = "insert"
  /\ Unique(o.email, o.slug)
  /\ workspace' = [workspace EXCEPT ![r] = [slug |-> o.slug, owner |-> o.email]]
  /\ account' = [account EXCEPT ![o.email] =
                   [NoAccount EXCEPT !.id = r, !.active = TRUE, !.verified = TRUE,
                                     !.owner = TRUE, !.password = o.password]]
  /\ Goto(r, "login")
  /\ UNCHANGED <<session, seen>>

(***************************************************************************)
(* create_user: a member of the administrator's team.                      *)
(***************************************************************************)
InviteRead(r, e, password, active) ==
  /\ e \notin Known
  /\ Begin(r, "insert", [NoOrder EXCEPT !.email = e, !.password = password, !.active = active], NoAccount)

InviteCommit(r) ==
  LET o == order[r] IN
  /\ r \in Invites
  /\ pc[r] = "insert"
  /\ o.email \notin Known
  /\ account' = [account EXCEPT ![o.email] =
                   [NoAccount EXCEPT !.id = r, !.active = o.active, !.password = o.password]]
  /\ End(r, "done")
  /\ UNCHANGED <<workspace, session>>

(***************************************************************************)
(* authenticate_user, verify_login_otp and authenticate_google.            *)
(***************************************************************************)
\* Mutant of MaySignIn: who comes from Google need not be active.
MaySignInAny(a, way, password, secret) ==
  way = "google" \/ (a.password = password /\ (a.mfa => secret = a.secret) /\ (a.verified \/ way = "code"))

\* Whether the account a is let in.  Google tells who the user is, and only
\* then is it asked whether he is active; else the password must be right, the
\* second factor if he has one, and the account verified, if not by the code
\* that is sent to it.
MaySignIn(a, way, password, secret) ==
  IF way = "google" THEN a.active
  ELSE /\ a.password = password
       /\ a.mfa => secret = a.secret /\ way # "code"
       /\ a.verified \/ way = "code"

\* An account that Google knows and we do not cannot be made: it would have no
\* password_hash, which users requires.
LoginRead(r, e, way, password, secret) ==
  /\ e \in Known
  /\ MaySignIn(account[e], way, password, secret)
  /\ Begin(r, "session", [NoOrder EXCEPT !.email = e, !.way = way], account[e])

\* An onboarding goes on with the login of its owner.
OnboardLogin(r) ==
  LET e == order[r].email IN
  /\ pc[r] = "login"
  /\ e \in Known
  /\ MaySignIn(account[e], "password", order[r].password, None)
  /\ seen' = [seen EXCEPT ![r] = account[e]]
  /\ Goto(r, "session")
  /\ UNCHANGED <<account, workspace, session>>

\* Mutant of SignedIn: the row is written as it was loaded.
SignedInWholeRow(row, old, way) == IF way = "password" THEN old ELSE [old EXCEPT !.verified = TRUE]

\* The row after a sign-in: a code or Google verifies it.
SignedIn(row, old, way) ==
  IF way \in {"code", "google"} /\ ~old.verified THEN [row EXCEPT !.verified = TRUE] ELSE row

SessionCommit(r) ==
  LET e == order[r].email IN
  /\ pc[r] = "session"
  /\ StillThere(r)
  /\ account' = [account EXCEPT ![e] = SignedIn(account[e], seen[r], order[r].way)]
  /\ session' = [session EXCEPT ![r] = [of |-> account[e].id, parent |-> None, status |-> "live"]]
  /\ End(r, "done")
  /\ UNCHANGED workspace

(***************************************************************************)
(* refresh_access_token and revoke_session.                                *)
(***************************************************************************)
\* Mutant of MayRefresh: a token serves until it expires.
MayRefreshRevoked(s) == session[s].status \in {"live", "revoked"}

\* The session is there, not revoked and not expired.
MayRefresh(s) == session[s].status = "live"

RefreshRead(r, s) ==
  /\ MayRefresh(s)
  /\ Begin(r, "user", [NoOrder EXCEPT !.session = s], NoAccount)

\* A refresh that has flushed the session s keeps its row until it ends.
Held(s) == \E q \in Refreshes : pc[q] = "commit" /\ order[q].session = s

\* The old session is flushed as revoked, then its user is loaded.
RefreshUser(r) ==
  \E e \in Known :
    /\ r \in Refreshes
    /\ pc[r] = "user"
    /\ ~Held(order[r].session)
    /\ session[order[r].session].of = account[e].id
    /\ account[e].active
    /\ seen' = [seen EXCEPT ![r] = account[e]]
    /\ Goto(r, "commit")
    /\ UNCHANGED <<account, workspace, session>>

RefreshCommit(r) ==
  LET s == order[r].session IN
  /\ r \in Refreshes
  /\ pc[r] = "commit"
  /\ session[s].status # "NONE"
  /\ session' = [session EXCEPT ![s].status = "revoked",
                                ![r] = [of |-> seen[r].id, parent |-> s, status |-> "live"]]
  /\ End(r, "done")
  /\ UNCHANGED <<account, workspace>>

\* A session that is revoked already is left alone.
LogoutRead(r, s) ==
  /\ session[s].status \in {"live", "expired"}
  /\ Begin(r, "commit", [NoOrder EXCEPT !.session = s], NoAccount)

LogoutCommit(r) ==
  /\ r \in Logouts
  /\ pc[r] = "commit"
  /\ ~Held(order[r].session)
  /\ session[order[r].session].status # "NONE"
  /\ session' = [session EXCEPT ![order[r].session].status = "revoked"]
  /\ End(r, "done")
  /\ UNCHANGED <<account, workspace>>

\* Thirty days go by.
Expire(s) ==
  /\ session[s].status = "live"
  /\ session' = [session EXCEPT ![s].status = "expired"]
  /\ UNCHANGED <<account, workspace, pc, order, seen, overlapped>>

(***************************************************************************)
(* Requests that change a column of an account: setup_mfa, confirm_mfa,    *)
(* reset_password_with_otp, update_user and delete_user.                   *)
(***************************************************************************)
AccountRead(r, e, o) == e \in Known /\ Begin(r, "commit", [o EXCEPT !.email = e], account[e])

\* The first two are for those who are signed in, and therefore active.
SetupRead(r, e) == account[e].active /\ AccountRead(r, e, [NoOrder EXCEPT !.secret = r])

\* The code is right for the secret that is loaded.
ConfirmRead(r, e) ==
  /\ account[e].active /\ account[e].secret # None
  /\ AccountRead(r, e, [NoOrder EXCEPT !.secret = account[e].secret])

ResetRead(r, e, password) == AccountRead(r, e, [NoOrder EXCEPT !.password = password])

UpdateRead(r, e, active) == AccountRead(r, e, [NoOrder EXCEPT !.active = active])

\* The row after the request r.
Changed(r, row) ==
  LET o == order[r]  old == seen[r] IN
  CASE r \in Setups   -> [row EXCEPT !.secret = o.secret]
    [] r \in Confirms -> [row EXCEPT !.mfa = TRUE]
    [] r \in Resets   -> [row EXCEPT !.password = o.password, !.verified = TRUE]
    [] r \in Updates  -> [row EXCEPT !.active = IF o.active = old.active THEN @ ELSE o.active]

AccountCommit(r) ==
  LET e == order[r].email IN
  /\ r \in Setups \cup Confirms \cup Resets \cup Updates
  /\ pc[r] = "commit"
  /\ StillThere(r)
  /\ account' = [account EXCEPT ![e] = Changed(r, account[e])]
  /\ End(r, "done")
  /\ UNCHANGED <<workspace, session>>

\* purge_user: the row goes, and its sessions with it.  Whoever has checked
\* voters in is not purged.
Purge(e) ==
  /\ e \in Known
  /\ \A s \in SignIns : session[s].of = account[e].id => ~Held(s)
  /\ account' = [account EXCEPT ![e] = NoAccount]
  /\ session' = [r \in SignIns |-> IF session[r].of = account[e].id THEN NoSession ELSE session[r]]
  /\ UNCHANGED <<workspace, pc, order, seen, overlapped>>

\* A request is refused, breaks off or fails to commit.
Fail(r) ==
  /\ r \in InFlight
  /\ End(r, "failed")
  /\ UNCHANGED <<account, workspace, session>>

Secrets == Setups \cup {None}

Next ==
  \/ \E e \in Emails, p \in Passwords :
       \/ \E r \in Onboards : OnboardRead(r, e, p)
       \/ \E r \in Invites, active \in BOOLEAN : InviteRead(r, e, p, active)
       \/ \E r \in Logins, way \in {"password", "code", "google"}, k \in Secrets : LoginRead(r, e, way, p, k)
       \/ \E r \in Resets : ResetRead(r, e, p)
  \/ \E e \in Known :
       \/ \E r \in Setups : SetupRead(r, e)
       \/ \E r \in Confirms : ConfirmRead(r, e)
       \/ \E r \in Updates, active \in BOOLEAN : UpdateRead(r, e, active)
       \/ Purge(e)
  \/ \E s \in SignIns :
       \/ \E r \in Refreshes : RefreshRead(r, s)
       \/ \E r \in Logouts : LogoutRead(r, s)
       \/ Expire(s)
  \/ \E r \in Requests :
       \/ OnboardCommit(r) \/ InviteCommit(r) \/ OnboardLogin(r) \/ SessionCommit(r)
       \/ RefreshUser(r) \/ RefreshCommit(r) \/ LogoutCommit(r) \/ AccountCommit(r)
       \/ Fail(r)
  \/ InFlight = {} /\ UNCHANGED vars

Spec == Init /\ [][Next]_vars

-----------------------------------------------------------------------------
(***************************************************************************)
(* Properties.                                                             *)
(***************************************************************************)
\* Every variable has its type.
TypeOK ==
  /\ account \in [Emails -> Account]
  /\ workspace \in [Onboards -> [slug : Nat, owner : Emails \cup {None}]]
  /\ session \in [SignIns -> Session]
  /\ pc \in [Requests -> Step]
  /\ order \in [Requests -> Order]
  /\ seen \in [Requests -> Account]
  /\ overlapped \subseteq SUBSET Requests

\* Accounts, workspaces and sessions belong together: an owner has the
\* workspace that was made with him, no two workspaces share a slug, and a
\* session belongs to an account that is still there.
BelongTogether ==
  /\ \A e \in Known : account[e].owner <=> account[e].id \in Onboards
  /\ \A e \in Known : account[e].owner => workspace[account[e].id].owner = e
  /\ \A q, r \in Onboards :
       q # r /\ workspace[q].owner # None => workspace[q].slug # workspace[r].slug
  /\ \A r \in SignIns :
       session[r].status # "NONE" => \E e \in Known : account[e].id = session[r].of

Consistent == TypeOK /\ BelongTogether

\* The requests that have ended the session s, each having found it live.
Ended(s) ==
  {r \in Refreshes : session[r].status # "NONE" /\ session[r].parent = s}
    \cup {r \in Logouts : pc[r] = "done" /\ order[r].session = s}

\* A session is ended once: by one refresh, which gives one successor, or by a
\* logout, after which nothing succeeds it, unless two of them overlapped.
EndedOnce ==
  \A s \in SignIns : \A q, r \in Ended(s) : q # r => {q, r} \in overlapped

\* Nobody who is inactive gets a new session in exchange for an old one or from
\* Google, unless he was deactivated while it was being made.
InactiveNotRenewed ==
  [][\A r \in SignIns, e \in Emails :
       /\ session[r].status = "NONE" /\ session'[r].status # "NONE"
       /\ session'[r].of = account[e].id /\ ~account[e].active
       /\ r \in Refreshes \/ order[r].way = "google"
       => \E u \in Updates : pc[u] = "done" /\ order[u].email = e /\ {r, u} \in overlapped]_vars

\* Requests on one account do not undo each other's columns: the password
\* changes only by a reset, the secret only by a setup, the activation only by
\* an update, and no second factor is switched off.
ColumnsKept ==
  [][\A e \in Emails :
       account[e].id # None /\ account'[e].id = account[e].id =>
         LET by(kind) == \E r \in kind : pc[r] = "commit" /\ pc'[r] = "done" /\ order[r].email = e IN
         /\ account'[e].password # account[e].password => by(Resets)
         /\ account'[e].secret # account[e].secret => by(Setups)
         /\ account'[e].active # account[e].active => by(Updates)
         /\ account[e].mfa => account'[e].mfa
         /\ account[e].verified => account'[e].verified]_vars
=============================================================================
