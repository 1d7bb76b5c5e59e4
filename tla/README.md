# A verification of the VoteVictory backend

TLA+ models of the VoteVictory backend (FastAPI, SQLAlchemy, PostgreSQL,
Redis): the election core, the voter roll, accounts, field data, the back
office and the deployment; TLC runs on small instances, and TLAPS proofs for
any number of voters, elections and requests.

## 1. The system

Every HTTP request runs a handler of `app/api/v1/endpoints`, which calls a
service of `app/services` with an `AsyncSession` from `get_db`
(`core/database.py:61-71`): the session commits when the handler returns and
rolls back on any exception. PostgreSQL runs at READ COMMITTED, the session
has `autoflush=False` and `expire_on_commit=False`. There is no other shared
state than the tables (and Redis for the rate limit): the components interact
through rows. Three facts about transactions drive everything below:

* a row is **read** without a lock (one `SELECT ... FOR UPDATE` excepted,
  `voting_service.py:166`) and **written** at the next flush, which waits for
  the row's lock and holds it until the commit;
* an UPDATE writes only the **columns whose value differs from the one loaded**,
  so two requests can both write one row and neither loses its columns, and a
  request that finds a column as it wants it does not write it;
* a check and the write it allows are separate statements, so another
  request's commit can come between them.

### Components

| Component | State | Operations | Correct when |
|---|---|---|---|
| Voting engine (`voting_service.py`) | `voting_sessions`, `ballots`, `votes`, `voters.has_voted`, `voting_status` | issue a ballot, cast a ballot | at most one ballot per voter; marks, sessions and ballots agree; the box is never emptied |
| Check-in (`checkin_service.py`) | `voter_checkins`, `voters` | check a voter in | one row per voter and election; the roll shows it; no vote undone |
| Voter roll (`voter_service.py`) | `voters`, `voter_verifications` | enrol, update, verify, delete, bulk delete | a number belongs to one voter; deletions leave no dangling rows |
| Bulk import (`import_service.py`) | `import_jobs`, `voters` | preview, confirm, cancel | each record once, whole, never after a cancellation |
| Election lifecycle (`election_service.py`) | `elections`, `election_settings` | create, edit, transition | only mapped transitions; locked elections are not edited |
| Results (`result_service.py`) | `results`, `result_summaries`, `elections.status` | tally, publish, read | rows cover the candidates once, with true counts |
| Candidates, positions | `candidates`, `positions` | create, approve, move, delete | results tell who stood, and what changed since |
| Database sessions (`core/database.py`, `repositories`) | transactions, pool | commit, roll back | all or nothing, locks freed |
| Authentication (`auth_service.py`, `core/security.py`) | `users`, `organizations`, `user_sessions` | onboard, sign in, second factor, refresh, log out, reset | owner and workspace come together; a session ends once; requests keep off each other's columns |
| Users, roles, permissions (`user_service.py`, `core/permissions.py`) | `users`, `roles`, `role_permissions` | invite, update, deactivate, purge | nobody is served what the role forbids |
| Routes and guards (`router.py`, `core/dependencies.py`) | none | dispatch, admit | a path is answered by the handler written for it |
| Field data (`data_collection_service.py`, `duplicate_detection_service.py`) | submissions, duplicates, reviews, counters | submit, review, bulk review, resolve | counters equal what they count; duplicates are suspected; logs tell the truth |
| Volunteers (`volunteer_service.py`) | profiles, targets, assignments | set targets, update | profile and last target agree |
| Complaints, tasks, activities, posters | one table each, notifications | file, edit, assign, review, share | only who may edits; dates, reviewers and notifications fit |
| Expenses (`expense_service.py`) | `expenses` | add, delete, sum | the ceiling is never exceeded |
| Broadcast, campaigns (`broadcast_service.py`, `notification_service.py`, `adapters`) | groups, logs, counters | draft, send | each member is written to once; logs tell what left, mocked adapters apart |
| Rate limiter (`core/rate_limit.py`) | Redis set, a list per worker | check | the limit holds in every window |
| Deployment (`alembic`, `main.py`, `core/bootstrap.py`, scripts) | schema, seeded rows | migrate, create, seed, reset | the version is not ahead of the schema; the release is seeded once |
| Subscriptions, stations, areas, booths, constituencies, teams, organizations | one table each | create, update, delete | per row |
| Audit log | `audit_logs` | append | |
| Dashboards, analytics, reports | none | read | |
| Content (banners, templates, rendering, alerts), webhooks, workers, middleware | files, providers | I/O | |

Hard to test are the interleavings of several requests on one row (cast
against cast, check-in against cast, transition against transition, tally
against tally or publication, review against merge, refresh against logout),
what a rollback leaves behind and what it cannot take back (a message, a count
in Redis), deadlocks between row locks, checks that are stale when their write
lands, and processes that start together on one database. `PROJECT.json` lists
each at its line under `hazards`.

## 2. Modules

| Module | What it is |
|---|---|
| `BallotBox` | Abstract specification: a voter puts at most one ballot into a box that only grows and does not tell who voted how. |
| `VotingEngine` | Ballot issue, cast, check-in, review and deletion of voters as concurrent transactions. |
| `VotingDay` | The engine on a roll from which voters are deleted and to which they are enrolled again. |
| `MCVotingEngine`, `MCVotingDay`, `VotingEngineProofs` | Their instances for TLC, and the theorems about both. |
| `ElectionLifecycle`, `MCElectionLifecycle`, `ElectionLifecycleProofs` | The status of one election under transitions, edits and publication, and the theorems. |
| `ResultTally`, `MCResultTally`, `ResultTallyProofs` | Tally and publication of one election's results while ballots arrive, positions come, and candidates come, move and go. |
| `VoterRoll`, `MCVoterRoll`, `VoterRollProofs` | Enrolment one by one and in batches, deletion, and bulk imports with preview, confirmation and cancellation; its theorems. |
| `Accounts`, `MCAccounts`, `AccountsProofs` | Onboarding, sign-in, sessions, second factors, resets, and what administrators do to accounts; its theorems. |
| `FieldData`, `MCFieldData`, `FieldDataProofs` | Submissions with their scan for duplicates, reviews, resolutions and the volunteer's counters; its theorems. |
| `Deployment`, `MCDeployment`, `DeploymentProofs` | Migrations, start of containers and workers, seeding, and the scripts that remake a database; its theorems. |
| `Desk` | Tasks, targets, complaints, activities and shared posters: requests that load a row, decide and write. |
| `Budget` | Expenses and their ceiling. |
| `Outreach` | Groups, drafts, sends, broadcasts and campaigns, with messages that leave before the commit. |
| `RateLimiter` | The sliding window in Redis and in a worker's own list. |
| `Access` | All routes, their guards, and the permissions of roles. |
| `Office`, `MCOffice`, `OfficeProofs` | `Desk`, `Budget`, `Outreach`, `RateLimiter` and `Access` put together, and the theorems about all of them. |

### How state and actions correspond to the code

`VotingEngine` has a variable per column that a guard reads or an operation
writes (`has_voted`, `voting_status`, `status`, `session_status`, ...), the
sets of rows (`roll`, `ballots`, `checkins`), the two kinds of row lock the
operations take, and per request its progress `pc`, its parameters `arg` and
the loaded columns that decide what an UPDATE writes (`seen`). An action is
one statement that reads or locks a row, or the commit; a flush that waits for
a row is enabled only when the row is free; a refusal or a failure is `Fail`,
which undoes and unlocks everything, as `get_db` does. The parameters of a
request are arbitrary: `/voting/cast` takes the voter, the session and the
election from the request and nothing ties them together, and the model keeps
it that way.

`VotingDay` adds `Enrol` to the engine. The number of an enrolled voter is the
primary key, so a request that loaded the row before it was deleted goes on with
the new row of that number; a deletion that found no row at its `DELETE` leaves
the new one alone (`Holds`). `outdated` is a history variable: the ballots of
voters whose row has been deleted since. An enrolment is one step, its commit,
since the query and the primary key refuse a number that is there and an
uncommitted row is invisible. A check-in that loaded a checked-in voter and has
nothing to update still locks the row in the model; the INSERT alone would take
a weaker lock.

`ElectionLifecycle` models connections that serve one request after another
instead of one-shot requests, because the statuses an election can reach
depend on long sequences; the number of connections bounds how many requests
overlap, not how many there are. A refused request changes nothing and is not
a step. `visited` is a history variable. An edit stands for one that changes
at least one column; one that changes nothing takes no lock and writes nothing.

`ResultTally` splits a DELETE or UPDATE of many rows into the statement's
snapshot and the moment its locks are granted, since rows that another
transaction inserts in between are not found: that is where two tallies go
wrong. A tally reads the positions, then for one position after another the
candidates (`TallyCandidates`) and their votes (`TallyVotes`); meanwhile
positions may be created, candidates may be created for any position or none
(`place` is `position_id`), moved by an update, or deleted. A result row and a
vote keep the position that they were made with. `shown` holds the rows whose
status is PUBLISHED. `began`, `changed`, `latest` and `overlapped` are history
variables: the votes when a tally was asked for, the candidates created or moved
since, the tally that committed last, and which tallies were in flight together.
The insertion of the rows and the change of the summary are one flush.

`VoterRoll` keeps the two ways on to the roll apart as the code does: an
enrolled voter's number is also the primary key (`voter_service.py:109-119`),
so a second INSERT waits for the first one's transaction and is refused after
its commit (`WaitsFor`, `EnrolInsert`); an imported voter's key is a UUID, and
only the query at the preview stands against duplicates. An enrolment keeps the
number as it is written (`voter_service.py:98-119`), the preview puts those of
the file in upper case before it compares them with the roll
(`import_service.py:133`): `Upper` is that conversion. A request is used
once, a row remembers the request that inserted it (`by`), and an upload names
the job it creates. `before` and `overlapped` are history variables: what a
request's check for duplicates could see, and which requests on one job were in
flight together.

In `Accounts`, `FieldData`, `Outreach` and `Desk` a request that passes its
checks begins with what it has loaded (`seen`, `counted`, `loaded`) and ends
with a commit that writes the columns that differ from it; where a service
commits in the middle, as an onboarding does before its login, there are two
commits. Reads that are statements of their own are actions of their own: each
query of the scan for duplicates (`ScanStep`), the two rows of a resolution
(`ResolveReadA`, `ResolveReadB`), the user of a refresh after its session has
been flushed (`RefreshUser`, whose row lock is `Held`). `Slots` bounds how
many requests are served at a time. The histories `overlapped`, `decided`,
`inbox`, `asked` and `direct` are there for the properties alone.

A submission in `FieldData` is for one organization, the submitter's own
(`OrgOf`), and the scan looks at that organization's rows alone
(`duplicate_detection_service.py:42`); who has none submits to any. A review of one
submission and a resolution ask for no organization in the code. A bulk review does
unless the reviewer has none (`data_collection_service.py:265`), and then decides on
the rows that are left: it is one of those rows in the model.

In `Outreach` an adapter that is set to "mock", and the Instagram adapter without
a token, answer success and call nobody (`Answer`, `Mocked`); a campaign writes
to 0000000000 for a voter whose `phone_number` is empty (`NumberOf`). `inbox`
holds what a provider took for a voter, which is less than what the logs call
sent. Voters are deleted and enrolled again while messages leave: the members of
groups go with them by cascade (`models/broadcast.py:53`), the rows of logs stay
without a name, and a request whose voter is gone fails at its commit.

`Deployment` sees a table as a set of parts: the columns it was made with,
those that a later migration adds, and those that only the models have. A
revision says what it makes, what it needs and whether it looks before it
makes; a run of `alembic upgrade head` is one transaction over `History`, the
linear order of the fourteen revision files with their two branches. The scripts
that remake a database differ in the tables they make, the version they stamp
and the rows they leave: those of the models, or those that `direct_sql_seed.py`
writes out by hand (`HandMade`), which lack five of the first revision's tables,
`volunteer_profiles`, `app_notifications`, and columns of others. A script commits
the schema before it seeds, and may stop before or after (`rows`, `ScriptStopped`);
`instant_schema_init.py` and `create_all_tables.py` always do, since they insert a
role without the `created_at` that the models' table asks for. Workers
seed kind by kind, an INSERT of a unique row waiting for the transaction that
has inserted it.

`Access` is a table: every route in the order in which `router.py` includes
it, with its path, its handler and what its guard asks, next to the default
permissions of the roles. `Answers` is the first route that matches a path, as
Starlette chooses it. One request is followed while others make, deactivate
and purge accounts.

In `Office` the parts share no row, so a step of one changes nothing for
another; a behaviour is one of the part that `about` names, which keeps the
state space the sum and not the product of the parts.

### What is abstracted

* A ballot's selections: accepted or refused (`CastRejectSelections`); in
  `ResultTally` how often each candidate is chosen for each position, which
  nothing ties to the candidate's own position. The limits themselves are not
  modelled.
* Voter statuses other than BLOCKED/SUSPENDED/INELIGIBLE and CHECKED_IN are one
  value; no guard tells them apart.
* The key-share lock that the verification row's foreign key takes on the voter
  (`verify_voter`) is left out: it only delays a `FOR UPDATE` or a deletion.
* Voters are not enrolled or deleted while results are tallied, so the only
  number of the summary that differs between tallies is the count of ballots.
* `CreatePosition`, `CreateCandidate`, `MoveCandidate`, `RemoveCandidate`,
  `PositionChanges`, `CandidateChanges`, `RecordBallot` and, in the lifecycle,
  `Tally` are committed in one step: the actors that race in
  each module are the ones its properties are about.
* In `ResultTally` `None` as a candidate's place is no position or one of another
  election, and an id is given once. Columns of a candidate other than its position
  are left out, and so is its `election_id`, which the tally does not look at.
* Locks on several result rows are granted together.
* A file to import is the set of numbers that its valid rows name: a number that
  occurs twice and a row without one are left out by the preview. `Upper` may be
  any idempotent conversion. The numbers that `create_voter` makes up when none is
  given (`voter_service.py:109-110`) are left out. The deletion of a voter is one statement, so an enrolment never
  waits for it.
* Codes, tokens and passwords are right or wrong; the login that gives no password
  at all, of which none is asked (`auth_service.py:390`, `schemas/auth.py:10`), is
  left out of `Accounts`, so that a login there has a password that is right; all workspaces have one name,
  so that their slugs differ in the suffix alone. Thirty days may go by at any
  moment (`Expire`).
* A field submission says one value or none per signal, and two values are equal
  or not: the case that the comparison of names and emails ignores, and the
  wildcards of `ilike`, are left out. The quality score, which nothing reads, is
  left out too. Collection counters of the day, week and
  month go up together and are never reset by the code: `total` stands for them.
* Of a complaint, task, activity or poster only the columns that guards read;
  `text` stands for the rest and tells the request that wrote it.
* Which voters have a number (`Mobile`, `Phones`) and which adapters are mocked
  (`Mocked`) are constants: an update of a voter's telephone between two requests
  and a change of settings are left out.
* Time in `RateLimiter` is a number of units; a client's key is one.
* The connection pool, JSON, hashing and audit entries. Confinement to one's
  organization is modelled where a property depends on it (`Budget`,
  `Outreach`, `Desk`, the scan of `FieldData`) and left out of `Access`.

## 3. Runs

`pass` runs finish with no error; `violation` runs check one statement of the
documents or comments that the code does not keep, and a finding in
`PROJECT.json` quotes it.

| Run | Instance | Shows |
|---|---|---|
| `register` | 1 voter, 2 casts, 2 check-ins, 1 review, 1 deletion | `NoDoubleVote`, `BallotsAccountedFor`, `CheckInsConsistent`, `RegisterBalances`, `VotesAreFinal`, refinement of `BallotBox` |
| `session_reuse` (violation) | 2 casts on one session | `OneBallotPerSession` fails |
| `voting_day` | 2 voters, 1 session, 2 casts, 1 deletion, any enrolments, fair | `OneBallotPerEnrolment`, `MarkOfEnrolment`, `EveryRequestEnds` |
| `transitions` | 2 connections for transitions | `NoStatusFromNowhere` |
| `lifecycle_liveness` | a transition, an edit, a publication, fair, without LIVE | `EveryRequestEnds`, `OnlyOvertakenGoesAstray` |
| `off_the_map` (violation) | 2 transitions | `LifecycleObeyed` fails: DRAFT, CANCELLED, SCHEDULED |
| `tallies` | 2 tallies, 1 publication, 1 ballot; a position there and one to come, a candidate there and one to come, 1 creation or move, deletions; fair | `ResultsConsistent`, `CountsBetween`, `DuplicatesFromOverlap`; `EveryRequestEnds`, through the deadlock |
| `enrolment` | 2 batches of up to 2, 1 job, 2 confirmations, 1 cancellation, 1 deletion, the numbers of 2 people, one also in lower case, symmetric | `RollConsistent`, `ImportsInOrder`, `EntriesInOrder` |
| `collection` | 2 submissions, of one volunteer or of members of 2 organizations, 2 reviews, 1 bulk review, 1 resolution, 2 at a time, symmetric | `Consistent` (a resolved pair has left the queue), `CountersAgree`, `DuplicatesSuspected`, `MergeLeavesOneApproved`, `ReviewsTellPrevious` |
| `accounts` | any 4 of 12 requests, 2 at a time, 2 emails, 2 passwords, symmetric | `Consistent` (owners, workspaces, sessions), `EndedOnce`, `InactiveNotRenewed`, `ColumnsKept` |
| `upgrades` | a container with a worker, another's upgrade, a server by hand, a manual seeding, scripts run or stopped; 4 versions, 2 processes at a time | `Consistent`, `CopiesFromOverlap`, `BootstrapsSeed`, `OnlyVisitorsBlockUpgrades` |
| `office` | 3 requests at the desk; 3 expenses and a deletion; 1 group, 2 drafts, 2 sends, 2 broadcasts, 1 campaign, 2 adapters, one of them mocked, a voter who leaves and returns; 3 calls, 2 workers; 3 roles and every route | `DeskInOrder`, `EditsInOrder`; `CeilingHeld`; `MessagesInOrder`, `SentStands`; `WithinLimit`; `ProhibitionsKept`, `AnswersItsPath` |

Many properties have the form "X holds unless two requests overlapped". They
are as strong as the code allows: the code checks and writes in separate
statements, so the exception does happen, and the property says that nothing
else goes wrong (no rollback, no order of requests that follow one another, no
third actor). What lies behind the exceptions:

* a second tally that overlaps the first leaves two rows for each candidate
  (`result_service.py:50`), a candidate who is created or moved during a tally is
  missed or has two rows (`candidate_service.py:157`), and a check-in that looked before a vote is recorded
  after it (`checkin_service.py:39`);
* overlapping submissions lose an increment (`data_collection_service.py:98`),
  and a second review credits a volunteer again (`:240`);
* overlapping additions exceed the ceiling (`expense_service.py:62`);
* two refreshes of one token both give a pair (`auth_service.py:656`), and a
  refresh that overlaps a logout lives on;
* a person enrolled as abc1 is imported again as ABC1 (`import_service.py:133`,
  `voter_service.py:119`), though `README.md:26` of the repository promises the
  detection of duplicates across spreadsheets and database, and is then found under the second
  number alone where a number is put in upper case before it is looked up
  (`voter_repo.py:19`);
* `direct_sql_seed.py` stamps 5ba06aedc5cc on a database that lacks a table of that
  revision and others of earlier ones (`:324`): `alembic upgrade head` fails on it
  from then on, and `Consistent` holds of it only as what it made is not lost;
* logs and counters say SENT of messages that a mocked adapter or an Instagram
  adapter without a token never sent, and of a campaign's to 0000000000
  (`instagram_adapter.py:32`, `notification_service.py:135`);
* a message that left is not taken back when the send fails (`broadcast_service.py:239`).

Other things that the models show of the code and no property states, because
only their negation would hold:

* a ballot issued while the election was LIVE can be cast after it was closed,
  and in another election than its session's, if the cast names one
  (`voting_service.py:147-246`);
* a voter who has voted and is deleted can be enrolled again under the same
  number with `has_voted=False` and vote a second time (`voter_service.py:134`,
  `:279`), though `docs/ARCHITECTURE.md:79` has it that a voter can only cast a
  ballot once: `NoDoubleVote` holds of the engine and not of `VotingDay`;
* a check-in that loaded a voter who was checked in, deleted and enrolled again
  writes its row and leaves the new roll entry as NOT_VOTED; the last active
  position can be switched off between the check before LIVE and its commit (`election_service.py:205-223`);
  the transition from COUNTING publishes an election that was never tallied
  (`election_service.py:30`, against `result_service.py:171`);
* the counter of failed logins is flushed and rolled back with the refusal
  (`auth_service.py:390-404`), so the lockout of the README never comes;
  a Google sign-in of an unknown email always fails, since the user it makes has
  no `password_hash`; a second set-up of a second factor replaces the secret in
  force before it is confirmed (`auth_service.py:708-721`);
* `manual_seed.py:3` promises to be run once after the migrations, but no
  migration makes the tables of roles or the columns of the design templates
  that the seeding selects: it rolls back. A worker's `create_all` makes the
  tables and not the columns, and its error is only logged (`main.py:64-65`);
* `GET /volunteers` is answered by `team.py`, and
  `GET /design-templates/shared-with-me` is taken for a template's id, since
  earlier routes match (`Hidden` in `Access`). `docs/RBAC_MATRIX.md` differs in
  a few grants from `core/permissions.py`; the prohibitions checked here are
  those that it and the handlers state;
* a task that is given to another user notifies nobody, a complaint's change of
  status notifies the super admin who made it, and a poster that was shared
  cannot be deleted.

### Why the bounds are enough

The conflicts are between requests on one row, pairwise: two casts share a
voter, a session, both or neither. One voter is enough for `register` because
check-in, review and deletion touch a single voter's row. In `voting_day` the
casts are of one voter or of two, and the session is shared, so that they wait
for each other on the voter's row and on the session's; the deletion comes
between any of their statements and the enrolment after it, before the cast that
waits goes on. Larger instances were explored once: two voters with all kinds of
requests, three casts with a deletion, a second election, and a number that is
deleted twice, so that a request has loaded the row of two enrolments ago. The
inductive invariants (`IInv` of `VotingEngine` and `ElectionLifecycle`, `DayInv`)
were checked there before they were proved; that the theorems hold
for any number is why the runs list the properties alone. Two transitions are the smallest overlap; the edit and the
publication, which wait for the same row, are in the smaller fair run. The run
of `NoStatusFromNowhere`, and that of `LifecycleObeyed`, have no publication, with
which the first would be ten times as large: what TLC shows of the two says
nothing of publications, and of `NoStatusFromNowhere` the theorem `StatusEarned`
does. Two tallies overlap in every order, one before the other included, and the
publication comes before, between or after them. `MaxBallots` bounds the
ballots of `ResultTally`: one, which chooses a candidate twice, is enough for a
count to change under a tally. `MaxChanges` bounds the candidates created or
moved: one creation is enough for a tally to miss a candidate, one move for a
tally to find one at both positions or to count it where it no longer stands, and
the states where that happens are reached; the theorems need neither bound to be small.
Two people are enough for batches that wait for each other crosswise (`Batches`
lists them in either order), one of them with two ways to write the number for an
enrolment that an import does not find, and one job for two
confirmations and a cancellation to meet on its row; the election of a row
matters to the preview alone, so there is one.

`Slots` is 2 wherever it occurs: overlaps are pairwise, and which pairs there
are is left to the behaviour, one after another among all kinds of requests;
in `upgrades` a container's worker, a server started by hand and the manual seeding
run the same code, so that two of them are the two workers of one container as well;
four requests (`Requested`) are enough to make an account, sign in, and let
two requests meet on it. In `collection` two submissions, to one organization
that knows a citizen by name or to another that has the telephone as well, are all a
scan can meet, and a bulk review, two
reviews and a resolution can decide on them in any order. In `upgrades` the
versions are the empty database, one from before the volunteers' tables, the one
from which the two branches of the history start, and the head; every script may
come at any time at which nothing runs. In `office` one voter with a telephone may
be deleted and enrolled again, so that a send in flight finds him gone or back; the
users of the desk are of one organization, so that the runs show nothing of the
confinement to it that its guards add. Three requests at the desk are
two that meet on a row that a third has made; two expenses exceed the ceiling
together and the third is another organization's; two sends of one group with
two drafts make it ready again; three calls against a limit of two fill a
window, and `MaxTime` equals `Window`, so that the first call leaves it.
Symmetry is used only without liveness and only over model values that the
specification does not order.

### Fairness

`VotingEngine` needs only weak fairness of the steps of each request: the
event loop resumes a handler whose statement has returned, and in its runs no
request can be passed over for ever, since each locks a row at most once. The
connections of `ElectionLifecycle` never stop, so a waiting one needs strong
fairness: the row is free again and again, and PostgreSQL's lock queue grants
it to each waiter in the end. `ResultTally` adds weak fairness of
`BreakDeadlock`: PostgreSQL looks for cycles after `deadlock_timeout` and ends
one transaction. There every request is made once and takes each lock once, so that
none is passed over for ever and `EveryRequestEnds` says that again and again
nothing is in flight. No request is ever obliged to arrive or to fail. No
liveness is claimed of the other modules; where their requests can wait for
each other crosswise (batches in `VoterRoll`), the way out is an abort, as in
`ResultTally`.

## 4. Proofs

`VotingEngineProofs` proves from `RequestsAssumption` (kinds of requests are
disjoint), `NoneAssumption` and `RollAssumption` that `IInv` is inductive, and
from it `NoDoubleVote`, `BallotsAccountedFor`, `CheckInsConsistent`,
`RegisterBalances`, `VotesAreFinal` and that the engine
implements `BallotBox`. `NoDoubleVote` alone is not inductive: it needs to
know that a cast between its `FOR UPDATE` and its commit owns the lock of a
voter on the roll who is not marked (`CastsInOrder`), that marks and ballots
agree (`VotedIffBallot`), and that a finished cast's parameters do not change
any more. `SessionsInOrder`, `CheckInsInOrder`, `DeletesInOrder`, `LoadsInOrder` and
`ArgsInOrder` are the same for the other requests. `RegisterBalances` follows
from `NoDoubleVote` and `VotedIffBallot`: `VoterOf` is a bijection between
ballots and marked voters, and the cardinalities agree. The refinement maps
`voted` to the marked voters and `box` to the serials; only `CastCommit`
changes either, and it is `Cast`.

The part of `IInv` that holds whatever becomes of the roll is `Core`, and
`EnrolKeepsCore` says that an enrolment keeps it too. `NoDoubleVote` is not kept
in `VotingDay`: the enrolled voter votes again; what takes its place is proved for any
number of deletions and enrolments of any voters: no row gets two ballots before
it is deleted (`OneBallotPerEnrolment`), and its mark tells of its own ballot
alone (`MarkOfEnrolment`). `DayInv` adds to them that a current ballot's voter is
on the roll. `CastKeepsDay`, `OthersKeepDay` and `EnrolKeepsDay` are its three
kinds of steps; that a cast's voter is still on the roll at its commit, and the
row the same, is due to the lock (`CastsInOrder`).

`ElectionLifecycleProofs` proves for any number of connections that `IInv`
(types, `NoStatusFromNowhere`, and `ChecksStand`: a request that passed its
check has seen a status the election had, which allows what it wants) is
inductive, and from it `NoStatusFromNowhere` and `OnlyOvertakenGoesAstray`.

`AccountsProofs` proves from `AccountsAssumption` (kinds of requests are
disjoint, the onboardings finite, no name is the missing value) all four
properties that the run `accounts` checks, for any number of requests, emails
and passwords, however many are served at a time. `IInv` adds to `TypeOK`,
`BelongTogether` and `EndedOnce`: an account is made by one request and whatever
was loaded had been made (`MadeOnce`); who is at which step (`StepsInOrder`); a
refresh or logout in flight names a session that exists, and a refresh that has
loaded its user has loaded the session's (`EndersInOrder`); related requests in
flight have overlapped (`OverlapsKnown`); whoever is still about to end a session
that was ended has overlapped with those who did (`EndingsInOrder`); and whoever
was let in and is inactive was deactivated meanwhile (`LetInActive`). `EndedOnce`
alone is not inductive, since it does not say that a refresh which found the
token live began before the first one ended it: that is `EndingsInOrder`.
`BeginStep`, `LoadStep`, `CreateStep`, `DoneStep` and `EndingStep` treat the
actions that have the same shape together. `InactiveNotRenewed` follows from
`LetInActive` at the two commits that make a session, `ColumnsKept` from
`ChangedRow`, what each kind of request writes of a row it has loaded.

`ResultTallyProofs` proves from `ResultAssumption` the three safety properties of
the run `tallies` for any number of requests, positions, candidates, ballots,
creations and moves. `ResultsCoverCandidates` is not inductive: it needs that
whoever has kept a position that a tally has counted is listed or has a row in its
draft, and that a draft has none of a candidate who is gone once it is flushed
(`DraftsCover`), and that a row is of the position its candidate has, unless it was
moved since (`DraftsPlaced`). `CountsBetween` needs the same bounds of the drafts and
that the votes of a candidate only grow while it is there (`DraftsCount`),
`DuplicatesFromOverlap` that a draft has one row for a candidate at a position
(`DraftsOnce`), and that a row which a tally's `DELETE` has not found came while the
tally was in flight (`FoundInOrder`, `OverlapsKnown`). That `shown` stays within
`rows` needs that no two transactions hold a row (`LocksApart`); `RowsInOrder` says
that rows are of tallies that have ended, and `RequestsInOrder` what a request holds
at which step. `PlaceStep` and `CreateOrMoveStep` are the steps of candidates and
positions, of which every tally that was asked for takes note.

`VoterRollProofs` proves from `RollAssumption` (the kinds of requests are disjoint,
what is in upper case stays as it is, `None` is no request and no election) `RollConsistent`, `ImportsInOrder` and
`EntriesInOrder` for any number of batches of any size, jobs and deletions.
`IInv` adds to the parts of the two invariants what a request holds at which step
(`RequestsInOrder`), that a confirmation before its commit holds a job which is
there (`JobsHeld`), that whoever has a row on the roll has ended (`RowsInOrder`),
what a check found (`ChecksInOrder`), of which `SameNumberUnseen` concludes that
two rows of one number were not seen by each other's check, an enrolment under a
number in lower case apart, and that the requests on one job which were
in flight together are in `overlapped` (`OverlapsKnown`). `EntriesInOrder` is an
action property: rows come by one commit, all rows of the request.

`FieldDataProofs` proves all five properties of the run `collection` from
`FieldAssumption` (disjoint kinds, volunteers are users, a record of facts has a
value for each of at most four signals, as the scan has four steps, and names an
organization, and `None` is nothing else). `DuplicatesSuspected` is of submissions to
one organization. For each request `Holds` says what it goes by: what it loaded is
still there or was overtaken (`LoadsKept`), what it loaded by which step
(`OrderKept`), what its scan has passed over came while it was in flight
(`ScanKept`). The counters are the hardest: updates are lost, so a counter is not
the number of submissions, and the invariant counts the submissions of a volunteer
that overlapped no other of his (`Solo`). A submission about to commit has loaded
a total that is not ahead and that is behind by no more than what was served
together with it (`TotalKept`, `SoloApart`), and a review has loaded the credits
that are there unless another decision crossed it (`CreditKept`).

`DeploymentProofs` proves the four properties of the run `upgrades` for any number
of containers, workers, rows and processes at a time, wherever they are killed.
`DeploymentAssumption` says that there are permissions, that none is a role, and that every earlier
release has left the administrator: `bootstrap.py` seeds both unconditionally, and
without the second a database with half of an old release's rows would start,
which no release leaves behind. `SchemaInv` says that a database with anything in
it has the tables the later revisions alter, in the shape of the models only if
all are and `direct_sql_seed.py` has not made them (`WellMade`); that until somebody makes tables by another way the schema
is the one its version says, or the newest (`OnTheWay`); that what a worker saw
before `create_all` is still there (`SeenThere`); and that an undisturbed upgrade
is alone (`Alone`). Under it are lemmas on the fourteen revisions: what each makes
of a well-made schema (`MigratedWell`, `UpgradeLeaves`), that they run from
every version (`UpgradesRun`), and that none gets past what `direct_sql_seed.py`
made (`HandMadeStays`), so that an upgrade which commits found other tables
(`UpgradeCommits`). `RowsInv` says of each seeder that the rows of the
steps behind it are there or its own (`WorkKept`), that no two hold one unique row
(`HeldApart`), that the administrator comes with the first rows (`AdminFirst`),
and that a seeder which gives up or finds the tables made leaves the database to
one that is at it or was killed (`LeftToAnother`).

`OfficeProofs` proves of the whole `Office` what its parts promise. Each part has
an invariant that is inductive for its own steps, and the steps of the others leave
its variables alone.

* Limiter (`OfficeLimitHolds`), for any number of workers and calls and any limit
  and window. A window set of a store forgets entries, so the calls which passed
  cannot be counted in it; `Remembered` says that a call that passed is in its
  store's window, or a whole window older than an entry which still is. A call that
  passes in order therefore finds all those that share a window with it.
* Ceiling (`OfficeCeilingHeld`), for any amounts. `ReadsStand` says that the total
  which an addition has read counts all expenses it was not together with. For that
  the sum `Spent` must not depend on the order in which it is taken and must grow
  with its set, which are facts about all finite sets: `SumsExist`, `SpentWithout`
  and `SpentGrows` show them by a minimal counterexample, of which the inclusion
  of finite sets being well-founded says that it exists.
* Outreach (`OfficeMessagesInOrder`, `OfficeSentStands`), whichever adapters are
  mocked and whichever voters leave. `RequestsKept` says what a
  request has loaded, attempted and logged so far, `GroupsKept` how a group's status
  goes with its rows, `GroupFlightsKnown` which requests on it overlapped, and
  `SendsApart` that two sends of one group overlapped, or a draft made it ready
  again in between.
* Desk (`OfficeDeskInOrder`, `OfficeEditsInOrder`). `DeskInv` adds to the parts of
  `DeskInOrder` what each kind of request has loaded and decided (`WorkKept`), by
  whom a row was made (`RowsMade`), and which requests overlapped
  (`DeskFlightsKnown`).
* Guards (`OfficeProhibitionsKept`), for any number of people. Whoever has been
  admitted has a role that may pass the guard, whatever becomes of the account and
  of the seeding (`AccessInv`, `MayPass`); every file of routes has what is
  prohibited to a role behind a guard which that role does not pass (`FilesKept`,
  `RouterKept`, `GuardsProhibit`); and the route that answers a request, the least
  of those that match, is one of the router's (`AnsweringKept`).
* Routes (`OfficeAnswersItsPath`), for any number of people: whoever is served is
  served by the handler of the route the request was written for, but for the two
  in `Hidden`. Within a file no earlier route takes what a later one was written
  for (`InTurn`, which `Orderly` reduces to the places where paths differ); no two
  files begin with the same segment but the volunteers' and the list that `team.py`
  hides (`FileOf`, `TurnsTogether`); the least match is at or before the route
  itself (`AnsweredInTurn`), so it is that route.

Only model-checked: liveness (`EveryRequestEnds` of the three modules), which the
prover cannot reach.

## 5. Plan

1. `BallotRules`: the selection limits as operators, against a reference
   definition.
2. `VotingDay` composed with `ElectionLifecycle`, so that the election a ballot
   is cast in is the one whose status moves.

## 6. Not modelled

* Read-only aggregation (dashboards, analytics, reports) and the audit log,
  which nothing reads back to decide anything.
* Organizations, subscriptions, stations, areas, booths, constituencies, teams,
  banners, message templates and alerts: one row per request that no other row
  depends on. Only their routes and guards are in `Access`. (`create_area`
  passes columns that `models/area.py` lacks and always fails.)
* Rendering of posters, wire formats of the providers, webhooks that store and
  acknowledge a payload, Celery stubs, middleware and error handlers.
* Downgrades, which nothing runs, and the scripts that only look at a database or
  edit single rows or source files (`check_*.py`, `clear_user.py`, `fix_*.py`, `update_*.py`).
* Volunteers' assignments, attendance and own voter lists: single rows that
  are only kept.
* `add_voter` and `add_voters_batch`, which no endpoint calls, and the
  creation and settings of an election, which no guard of another request reads.
