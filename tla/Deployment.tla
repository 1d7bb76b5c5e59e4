----------------------------- MODULE Deployment -----------------------------
(***************************************************************************)
(* How a database comes to the schema and the rows that the program needs: *)
(* the migrations (alembic/versions), which a container runs before it     *)
(* serves; the bootstrap of each of its workers, which makes the tables    *)
(* that are missing and seeds roles, administrator and templates           *)
(* (main.py, core/bootstrap.py); servers that are started without the      *)
(* migrations, manual_seed.py, and the scripts that make a database anew.  *)
(*                                                                         *)
(* A table has parts: its base, which is the table with the columns that   *)
(* the migration that makes it gives it and the models still declare, and  *)
(* the columns that a later migration adds; the part "model" stands for    *)
(* the columns that the models declare and no migration adds, the part     *)
(* "hand" for a table that direct_sql_seed.py makes without its base.  A   *)
(* migration run is one transaction; an insertion of a unique row waits    *)
(* for the transaction that has inserted it, and fails if that commits.    *)
(***************************************************************************)
EXTENDS Naturals, FiniteSets, Sequences, Functions

CONSTANTS
  Containers,   \* starts of a container: alembic upgrade head, then its workers
  Workers,      \* processes that bootstrap
  Home,         \* the container of a worker; None if it was started by hand
  Seeds,        \* runs of manual_seed.py
  Permissions, Roles, Templates,  \* what a release seeds, by code or by name
  Admin,        \* the super administrator
  Releases,     \* the sets of rows that earlier releases have left
  Versions,     \* the versions that a database may have been migrated to
  Slots,        \* bound: processes that run at a time
  None

Seeders == Workers \cup Seeds

Rows == Permissions \cup Roles \cup {Admin} \cup Templates

ASSUME DeploymentAssumption ==
  /\ Home \in [Workers -> Containers \cup {None}] /\ None \notin Containers
  /\ Containers \cap Seeders = {} /\ Workers \cap Seeds = {}
  /\ Permissions # {} /\ Permissions \cap Roles = {}
  /\ \A r \in Releases : r \subseteq Rows /\ Admin \in r
  /\ Versions \subseteq Nat /\ Slots \in Nat

(***************************************************************************)
(* The tables that differ in how they come about.  "registers" stands for  *)
(* organizations, candidates, elections and the others that the first      *)
(* migration makes and that the models have since widened, "rosters" for   *)
(* team_members, volunteers, booths, delivery_logs and audit_logs, which   *)
(* direct_sql_seed.py leaves out, and "rbac" for the roles and permissions,*)
(* which no migration makes.                                               *)
(***************************************************************************)
Tables ==
  {"users", "registers", "rosters", "complaints", "expenses", "design_templates", "volunteer_profiles",
   "field_activity_logs", "saved_designs", "app_notifications", "poster_shares",
   "broadcast_groups", "rbac"}

Parts == {"base", "review", "election", "owner", "kind", "org", "model", "hand"}

\* What the models declare.
Modelled ==
  (Tables \X {"base"})
    \cup {"registers", "rosters", "design_templates", "volunteer_profiles"} \X {"model"}
    \cup {<<"field_activity_logs", "review">>, <<"field_activity_logs", "org">>,
          <<"complaints", "election">>, <<"complaints", "owner">>,
          <<"app_notifications", "kind">>, <<"expenses", "election">>}

\* What direct_sql_seed.py makes.  It leaves out the rosters,
\* volunteer_profiles and app_notifications, and of the tables it makes by hand
\* some columns.
HandMade ==
  ({"users", "design_templates", "broadcast_groups", "rbac"} \X {"base"})
    \cup {"registers", "complaints", "expenses", "field_activity_logs", "saved_designs", "poster_shares"}
           \X {"hand"}
    \cup {<<"design_templates", "model">>, <<"complaints", "election">>, <<"complaints", "owner">>,
          <<"field_activity_logs", "review">>, <<"field_activity_logs", "org">>, <<"expenses", "election">>}

ByHand(s) == <<"registers", "hand">> \in s

Existing(s) == {x[1] : x \in s}

(***************************************************************************)
(* Migrations.  A revision makes what is in makes and needs what is in     *)
(* needs.  If it is guarded it makes only what is missing, a table that is *)
(* there being left as it is; else it fails if something is there already. *)
(***************************************************************************)
Revision == [makes : SUBSET (Tables \X Parts), needs : SUBSET (Tables \X Parts), guarded : BOOLEAN]

Rev(makes, needs, guarded) == [makes |-> makes, needs |-> needs, guarded |-> guarded]

Initial ==
  Rev({"users", "registers", "rosters", "complaints", "expenses", "design_templates"} \X {"base"}, {}, FALSE)

UserWard == Rev({}, {<<"users", "base">>}, TRUE)

FieldActivityLogs ==
  Rev({<<"volunteer_profiles", "base">>, <<"field_activity_logs", "base">>, <<"field_activity_logs", "review">>},
      {<<"users", "base">>}, TRUE)

\* Mutant of ReviewFields: the columns are added whether they are there or not.
ReviewFieldsUnguarded == Rev({<<"field_activity_logs", "review">>}, {}, FALSE)

ReviewFields == Rev({<<"field_activity_logs", "review">>}, {}, TRUE)

PlatformOwner == Rev({}, {}, TRUE)

WidenSymbol == Rev({}, {<<"registers", "base">>}, FALSE)

SavedDesigns == Rev({<<"saved_designs", "base">>}, {<<"users", "base">>, <<"design_templates", "base">>}, TRUE)

PosterShares ==
  Rev({<<"app_notifications", "base">>, <<"poster_shares", "base">>},
      {<<"saved_designs", "base">>, <<"field_activity_logs", "review">>}, FALSE)

BroadcastGroups == Rev({<<"broadcast_groups", "base">>}, {<<"registers", "base">>}, FALSE)

ComplaintElection == Rev({<<"complaints", "election">>}, {<<"complaints", "base">>}, TRUE)

ComplaintOwner == Rev({<<"complaints", "owner">>}, {<<"complaints", "base">>}, TRUE)

NotificationKind == Rev({<<"app_notifications", "kind">>}, {<<"app_notifications", "base">>}, FALSE)

Merge == Rev({}, {}, TRUE)

ActivityOrgExpenseElection ==
  Rev({<<"expenses", "election">>, <<"field_activity_logs", "org">>},
      {<<"expenses", "base">>, <<"field_activity_logs", "base">>}, FALSE)

\* In the order in which alembic runs them: the two branches after
\* PosterShares, one of them NotificationKind alone, one after the other.
History ==
  <<Initial, UserWard, FieldActivityLogs, ReviewFields, PlatformOwner, WidenSymbol, SavedDesigns,
    PosterShares, BroadcastGroups, ComplaintElection, ComplaintOwner, NotificationKind, Merge,
    ActivityOrgExpenseElection>>

Newest == Len(History)

\* The versions that scripts write: 5ba06aedc5cc and 0008.
SharesVersion == 8
ComplaintVersion == 11

\* The schema s after the revision r, if r does not fail on it.
Applies(r, s) == r.needs \subseteq s /\ (r.guarded \/ r.makes \cap s = {})

\* What the revision r makes on the schema s.  A guarded table is made with its
\* parts if it is not there; the columns that ReviewFields adds are looked for
\* one by one.
Made(r, s) ==
  IF r = FieldActivityLogs THEN {x \in r.makes : x[1] \notin Existing(s)} ELSE r.makes

\* The schema when the upgrade of s from version v has run the revision i.  No
\* revision before FieldActivityLogs makes its tables: those that are there
\* when it runs were there in s.
Upgraded(s, v, i) == s \cup UNION {Made(History[j], s) : j \in (v + 1)..i}

\* No revision fails.
Upgradable(s, v) == \A i \in (v + 1)..Newest : Applies(History[i], Upgraded(s, v, i - 1))

-----------------------------------------------------------------------------
VARIABLES
  schema,      \* the parts of tables that there are
  version,     \* the revision that alembic_version names, by its place in History
  copies,      \* how many rows of a code, email or name there are
  pc,          \* the process's next step
  seen,        \* the schema and the version that a process has looked at
  missing,     \* the rows of the kind it seeds that a process has not found
  inserted,    \* the rows that a process has inserted
  visited,     \* history: tables were made by a script, or by a server without migrations
  guarded,     \* history: the seeders that found a unique row missing
  begun,       \* history: the seeders that began on this database
  overlapped,  \* history: pairs of seeders that ran together and have not failed
  disturbed    \* history: the containers whose upgrade ran together with another process

database == <<schema, version, copies>>
locals   == <<seen, missing, inserted>>
history  == <<guarded, begun, overlapped, disturbed>>
vars     == <<database, pc, locals, visited, history>>

Processes == Containers \cup Seeders

Kinds == <<"permissions", "roles", "admin", "templates">>

Inserting == <<"insert permissions", "insert roles", "insert admin", "insert templates">>

\* Steps of a process; a container that has migrated serves.
Step ==
  {"new", "migrate", "serving", "create", "commit", "done", "skipped", "failed", "crashed"}
    \cup Range(Kinds) \cup Range(Inserting)

InFlight == {p \in Processes : pc[p] \notin {"new", "serving", "done", "skipped", "failed", "crashed"}}

OfKind(kind) ==
  CASE kind = "permissions" -> Permissions
    [] kind = "roles"       -> Roles
    [] kind = "admin"       -> {Admin}
    [] kind = "templates"   -> Templates

\* Permissions are unique by their code, users by their email.
Unique == Permissions \cup {Admin}

\* What has to be there to look for rows of a kind: all the columns of the
\* model are selected.
Selected(kind) ==
  CASE kind \in {"permissions", "roles"} -> {<<"rbac", "base">>}
    [] kind = "admin"     -> {<<"users", "base">>}
    [] kind = "templates" -> {<<"design_templates", "base">>, <<"design_templates", "model">>}

\* The schema that the revisions up to v make by themselves.
Migrated(v) == UNION {History[i].makes : i \in 1..v}

\* A database is empty, or it was migrated to some version, or the models made
\* it, a script stamped it and an earlier release seeded it.
Init ==
  /\ \/ /\ version \in Versions \cap 0..Newest
        /\ schema = Migrated(version)
        /\ copies = [x \in Rows |-> 0]
        /\ visited = FALSE
     \/ /\ version \in {SharesVersion, ComplaintVersion}
        /\ schema = Modelled
        /\ \E old \in Releases : copies = [x \in Rows |-> IF x \in old THEN 1 ELSE 0]
        /\ visited = TRUE
  /\ pc = [p \in Processes |-> "new"]
  /\ seen = [p \in Processes |-> [schema |-> {}, version |-> 0]]
  /\ missing = [p \in Seeders |-> {}]
  /\ inserted = [p \in Seeders |-> {}]
  /\ guarded = {}
  /\ begun = {}
  /\ overlapped = {}
  /\ disturbed = {}

Begin(p, step) ==
  /\ pc[p] = "new"
  /\ Cardinality(InFlight) < Slots
  /\ pc' = [pc EXCEPT ![p] = step]
  /\ overlapped' = overlapped \cup {{p, q} : q \in {x \in InFlight : {p, x} \subseteq Seeders}}
  /\ disturbed' = IF InFlight = {} THEN disturbed \ {p}
                  ELSE disturbed \cup (({p} \cup InFlight) \cap Containers)
  /\ begun' = begun \cup ({p} \cap Seeders)

\* A process looks at the schema and the version when it begins.
Look(p) == seen' = [seen EXCEPT ![p] = [schema |-> schema, version |-> version]]

Goto(p, step) == pc' = [pc EXCEPT ![p] = step]

\* A process that ends forgets what it has looked at; one that fails has left
\* nothing.
End(p, how) ==
  /\ pc' = [pc EXCEPT ![p] = how]
  /\ seen' = [seen EXCEPT ![p] = [schema |-> {}, version |-> 0]]
  /\ missing' = [q \in Seeders |-> IF q = p THEN {} ELSE missing[q]]
  /\ inserted' = [q \in Seeders |-> IF q = p THEN {} ELSE inserted[q]]
  /\ guarded' = IF how = "done" THEN guarded ELSE guarded \ {p}
  /\ overlapped' = IF how = "done" THEN overlapped ELSE {o \in overlapped : p \notin o}

(***************************************************************************)
(* alembic upgrade head.                                                   *)
(***************************************************************************)
\* Mutant of MigrateRead: the version is stamped first.
MigrateReadStamps(c) ==
  /\ Begin(c, "migrate")
  /\ Look(c)
  /\ version' = Newest
  /\ UNCHANGED <<schema, copies, missing, inserted, visited, guarded>>

MigrateRead(c) ==
  /\ Begin(c, "migrate")
  /\ Look(c)
  /\ UNCHANGED <<database, missing, inserted, visited, guarded>>

\* The update of alembic_version fails if the row is not as it was read.
MigrateCommit(c) ==
  /\ c \in Containers
  /\ pc[c] = "migrate"
  /\ version = seen[c].version /\ Upgradable(schema, version)
  /\ schema' = Upgraded(schema, version, Newest)
  /\ version' = Newest
  /\ End(c, "serving")
  /\ UNCHANGED <<copies, visited, begun, disturbed>>

\* A revision fails, or another process has got ahead of the run.
MigrateFails(c) ==
  /\ c \in Containers
  /\ pc[c] = "migrate"
  /\ \/ version # seen[c].version
     \/ schema # seen[c].schema
     \/ ~Upgradable(schema, version)
  /\ End(c, "failed")
  /\ UNCHANGED <<database, visited, begun, disturbed>>

\* The container is started again.
Restart(c) ==
  /\ c \in Containers
  /\ pc[c] \in {"failed", "crashed"}
  /\ Goto(c, "new")
  /\ UNCHANGED <<database, locals, visited, history>>

(***************************************************************************)
(* async_bootstrap: the tables that are missing, in one transaction.       *)
(***************************************************************************)
Absent(s) == Tables \ Existing(s)

CreateRead(w) ==
  /\ Home[w] # None => pc[Home[w]] = "serving"
  /\ Begin(w, "create")
  /\ Look(w)
  /\ UNCHANGED <<database, missing, inserted, visited, guarded>>

\* create_all.
CreateCommit(w) ==
  LET absent == Absent(seen[w].schema) IN
  /\ w \in Workers
  /\ pc[w] = "create"
  /\ absent \cap Existing(schema) = {}
  /\ schema' = schema \cup {x \in Modelled : x[1] \in absent}
  /\ visited' = (visited \/ (Home[w] = None /\ absent # {}))
  /\ Goto(w, Kinds[1])
  /\ seen' = [seen EXCEPT ![w] = [schema |-> {}, version |-> 0]]
  /\ UNCHANGED <<version, copies, missing, inserted, history>>

\* Another process has made a table meanwhile.
CreateFails(w) ==
  /\ w \in Workers
  /\ pc[w] = "create"
  /\ Absent(seen[w].schema) \cap Existing(schema) # {}
  /\ End(w, "failed")
  /\ UNCHANGED <<database, visited, begun, disturbed>>

(***************************************************************************)
(* seed_system_data, one transaction: kind by kind, what is missing is     *)
(* looked for and inserted.                                                *)
(***************************************************************************)
\* Mutant of Lacking: rows of a kind are seeded only where permissions are.
LackingLate(w, kind) ==
  {x \in OfKind(kind) : copies[x] = 0 /\ (kind = "permissions" \/ inserted[w] # {})}

\* The rows of a kind that are not there.
Lacking(w, kind) == {x \in OfKind(kind) : copies[x] = 0}

Find(w, i) ==
  /\ w \in Seeders
  /\ pc[w] = Kinds[i]
  /\ Selected(Kinds[i]) \subseteq schema
  /\ missing' = [missing EXCEPT ![w] = Lacking(w, Kinds[i])]
  /\ guarded' = guarded \cup {u \in {w} : missing'[w] \cap Unique # {}}
  /\ Goto(w, Inserting[i])
  /\ UNCHANGED <<database, seen, inserted, visited, begun, overlapped, disturbed>>

\* A column of the model is not there: the error ends the transaction, and a
\* worker logs it and serves.
FindFails(w, i) ==
  /\ w \in Seeders
  /\ pc[w] = Kinds[i]
  /\ ~(Selected(Kinds[i]) \subseteq schema)
  /\ End(w, "failed")
  /\ UNCHANGED <<database, visited, begun, disturbed>>

\* The unique rows that other transactions have inserted.
Held(w) == Unique \cap UNION {inserted[q] : q \in (InFlight \cap Seeders) \ {w}}

\* Mutant of Flush: the permissions are committed first.
FlushCommits(w) ==
  LET now == missing[w] \cap Permissions IN
  /\ inserted' = [inserted EXCEPT ![w] = @ \cup (missing[w] \ now)]
  /\ copies' = [x \in Rows |-> IF x \in now THEN copies[x] + 1 ELSE copies[x]]

\* The rows become visible with the commit of all.
Flush(w) ==
  /\ inserted' = [inserted EXCEPT ![w] = @ \cup missing[w]]
  /\ UNCHANGED copies

Insert(w, i) ==
  /\ w \in Seeders
  /\ pc[w] = Inserting[i]
  /\ missing[w] \cap Held(w) = {}
  /\ \A x \in missing[w] \cap Unique : copies[x] = 0
  /\ Flush(w)
  /\ missing' = [missing EXCEPT ![w] = {}]
  /\ Goto(w, IF i < Len(Kinds) THEN Kinds[i + 1] ELSE "commit")
  /\ UNCHANGED <<schema, version, seen, visited, history>>

\* Another process has committed a unique row that was missing.
InsertFails(w, i) ==
  /\ w \in Seeders
  /\ pc[w] = Inserting[i]
  /\ missing[w] \cap Held(w) = {}
  /\ \E x \in missing[w] \cap Unique : copies[x] > 0
  /\ End(w, "failed")
  /\ UNCHANGED <<database, visited, begun, disturbed>>

SeedCommit(w) ==
  /\ w \in Seeders
  /\ pc[w] = "commit"
  /\ copies' = [x \in Rows |-> IF x \in inserted[w] THEN copies[x] + 1 ELSE copies[x]]
  /\ End(w, "done")
  /\ UNCHANGED <<schema, version, visited, begun, disturbed>>

\* manual_seed.py seeds only if there is no super administrator.
ManualSeed(m) ==
  /\ Begin(m, IF copies[Admin] > 0 THEN "skipped" ELSE Kinds[1])
  /\ <<"users", "base">> \in schema
  /\ UNCHANGED <<database, locals, visited, guarded>>

(***************************************************************************)
(* Scripts that drop what there is and make the tables anew.  A drop waits *)
(* for every other transaction.  The schema is committed before anything   *)
(* is seeded: a script that fails or is stopped then leaves no rows.       *)
(***************************************************************************)
Rebuild(made, stamp, rows) ==
  /\ InFlight = {}
  /\ schema' = made
  /\ version' = stamp
  /\ copies' = [x \in Rows |-> IF x \in rows THEN 1 ELSE 0]
  /\ visited' = TRUE
  /\ begun' = {} /\ overlapped' = {} /\ guarded' = {}
  /\ UNCHANGED <<pc, locals, disturbed>>

\* clean_reset_neon.py, reset_direct.py, sync_neon.py and sync_psycopg.py go on
\* with seed_system_data.
CleanReset == \E rows \in {{}, Rows} : Rebuild(Modelled, SharesVersion, rows)

\* sync_perfect_schema.py and seed_new_neon.py do likewise.
\* instant_schema_init.py and create_all_tables.py insert a role without
\* created_at, which the models' tables want and do not fill in: they fail.
SyncPerfectSchema == \E rows \in {{}, Rows} : Rebuild(Modelled, ComplaintVersion, rows)

\* direct_sql_seed.py commits each statement: its tables with their stamp, a
\* role, the administrator.  It seeds no permission.
DirectSqlSeed == \E r \in Roles : \E rows \in {{}, {r}, {r, Admin}} : Rebuild(HandMade, SharesVersion, rows)

\* A script is stopped when it has dropped the schema, or made the tables and
\* not stamped them.
ScriptStopped == \E made \in {{}, Modelled} : Rebuild(made, 0, {})

\* A process is killed, or loses its connection.
Crash(p) ==
  /\ p \in InFlight
  /\ End(p, "crashed")
  /\ UNCHANGED <<database, visited, begun, disturbed>>

Next ==
  \/ \E c \in Containers : MigrateRead(c) \/ MigrateCommit(c) \/ MigrateFails(c) \/ Restart(c)
  \/ \E w \in Workers : CreateRead(w) \/ CreateCommit(w) \/ CreateFails(w)
  \/ \E w \in Seeders, i \in 1..Len(Kinds) : Find(w, i) \/ FindFails(w, i) \/ Insert(w, i) \/ InsertFails(w, i)
  \/ \E w \in Seeders : SeedCommit(w)
  \/ \E m \in Seeds : ManualSeed(m)
  \/ CleanReset \/ SyncPerfectSchema \/ DirectSqlSeed \/ ScriptStopped
  \/ \E p \in Processes : Crash(p)

Spec == Init /\ [][Next]_vars

-----------------------------------------------------------------------------
(***************************************************************************)
(* Properties.                                                             *)
(***************************************************************************)
\* Every variable has its type.
TypeOK ==
  /\ schema \subseteq Tables \X Parts
  /\ version \in 0..Newest
  /\ copies \in [Rows -> Nat]
  /\ pc \in [Processes -> Step]
  /\ seen \in [Processes -> [schema : SUBSET (Tables \X Parts), version : 0..Newest]]
  /\ missing \in [Seeders -> SUBSET Rows]
  /\ inserted \in [Seeders -> SUBSET Rows]
  /\ visited \in BOOLEAN
  /\ guarded \subseteq Seeders /\ begun \subseteq Seeders
  /\ overlapped \subseteq SUBSET Seeders
  /\ disturbed \subseteq Containers

\* Whatever version is recorded, what the revisions up to it make is there,
\* unless direct_sql_seed.py made the tables: then the version stays the one
\* that it stamped, and nothing that it made is lost.
Consistent ==
  /\ TypeOK
  /\ ByHand(schema) => version = SharesVersion /\ HandMade \subseteq schema
  /\ ~ByHand(schema) => Migrated(version) \subseteq schema

\* Nothing makes the code of a role or the name of a template unique, and yet
\* there are two of one only if two seeders overlapped and found every
\* permission and the administrator there: a unique row that is missing
\* keeps all but one of them from committing.
CopiesFromOverlap ==
  \A x \in Rows :
    copies[x] > 1 =>
      /\ x \notin Unique
      /\ \E u, w \in Seeders \ guarded :
           u # w /\ pc[u] = "done" /\ pc[w] = "done" /\ {u, w} \in overlapped

\* The workers of a release may all but one fail, and yet the release is
\* seeded when they have come to an end, if none was killed and the templates
\* have the columns of the model.
BootstrapsSeed ==
  LET ended == {w \in begun : pc[w] \in {"done", "failed"}} IN
  /\ ended # {} /\ \A w \in begun : pc[w] \in {"done", "failed", "skipped"}
  /\ Selected("templates") \subseteq schema
  => \A x \in Rows : copies[x] > 0

\* An upgrade fails only if another process ran with it, or if tables were made
\* by a script or by a server that was started without the migrations: the
\* workers of containers never get in its way.
OnlyVisitorsBlockUpgrades ==
  \A c \in Containers :
    pc[c] = "failed" => visited \/ c \in disturbed
=============================================================================
