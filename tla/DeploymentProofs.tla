-------------------------- MODULE DeploymentProofs --------------------------
(***************************************************************************)
(* What holds of a database however containers, servers, seedings and      *)
(* scripts come upon it, for any number of each.                           *)
(***************************************************************************)
EXTENDS Deployment, TLAPS

Ahead == <<"design_templates", "model">>

\* The rows that a seeder at a step has seen to, and those that it is about to insert.
Behind(step) ==
  CASE step \in {"roles", "insert roles"} -> Permissions
    [] step \in {"admin", "insert admin"} -> Permissions \cup Roles
    [] step \in {"templates", "insert templates"} -> Permissions \cup Roles \cup {Admin}
    [] step = "commit" -> Rows
    [] OTHER -> {}

Before(step) ==
  CASE step = "insert permissions" -> Permissions
    [] step = "insert roles" -> Roles
    [] step = "insert admin" -> {Admin}
    [] step = "insert templates" -> Templates
    [] OTHER -> {}

Seeding ==
  {"permissions", "insert permissions", "roles", "insert roles", "admin", "insert admin",
   "templates", "insert templates", "commit"}

Seeded == \A x \in Rows : copies[x] > 0

(***************************************************************************)
(* The schema.                                                             *)
(***************************************************************************)
\* A database that is not empty has design_templates.  Where the tables were
\* not made by hand, a table has its base, and design_templates has the shape of
\* the model only if all tables have it.
WellMade(s) ==
  /\ s # {} => <<"design_templates", "base">> \in s
  /\ ~ByHand(s) => \A x \in s : <<x[1], "base">> \in s
  /\ Ahead \in s /\ ~ByHand(s) => Modelled \subseteq s

\* What a worker that is about to make tables has seen is still there.
SeenThere(w) ==
  pc[w] = "create" =>
    /\ seen[w].schema \subseteq schema /\ WellMade(seen[w].schema)
    /\ ByHand(schema) => ByHand(seen[w].schema)
    /\ Home[w] # None => pc[Home[w]] = "serving"

\* Until somebody makes tables by another way, the schema is the one of its
\* version, or workers of an upgraded container have made the others.
OnTheWay ==
  ~visited =>
    /\ schema = Migrated(version) \/ version = Newest
    /\ (\E c \in Containers : pc[c] = "serving") => version = Newest

\* An undisturbed upgrade is alone with the database.
Alone(c) ==
  pc[c] = "migrate" /\ c \notin disturbed =>
    InFlight = {c} /\ seen[c].schema = schema /\ seen[c].version = version

SchemaInv ==
  /\ Consistent /\ OnlyVisitorsBlockUpgrades
  /\ WellMade(schema) /\ OnTheWay
  /\ \A w \in Workers : SeenThere(w)
  /\ \A c \in Containers : Alone(c)

(***************************************************************************)
(* The rows.                                                               *)
(***************************************************************************)
SeedersKnown == \A u, w \in InFlight \cap Seeders : u # w => {u, w} \in overlapped

\* What a seeder has found missing and inserted.
InHand(w) == inserted[w] \cup missing[w]

\* Every row that w has seen to is there or inserted by w.  When another has
\* committed a row that w has in hand, all rows are there.
WorkKept(w) ==
  /\ inserted[w] \subseteq Behind(pc[w]) /\ missing[w] \subseteq Before(pc[w])
  /\ \A x \in Behind(pc[w]) : x \in inserted[w] \/ copies[x] > 0
  /\ \A x \in Before(pc[w]) : x \in missing[w] \/ copies[x] > 0
  /\ \A x \in inserted[w] \cap Unique : copies[x] = 0
  /\ \A x \in InHand(w) : copies[x] > 0 => Seeded
  /\ w \in guarded /\ pc[w] # "done" => InHand(w) \cap Unique # {}
  /\ \A x \in InHand(w) \ Unique :
       copies[x] > 0 => \E u \in Seeders \ guarded : u # w /\ pc[u] = "done" /\ {u, w} \in overlapped
  /\ w \in InFlight => w \in begun
  /\ w \in begun /\ pc[w] = "done" => Seeded

\* Two transactions never hold the same unique row.
HeldApart == \A u, w \in Seeders : u # w => inserted[u] \cap inserted[w] \cap Unique = {}

\* Where a permission was seeded the administrator was.
AdminFirst == copies[Admin] > 0 \/ \A x \in Permissions : copies[x] = 0

\* All rows are there, or a seeder is at it, or one was killed.
Attended == Seeded \/ \E q \in begun : pc[q] \in Seeding \cup {"crashed"}

\* Seeders that end without a row, or find that their tables were made
\* meanwhile, leave the database to another, if it has the model's shape.
LeftToAnother ==
  Ahead \in schema =>
    /\ \A w \in Workers : pc[w] = "create" /\ Absent(seen[w].schema) \cap Existing(schema) # {} => Attended
    /\ \A w \in begun : pc[w] \in {"done", "failed"} => Attended

RowsInv ==
  /\ CopiesFromOverlap /\ SeedersKnown /\ HeldApart /\ AdminFirst /\ LeftToAnother
  /\ \A w \in Seeders : WorkKept(w)

IInv == SchemaInv /\ RowsInv

(***************************************************************************)
(* The revisions.                                                          *)
(***************************************************************************)
LEMMA Fourteen == Newest = 14
BY DEF Newest, History

LEMMA Revisions ==
  ASSUME NEW i \in 1..Newest
  PROVE  \/ i = 1 /\ History[i] = Initial
         \/ i = 2 /\ History[i] = UserWard
         \/ i = 3 /\ History[i] = FieldActivityLogs
         \/ i = 4 /\ History[i] = ReviewFields
         \/ i = 5 /\ History[i] = PlatformOwner
         \/ i = 6 /\ History[i] = WidenSymbol
         \/ i = 7 /\ History[i] = SavedDesigns
         \/ i = 8 /\ History[i] = PosterShares
         \/ i = 9 /\ History[i] = BroadcastGroups
         \/ i = 10 /\ History[i] = ComplaintElection
         \/ i = 11 /\ History[i] = ComplaintOwner
         \/ i = 12 /\ History[i] = NotificationKind
         \/ i = 13 /\ History[i] = Merge
         \/ i = 14 /\ History[i] = ActivityOrgExpenseElection
<1>1. i \in 1..14
  BY Fourteen
<1> QED
  BY <1>1 DEF History

\* What each revision makes.
LEMMA Makes ==
  ASSUME NEW i \in 1..Newest, NEW x
  PROVE  x \in History[i].makes <=>
           \/ i = 1 /\ x \in {<<"users", "base">>, <<"registers", "base">>, <<"rosters", "base">>,
                              <<"complaints", "base">>, <<"expenses", "base">>, <<"design_templates", "base">>}
           \/ i = 3 /\ x \in {<<"volunteer_profiles", "base">>, <<"field_activity_logs", "base">>,
                              <<"field_activity_logs", "review">>}
           \/ i = 4 /\ x = <<"field_activity_logs", "review">>
           \/ i = 7 /\ x = <<"saved_designs", "base">>
           \/ i = 8 /\ x \in {<<"app_notifications", "base">>, <<"poster_shares", "base">>}
           \/ i = 9 /\ x = <<"broadcast_groups", "base">>
           \/ i = 10 /\ x = <<"complaints", "election">>
           \/ i = 11 /\ x = <<"complaints", "owner">>
           \/ i = 12 /\ x = <<"app_notifications", "kind">>
           \/ i = 14 /\ x \in {<<"expenses", "election">>, <<"field_activity_logs", "org">>}
<1>1. CASE i = 1
  <2>1. History[i].makes = {"users", "registers", "rosters", "complaints", "expenses", "design_templates"} \X {"base"}
    BY <1>1, Revisions DEF Initial, Rev
  <2> QED
    BY <1>1, <2>1
<1>2. CASE i = 3
  BY <1>2, Revisions DEF FieldActivityLogs, Rev
<1>3. CASE i = 4
  BY <1>3, Revisions DEF ReviewFields, Rev
<1>4. CASE i = 7
  BY <1>4, Revisions DEF SavedDesigns, Rev
<1>5. CASE i = 8
  BY <1>5, Revisions DEF PosterShares, Rev
<1>6. CASE i = 9
  BY <1>6, Revisions DEF BroadcastGroups, Rev
<1>7. CASE i = 10 \/ i = 11
  BY <1>7, Revisions DEF ComplaintElection, ComplaintOwner, Rev
<1>8. CASE i = 12
  BY <1>8, Revisions DEF NotificationKind, Rev
<1>9. CASE i = 14
  BY <1>9, Revisions DEF ActivityOrgExpenseElection, Rev
<1>10. CASE i \in {2, 5, 6, 13}
  BY <1>10, Revisions DEF UserWard, PlatformOwner, WidenSymbol, Merge, Rev
<1>11. i \in {1, 3, 4, 7, 8, 9, 12, 14} \/ i = 10 \/ i = 11 \/ i \in {2, 5, 6, 13}
  BY Revisions
<1> QED
  BY <1>1, <1>2, <1>3, <1>4, <1>5, <1>6, <1>7, <1>8, <1>9, <1>10, <1>11, Zenon

\* The models do not declare what direct_sql_seed.py leaves half made.
LEMMA NothingByHand == <<"registers", "hand">> \notin Modelled
<1>1. \A x \in Modelled : x[2] # "hand"
  BY DEF Modelled
<1> QED
  BY <1>1

\* What a revision makes is of the models, and the table of a column comes
\* before it.
LEMMA MadeTables ==
  ASSUME NEW i \in 1..Newest, NEW x \in History[i].makes
  PROVE  /\ x \in Modelled /\ x \in Tables \X Parts /\ x # Ahead
         /\ \E j \in 1..i : <<x[1], "base">> \in History[j].makes
<1>1. 1..i \subseteq 1..Newest /\ i \in 1..i /\ 1 \in 1..Newest /\ 1 \in 1..i
  BY Fourteen
<1>2. /\ x \in {<<"users", "base">>, <<"registers", "base">>, <<"rosters", "base">>, <<"complaints", "base">>,
                <<"expenses", "base">>, <<"design_templates", "base">>, <<"volunteer_profiles", "base">>, <<"field_activity_logs", "base">>,
                <<"saved_designs", "base">>, <<"app_notifications", "base">>, <<"poster_shares", "base">>,
                <<"broadcast_groups", "base">>}
         \/ x \in {<<"field_activity_logs", "review">>, <<"complaints", "election">>, <<"complaints", "owner">>,
                   <<"app_notifications", "kind">>, <<"expenses", "election">>, <<"field_activity_logs", "org">>}
  BY Makes
<1>3. CASE x \in {<<"users", "base">>, <<"registers", "base">>, <<"rosters", "base">>, <<"complaints", "base">>,
                <<"expenses", "base">>, <<"design_templates", "base">>, <<"volunteer_profiles", "base">>, <<"field_activity_logs", "base">>,
                <<"saved_designs", "base">>, <<"app_notifications", "base">>, <<"poster_shares", "base">>,
                <<"broadcast_groups", "base">>}
  <2>1. x[1] \in Tables /\ x = <<x[1], "base">>
    BY <1>3 DEF Tables
  <2>2. x \in Modelled /\ x \in Tables \X Parts /\ x # Ahead
    BY <2>1 DEF Modelled, Parts, Ahead
  <2> QED
    BY <2>1, <2>2, <1>1
<1>4. CASE x \in {<<"field_activity_logs", "review">>, <<"complaints", "election">>, <<"complaints", "owner">>,
                  <<"app_notifications", "kind">>, <<"expenses", "election">>, <<"field_activity_logs", "org">>}
  <2>1. x \in Modelled /\ x \in Tables \X Parts /\ x # Ahead
    BY <1>4 DEF Modelled, Tables, Parts, Ahead
  <2>2. x[1] \in {"field_activity_logs", "complaints", "app_notifications", "expenses"}
    BY <1>4
  <2>3. /\ x[1] = "field_activity_logs" => i >= 3
        /\ x[1] = "app_notifications" => i >= 8
    BY <1>4, Makes
  <2>4. \A j \in 1..Newest :
          /\ j = 1 => <<"complaints", "base">> \in History[j].makes /\ <<"expenses", "base">> \in History[j].makes
          /\ j = 3 => <<"field_activity_logs", "base">> \in History[j].makes
          /\ j = 8 => <<"app_notifications", "base">> \in History[j].makes
    BY Makes
  <2> QED
    BY <2>1, <2>2, <2>3, <2>4, <1>1, Fourteen
<1> QED
  BY <1>2, <1>3, <1>4

LEMMA MigratedWell ==
  ASSUME NEW v \in 0..Newest
  PROVE  /\ Migrated(v) \subseteq Tables \X Parts /\ WellMade(Migrated(v)) /\ Migrated(v) \subseteq Modelled
         /\ ~ByHand(Migrated(v))
         /\ \A i \in 1..v : i \in 1..Newest /\ History[i].makes \subseteq Migrated(v)
<1>1. \A i \in 1..v : i \in 1..Newest /\ 1..i \subseteq 1..v /\ 1 \in 1..v
  BY Fourteen
<1>2. \A x : x \in Migrated(v) <=> \E i \in 1..v : x \in History[i].makes
  BY DEF Migrated
<1>3. \A x \in Migrated(v) : /\ x \in Modelled /\ x \in Tables \X Parts /\ x # Ahead
                             /\ <<x[1], "base">> \in Migrated(v)
  BY <1>1, <1>2, MadeTables
<1>4. Migrated(v) # {} => <<"design_templates", "base">> \in Migrated(v)
  <2>1. Migrated(v) # {} => 1 \in 1..v /\ 1 \in 1..Newest
    BY <1>1, <1>2
  <2>2. 1 \in 1..Newest => <<"design_templates", "base">> \in History[1].makes
    BY Makes
  <2> QED
    BY <2>1, <2>2, <1>2
<1> QED
  BY <1>1, <1>2, <1>3, <1>4, NothingByHand DEF WellMade, ByHand

\* An upgrade leaves what the newest version has.
LEMMA UpgradeLeaves ==
  ASSUME NEW v \in 0..Newest, NEW s \in SUBSET (Tables \X Parts), WellMade(s), ~ByHand(s),
         Migrated(v) \subseteq s, NEW t, t = Upgraded(s, v, Newest)
  PROVE  /\ t \subseteq Tables \X Parts /\ s \subseteq t /\ WellMade(t) /\ Migrated(Newest) \subseteq t
         /\ Ahead \in t => Ahead \in s
         /\ ~ByHand(t)
<1>1. \A x : x \in t <=> x \in s \/ \E i \in (v + 1)..Newest : x \in Made(History[i], s)
  BY DEF Upgraded
<1>2. \A i \in (v + 1)..Newest : i \in 1..Newest /\ Made(History[i], s) \subseteq History[i].makes
  BY Fourteen DEF Made
<1>3. \A i \in 1..Newest : i \in 1..v \/ i \in (v + 1)..Newest
  BY Fourteen
<1>4. /\ 4 \in 1..Newest /\ <<"field_activity_logs", "review">> \in History[4].makes
      /\ History[4] # FieldActivityLogs
  <2>1. 4 \in 1..Newest
    BY Fourteen
  <2>2. <<"field_activity_logs", "review">> \in History[4].makes /\ <<"volunteer_profiles", "base">> \notin History[4].makes
    BY <2>1, Makes
  <2>3. <<"volunteer_profiles", "base">> \in FieldActivityLogs.makes
    BY DEF FieldActivityLogs, Rev
  <2> QED
    BY <2>1, <2>2, <2>3
<1>5. <<"field_activity_logs", "review">> \in t
  BY <1>1, <1>3, <1>4, MigratedWell DEF Made
<1>6. ASSUME NEW i \in 1..Newest, NEW x \in History[i].makes PROVE x \in t
  <2>1. CASE i \in 1..v
    BY <2>1, <1>1, <1>6, MigratedWell
  <2>2. CASE i \in (v + 1)..Newest /\ (History[i] # FieldActivityLogs \/ x[1] \notin Existing(s))
    BY <2>2, <1>1, <1>6 DEF Made
  <2>3. CASE History[i] = FieldActivityLogs /\ x[1] \in Existing(s)
    <3>1. x \in {<<"volunteer_profiles", "base">>, <<"field_activity_logs", "base">>, <<"field_activity_logs", "review">>}
      BY <2>3, <1>6 DEF FieldActivityLogs, Rev
    <3>2. <<x[1], "base">> \in s
      BY <2>3 DEF Existing, WellMade
    <3> QED
      BY <3>1, <3>2, <1>1, <1>5
  <2> QED
    BY <2>1, <2>2, <2>3, <1>3
<1>7. Newest \in 0..Newest
  BY Fourteen
<1>8. Migrated(Newest) \subseteq t
  BY <1>6 DEF Migrated
<1>9. \A x \in t \ s : x \in Tables \X Parts /\ x # Ahead /\ <<x[1], "base">> \in t /\ x \in Modelled
  <2> SUFFICES ASSUME NEW x \in t \ s
               PROVE  x \in Tables \X Parts /\ x # Ahead /\ <<x[1], "base">> \in t /\ x \in Modelled
    OBVIOUS
  <2>1. PICK i \in 1..Newest : x \in History[i].makes
    BY <1>1, <1>2
  <2>2. \A j \in 1..i : j \in 1..Newest
    BY Fourteen
  <2> QED
    BY <2>1, <2>2, <1>6, MadeTables
<1>10. ~ByHand(t)
  BY <1>9, NothingByHand DEF ByHand
<1>11. WellMade(t)
  <2>1. <<"design_templates", "base">> \in t
    <3>1. 1 \in 1..Newest
      BY Fourteen
    <3> QED
      BY <3>1, <1>6, Makes
  <2>2. \A x \in s : <<x[1], "base">> \in s /\ s \subseteq t /\ (Ahead \in s => Modelled \subseteq s)
    BY <1>1 DEF WellMade
  <2> QED
    BY <2>1, <2>2, <1>9 DEF WellMade
<1> QED
  BY <1>1, <1>8, <1>9, <1>10, <1>11

\* A database that was made by hand has the tables of a later revision, which
\* fails.
LEMMA HandMadeStays ==
  ASSUME NEW s, HandMade \subseteq s
  PROVE  ~Upgradable(s, SharesVersion)
<1>1. 9 \in 1..Newest /\ 9 \in (SharesVersion + 1)..Newest
  BY Fourteen DEF SharesVersion
<1>2. History[9] = BroadcastGroups
  BY <1>1, Revisions
<1>3. <<"broadcast_groups", "base">> \in s
  BY DEF HandMade
<1>4. ~Applies(History[9], Upgraded(s, SharesVersion, 9 - 1))
  BY <1>2, <1>3 DEF Applies, BroadcastGroups, Rev, Upgraded
<1> QED
  BY <1>1, <1>4 DEF Upgradable

\* The revisions run one after the other on a database that only they have made.
LEMMA UpgradesRun ==
  ASSUME NEW v \in 0..Newest
  PROVE  Upgradable(Migrated(v), v)
<1> SUFFICES ASSUME NEW i \in (v + 1)..Newest PROVE Applies(History[i], Upgraded(Migrated(v), v, i - 1))
  BY DEF Upgradable
<1> DEFINE s == Migrated(v)
           t == Upgraded(s, v, i - 1)
<1>1. i \in 1..Newest /\ \A j \in 1..(i - 1) : j \in 1..Newest /\ (j \in 1..v \/ j \in (v + 1)..(i - 1))
  BY Fourteen
<1>2. \A j \in 1..v : j \in 1..(i - 1)
  BY Fourteen
<1>3. \A j \in (v + 1)..(i - 1) : j \in 1..(i - 1)
  BY Fourteen
<1>4. \A x \in t : \E j \in 1..(i - 1) : x \in History[j].makes
  BY <1>2, <1>3 DEF Upgraded, Made, Migrated
<1>5. \A j \in 1..(i - 1) : History[j].makes \subseteq t
  <2> SUFFICES ASSUME NEW j \in 1..(i - 1), NEW x \in History[j].makes PROVE x \in t
    OBVIOUS
  <2>1. CASE j \in 1..v
    BY <2>1, MigratedWell DEF Upgraded
  <2>2. CASE j \in (v + 1)..(i - 1) /\ History[j] # FieldActivityLogs
    BY <2>2 DEF Upgraded, Made
  <2>3. CASE j \in (v + 1)..(i - 1) /\ History[j] = FieldActivityLogs
    <3>1. <<"volunteer_profiles", "base">> \in History[j].makes
      BY <2>3 DEF FieldActivityLogs, Rev
    <3>2. j = 3 /\ x[1] \in {"volunteer_profiles", "field_activity_logs"}
      BY <3>1, <1>1, Makes
    <3>3. \A k \in 1..v : k < 3 /\ k \in 1..Newest
      BY <3>2, <2>3, Fourteen
    <3>4. x[1] \notin Existing(s)
      BY <3>2, <3>3, Makes DEF Existing, Migrated
    <3> QED
      BY <3>4, <2>3 DEF Upgraded, Made
  <2> QED
    BY <2>1, <2>2, <2>3, <1>1
<1> HIDE DEF s, t
<1>6. History[i].needs \subseteq t
  <2> SUFFICES ASSUME NEW x \in History[i].needs PROVE \E j \in 1..(i - 1) : x \in History[j].makes
    BY <1>5
  <2>1. \/ x \in {<<"users", "base">>, <<"registers", "base">>, <<"complaints", "base">>, <<"expenses", "base">>,
                  <<"design_templates", "base">>} /\ i > 1
        \/ x \in {<<"field_activity_logs", "base">>, <<"field_activity_logs", "review">>} /\ i > 3
        \/ x = <<"saved_designs", "base">> /\ i > 7
        \/ x = <<"app_notifications", "base">> /\ i > 8
    BY <1>1, Revisions DEF Rev, Initial, UserWard, FieldActivityLogs, ReviewFields, PlatformOwner, WidenSymbol,
       SavedDesigns, PosterShares, BroadcastGroups, ComplaintElection, ComplaintOwner, NotificationKind, Merge,
       ActivityOrgExpenseElection
  <2>2. \A k \in {1, 3, 7, 8} : i > k => k \in 1..(i - 1) /\ k \in 1..Newest
    BY Fourteen
  <2> QED
    BY <2>1, <2>2, Makes
<1>7. History[i].guarded \/ History[i].makes \cap t = {}
  <2>1. i \in {1, 6, 8, 9, 12, 14} \/ History[i].guarded
    BY <1>1, Revisions DEF Rev, UserWard, FieldActivityLogs, ReviewFields, PlatformOwner,
       SavedDesigns, ComplaintElection, ComplaintOwner, Merge
  <2>2. ASSUME i \in {1, 6, 8, 9, 12, 14}, NEW x \in History[i].makes, NEW j \in 1..(i - 1), x \in History[j].makes
        PROVE  FALSE
    <3>1. j \in 1..Newest /\ j < i
      BY <1>1
    <3>2. CASE i \in {1, 6}
      BY <3>1, <3>2, <1>1, <2>2, Makes
    <3>3. CASE i \in {8, 9, 12, 14}
      BY <3>1, <3>3, <1>1, <2>2, Makes
    <3> QED
      BY <2>2, <3>2, <3>3
  <2> QED
    BY <2>1, <2>2, <1>4
<1> QED
  BY <1>6, <1>7 DEF Applies, t, s

(***************************************************************************)
(* Steps.                                                                  *)
(***************************************************************************)
LEMMA Four == Len(Kinds) = 4
BY DEF Kinds

LEMMA Lists ==
  /\ Kinds[1] = "permissions" /\ Kinds[2] = "roles" /\ Kinds[3] = "admin" /\ Kinds[4] = "templates"
  /\ Inserting[1] = "insert permissions" /\ Inserting[2] = "insert roles"
  /\ Inserting[3] = "insert admin" /\ Inserting[4] = "insert templates"
BY DEF Kinds, Inserting

\* The step after the insertion of a kind.
After(i) == IF i < Len(Kinds) THEN Kinds[i + 1] ELSE "commit"

LEMMA Told ==
  ASSUME NEW i \in 1..Len(Kinds)
  PROVE  \/ /\ Kinds[i] = "permissions" /\ Inserting[i] = "insert permissions" /\ After(i) = "roles"
            /\ OfKind(Kinds[i]) = Permissions
         \/ /\ Kinds[i] = "roles" /\ Inserting[i] = "insert roles" /\ After(i) = "admin"
            /\ OfKind(Kinds[i]) = Roles
         \/ /\ Kinds[i] = "admin" /\ Inserting[i] = "insert admin" /\ After(i) = "templates"
            /\ OfKind(Kinds[i]) = {Admin}
         \/ /\ Kinds[i] = "templates" /\ Inserting[i] = "insert templates" /\ After(i) = "commit"
            /\ OfKind(Kinds[i]) = Templates
<1>1. (i = 1 \/ i = 2 \/ i = 3 \/ i = 4) /\ (i < Len(Kinds) <=> i < 4)
  BY Four
<1>2. After(i) = IF i = 4 THEN "commit" ELSE Kinds[i + 1]
  BY <1>1, Four DEF After
<1>3. /\ OfKind("permissions") = Permissions /\ OfKind("roles") = Roles /\ OfKind("admin") = {Admin}
      /\ OfKind("templates") = Templates
  BY DEF OfKind
<1>4. CASE i = 1
  <2>1. After(i) = Kinds[2]
    BY <1>2, <1>4
  <2> QED
    BY <2>1, <1>3, <1>4, Lists, Zenon
<1>5. CASE i = 2
  <2>1. After(i) = Kinds[3]
    BY <1>2, <1>5
  <2> QED
    BY <2>1, <1>3, <1>5, Lists, Zenon
<1>6. CASE i = 3
  <2>1. After(i) = Kinds[4]
    BY <1>2, <1>6
  <2> QED
    BY <2>1, <1>3, <1>6, Lists, Zenon
<1>7. CASE i = 4
  <2>1. After(i) = "commit"
    BY <1>2, <1>7
  <2> QED
    BY <2>1, <1>3, <1>7, Lists, Zenon
<1> QED
  BY <1>1, <1>4, <1>5, <1>6, <1>7

\* The steps of a seeder, one after the other.
LEMMA KindsTold ==
  ASSUME NEW i \in 1..Len(Kinds)
  PROVE  /\ Kinds[i] \in Seeding /\ Inserting[i] \in Seeding /\ After(i) \in Seeding
         /\ Behind(Kinds[i]) = Behind(Inserting[i]) /\ Before(Kinds[i]) = {}
         /\ Before(Inserting[i]) = OfKind(Kinds[i]) /\ OfKind(Kinds[i]) \subseteq Rows
         /\ Behind(After(i)) = Behind(Inserting[i]) \cup OfKind(Kinds[i]) /\ Before(After(i)) = {}
<1>1. /\ Behind("permissions") = {} /\ Behind("insert permissions") = {}
      /\ Behind("roles") = Permissions /\ Behind("insert roles") = Permissions
      /\ Behind("admin") = Permissions \cup Roles /\ Behind("insert admin") = Permissions \cup Roles
      /\ Behind("templates") = Permissions \cup Roles \cup {Admin}
      /\ Behind("insert templates") = Permissions \cup Roles \cup {Admin}
      /\ Behind("commit") = Permissions \cup Roles \cup {Admin} \cup Templates
  BY DEF Behind, Rows
<1>2. /\ Before("permissions") = {} /\ Before("insert permissions") = Permissions
      /\ Before("roles") = {} /\ Before("insert roles") = Roles
      /\ Before("admin") = {} /\ Before("insert admin") = {Admin}
      /\ Before("templates") = {} /\ Before("insert templates") = Templates
      /\ Before("commit") = {}
  BY DEF Before
<1>3. Kinds[i] \in Seeding /\ Inserting[i] \in Seeding /\ After(i) \in Seeding
  BY Told DEF Seeding
<1>4. OfKind(Kinds[i]) \subseteq Rows
  BY Told DEF Rows
<1>5. Before(Kinds[i]) = {} /\ Before(Inserting[i]) = OfKind(Kinds[i]) /\ Before(After(i)) = {}
  BY <1>2, Told
<1>6. Behind(Kinds[i]) = Behind(Inserting[i])
  BY <1>1, Told
<1>7. Behind(After(i)) = Behind(Inserting[i]) \cup OfKind(Kinds[i])
  BY <1>1, Told
<1> QED
  BY <1>3, <1>4, <1>5, <1>6, <1>7

\* Only a seeder at its rows has something in hand.
LEMMA StepsApart ==
  ASSUME NEW step
  PROVE  /\ step \notin Seeding => Behind(step) = {} /\ Before(step) = {}
         /\ Before("commit") = {} /\ Behind("commit") = Rows
         /\ Behind("permissions") = {} /\ Before("permissions") = {}
         /\ \A x \in Behind(step) \cup Before(step) : x \notin Permissions => Permissions \subseteq Behind(step)
<1>1. step \notin Seeding => Behind(step) = {} /\ Before(step) = {}
  BY DEF Seeding, Behind, Before
<1>2. Before("commit") = {} /\ Behind("commit") = Rows /\ Behind("permissions") = {} /\ Before("permissions") = {}
  BY DEF Behind, Before
<1>3. ASSUME NEW x \in Behind(step) \cup Before(step), x \notin Permissions PROVE Permissions \subseteq Behind(step)
  <2>1. CASE step \in {"permissions", "insert permissions"}
    BY <1>3, <2>1 DEF Behind, Before
  <2>2. CASE step \in Seeding \ {"permissions", "insert permissions"}
    BY <2>2 DEF Behind, Seeding, Rows
  <2> QED
    BY <1>1, <1>3, <2>1, <2>2
<1> QED
  BY <1>1, <1>2, <1>3

LEMMA StepsKnown ==
  /\ Step = {"new", "migrate", "serving", "create", "commit", "done", "skipped", "failed", "crashed"} \cup Seeding
  /\ \A i \in 1..Len(Kinds) : Kinds[i] \in Step /\ Inserting[i] \in Step
<1>1. Range(Kinds) = {"permissions", "roles", "admin", "templates"}
  BY DEF Kinds, Range
<1>2. Range(Inserting) = {"insert permissions", "insert roles", "insert admin", "insert templates"}
  <2>1. DOMAIN Inserting = {1, 2, 3, 4}
    BY DEF Inserting
  <2> QED
    BY <2>1, Lists DEF Range
<1>3. Step = {"new", "migrate", "serving", "create", "commit", "done", "skipped", "failed", "crashed"} \cup Seeding
  BY <1>1, <1>2 DEF Step, Seeding
<1> QED
  BY <1>3, KindsTold

LEMMA ProcessesApart ==
  /\ Containers \cap Seeders = {} /\ Workers \subseteq Seeders /\ Seeds \subseteq Seeders
  /\ Containers \subseteq Processes /\ Seeders \subseteq Processes
  /\ \A w \in Workers : Home[w] \in Containers \cup {None}
  /\ None \notin Containers
BY DeploymentAssumption DEF Seeders, Processes

\* A process begins.
LEMMA Begins ==
  ASSUME TypeOK, NEW p \in Processes, NEW step \in Step \ {"new"}, Begin(p, step)
  PROVE  /\ pc[p] = "new" /\ pc'[p] = step /\ \A q \in Processes \ {p} : pc'[q] = pc[q]
         /\ pc' \in [Processes -> Step]
         /\ InFlight' \subseteq InFlight \cup {p} /\ p \notin InFlight
         /\ disturbed' \subseteq Containers /\ overlapped' \subseteq SUBSET Seeders
         /\ InFlight # {} => \A c \in InFlight \cap Containers : c \in disturbed'
         /\ InFlight # {} /\ p \in Containers => p \in disturbed'
         /\ \A c \in disturbed : c = p \/ c \in disturbed'
         /\ begun' = begun \cup ({p} \cap Seeders)
         /\ p \notin Seeders => overlapped' = overlapped
         /\ overlapped \subseteq overlapped' /\ \A q \in InFlight : {p, q} \subseteq Seeders => {p, q} \in overlapped'
<1>1. /\ pc[p] = "new" /\ pc' = [pc EXCEPT ![p] = step] /\ pc \in [Processes -> Step]
      /\ overlapped' = overlapped \cup {{p, q} : q \in {x \in InFlight : {p, x} \subseteq Seeders}}
      /\ begun' = begun \cup ({p} \cap Seeders)
      /\ disturbed' = IF InFlight = {} THEN disturbed \ {p}
                      ELSE disturbed \cup (({p} \cup InFlight) \cap Containers)
  BY DEF Begin, TypeOK
<1>2. /\ pc'[p] = step /\ \A q \in Processes \ {p} : pc'[q] = pc[q]
      /\ pc' \in [Processes -> Step]
  BY <1>1
<1>3. InFlight' \subseteq InFlight \cup {p} /\ p \notin InFlight
  BY <1>1, <1>2 DEF InFlight
<1>4. overlapped' \subseteq SUBSET Seeders
  BY <1>1 DEF TypeOK
<1>5. /\ disturbed' \subseteq Containers
      /\ InFlight # {} => \A c \in InFlight \cap Containers : c \in disturbed'
      /\ InFlight # {} /\ p \in Containers => p \in disturbed'
      /\ \A c \in disturbed : c = p \/ c \in disturbed'
  BY <1>1 DEF TypeOK
<1> QED
  BY <1>1, <1>2, <1>3, <1>4, <1>5

\* A process ends.
LEMMA EndsSo ==
  ASSUME TypeOK, NEW p \in InFlight, NEW how \in {"serving", "done", "failed", "crashed"}, End(p, how)
  PROVE  /\ pc'[p] = how /\ \A q \in Processes \ {p} : pc'[q] = pc[q] /\ seen'[q] = seen[q]
         /\ pc' \in [Processes -> Step] /\ InFlight' = InFlight \ {p}
         /\ seen' \in [Processes -> [schema : SUBSET (Tables \X Parts), version : 0..Newest]]
         /\ missing' \in [Seeders -> SUBSET Rows] /\ inserted' \in [Seeders -> SUBSET Rows]
         /\ \A q \in Seeders : q # p => missing'[q] = missing[q] /\ inserted'[q] = inserted[q]
         /\ p \in Seeders => missing'[p] = {} /\ inserted'[p] = {}
         /\ guarded' \subseteq Seeders /\ overlapped' \subseteq SUBSET Seeders
         /\ how = "done" => guarded' = guarded /\ overlapped' = overlapped
         /\ how # "done" => guarded' = guarded \ {p} /\ overlapped' = {o \in overlapped : p \notin o}
         /\ p \notin Seeders => /\ missing' = missing /\ inserted' = inserted
                                /\ guarded' = guarded /\ overlapped' = overlapped
<1>1. /\ pc \in [Processes -> Step] /\ p \in Processes
      /\ seen \in [Processes -> [schema : SUBSET (Tables \X Parts), version : 0..Newest]]
      /\ missing \in [Seeders -> SUBSET Rows] /\ inserted \in [Seeders -> SUBSET Rows]
      /\ guarded \subseteq Seeders /\ overlapped \subseteq SUBSET Seeders
  BY DEF TypeOK, InFlight
<1>2. /\ pc' = [pc EXCEPT ![p] = how]
      /\ seen' = [seen EXCEPT ![p] = [schema |-> {}, version |-> 0]]
      /\ missing' = [q \in Seeders |-> IF q = p THEN {} ELSE missing[q]]
      /\ inserted' = [q \in Seeders |-> IF q = p THEN {} ELSE inserted[q]]
      /\ guarded' = IF how = "done" THEN guarded ELSE guarded \ {p}
      /\ overlapped' = IF how = "done" THEN overlapped ELSE {o \in overlapped : p \notin o}
  BY DEF End
<1>3. /\ pc'[p] = how /\ \A q \in Processes \ {p} : pc'[q] = pc[q] /\ seen'[q] = seen[q]
      /\ pc' \in [Processes -> Step]
  BY <1>1, <1>2, StepsKnown
<1>4. InFlight' = InFlight \ {p}
  BY <1>1, <1>3 DEF InFlight
<1>5. seen' \in [Processes -> [schema : SUBSET (Tables \X Parts), version : 0..Newest]]
  <2>1. [schema |-> {}, version |-> 0] \in [schema : SUBSET (Tables \X Parts), version : 0..Newest]
    BY Fourteen
  <2> QED
    BY <2>1, <1>1, <1>2
<1>6. /\ missing' \in [Seeders -> SUBSET Rows] /\ inserted' \in [Seeders -> SUBSET Rows]
      /\ \A q \in Seeders : q # p => missing'[q] = missing[q] /\ inserted'[q] = inserted[q]
      /\ p \in Seeders => missing'[p] = {} /\ inserted'[p] = {}
      /\ p \notin Seeders => missing' = missing /\ inserted' = inserted
  BY <1>1, <1>2
<1>7. /\ guarded' \subseteq Seeders /\ overlapped' \subseteq SUBSET Seeders
      /\ p \notin Seeders => guarded' = guarded /\ overlapped' = overlapped
  BY <1>1, <1>2
<1> QED
  BY <1>2, <1>3, <1>4, <1>5, <1>6, <1>7

\* A run, a server or a script that fails, or a process that is killed.
Falls(p, how) ==
  /\ p \in InFlight /\ how \in {"failed", "crashed"} /\ End(p, how)
  /\ UNCHANGED <<database, visited, begun, disturbed>>

LEMMA Failures ==
  ASSUME NEW p
  PROVE  /\ MigrateFails(p) => Falls(p, "failed") /\ p \in Containers /\ pc[p] = "migrate"
         /\ CreateFails(p) => Falls(p, "failed") /\ p \in Workers /\ pc[p] = "create"
         /\ \A i \in 1..Len(Kinds) :
              /\ FindFails(p, i) => Falls(p, "failed") /\ p \in Seeders /\ pc[p] = Kinds[i]
              /\ InsertFails(p, i) => Falls(p, "failed") /\ p \in Seeders /\ pc[p] = Inserting[i]
         /\ Crash(p) => Falls(p, "crashed")
<1>1. Seeding \cap {"new", "serving", "done", "skipped", "failed", "crashed"} = {}
  BY DEF Seeding
<1>2. MigrateFails(p) => Falls(p, "failed") /\ p \in Containers /\ pc[p] = "migrate"
  BY ProcessesApart DEF MigrateFails, Falls, InFlight
<1>3. CreateFails(p) => Falls(p, "failed") /\ p \in Workers /\ pc[p] = "create"
  BY ProcessesApart DEF CreateFails, Falls, InFlight
<1>4. ASSUME NEW i \in 1..Len(Kinds)
      PROVE  /\ FindFails(p, i) => Falls(p, "failed") /\ p \in Seeders /\ pc[p] = Kinds[i]
             /\ InsertFails(p, i) => Falls(p, "failed") /\ p \in Seeders /\ pc[p] = Inserting[i]
  <2>1. Kinds[i] \in Seeding /\ Inserting[i] \in Seeding
    BY <1>4, KindsTold
  <2> QED
    BY <2>1, <1>1, ProcessesApart DEF FindFails, InsertFails, Falls, InFlight
<1>5. Crash(p) => Falls(p, "crashed")
  BY DEF Crash, Falls
<1> QED
  BY <1>2, <1>3, <1>4, <1>5

\* A seeder goes on with its rows.
LEMMA Goes ==
  ASSUME TypeOK, NEW p \in Processes, NEW step \in Step, Goto(p, step)
  PROVE  /\ pc'[p] = step /\ \A q \in Processes \ {p} : pc'[q] = pc[q]
         /\ pc' \in [Processes -> Step]
         /\ step \notin {"new", "serving", "done", "skipped", "failed", "crashed"} => InFlight' = InFlight \cup {p}
         /\ step \in {"new", "serving", "done", "skipped", "failed", "crashed"} => InFlight' = InFlight \ {p}
<1>1. pc' = [pc EXCEPT ![p] = step] /\ pc \in [Processes -> Step]
  BY DEF Goto, TypeOK
<1>2. pc'[p] = step /\ (\A q \in Processes \ {p} : pc'[q] = pc[q]) /\ pc' \in [Processes -> Step]
  BY <1>1
<1> QED
  BY <1>2 DEF InFlight

\* A process looks.
LEMMA Looks ==
  ASSUME TypeOK, NEW p \in Processes, Look(p)
  PROVE  /\ seen'[p].schema = schema /\ seen'[p].version = version
         /\ \A q \in Processes \ {p} : seen'[q] = seen[q]
         /\ seen' \in [Processes -> [schema : SUBSET (Tables \X Parts), version : 0..Newest]]
<1>1. /\ seen' = [seen EXCEPT ![p] = [schema |-> schema, version |-> version]]
      /\ seen \in [Processes -> [schema : SUBSET (Tables \X Parts), version : 0..Newest]]
      /\ [schema |-> schema, version |-> version] \in [schema : SUBSET (Tables \X Parts), version : 0..Newest]
  BY DEF Look, TypeOK
<1>2. seen'[p] = [schema |-> schema, version |-> version]
  BY <1>1
<1> QED
  BY <1>1, <1>2

LEMMA ModelWell == Modelled \subseteq Tables \X Parts /\ WellMade(Modelled) /\ ~ByHand(Modelled)
<1>1. Modelled \subseteq Tables \X Parts
  BY DEF Modelled, Tables, Parts
<1>2. \A x \in Modelled : x[1] \in Tables
  BY <1>1
<1>3. \A t \in Tables : <<t, "base">> \in Modelled
  BY DEF Modelled
<1>4. "design_templates" \in Tables
  BY DEF Tables
<1> QED
  BY <1>1, <1>2, <1>3, <1>4, NothingByHand DEF WellMade, ByHand

LEMMA HandMadeWell == HandMade \subseteq Tables \X Parts /\ WellMade(HandMade) /\ ByHand(HandMade)
<1>1. HandMade \subseteq Tables \X Parts
  BY DEF HandMade, Tables, Parts
<1>2. <<"design_templates", "base">> \in HandMade /\ <<"registers", "hand">> \in HandMade
  BY DEF HandMade
<1> QED
  BY <1>1, <1>2 DEF WellMade, ByHand

LEMMA ScriptVersions ==
  /\ SharesVersion \in 0..Newest /\ ComplaintVersion \in 0..Newest /\ 0 \in 0..Newest
  /\ Migrated(SharesVersion) \subseteq Modelled /\ Migrated(ComplaintVersion) \subseteq Modelled
  /\ Migrated(0) = {}
<1>1. SharesVersion \in 0..Newest /\ ComplaintVersion \in 0..Newest /\ 0 \in 0..Newest
  BY Fourteen DEF SharesVersion, ComplaintVersion
<1>2. Migrated(0) = {}
  BY DEF Migrated
<1> QED
  BY <1>1, <1>2, MigratedWell

\* A script makes the database anew, and leaves permissions only with the
\* administrator.
LEMMA Rebuilds ==
  ASSUME CleanReset \/ SyncPerfectSchema \/ DirectSqlSeed \/ ScriptStopped
  PROVE  /\ InFlight = {}
         /\ schema' \subseteq Tables \X Parts /\ WellMade(schema') /\ version' \in 0..Newest
         /\ ByHand(schema') => version' = SharesVersion /\ HandMade \subseteq schema'
         /\ ~ByHand(schema') => Migrated(version') \subseteq schema'
         /\ \E rows : /\ copies' = [x \in Rows |-> IF x \in rows THEN 1 ELSE 0]
                      /\ Admin \in rows \/ rows \cap Permissions = {}
         /\ visited' = TRUE /\ begun' = {} /\ overlapped' = {} /\ guarded' = {}
         /\ UNCHANGED <<pc, locals, disturbed>>
<1>1. PICK made, stamp, rows :
        /\ Rebuild(made, stamp, rows)
        /\ \/ made = Modelled /\ stamp \in {SharesVersion, ComplaintVersion, 0}
           \/ made = {} /\ stamp = 0
           \/ made = HandMade /\ stamp = SharesVersion
        /\ Admin \in rows \/ rows \cap Permissions = {}
  <2>1. CASE CleanReset \/ SyncPerfectSchema
    <3>1. Admin \in Rows
      BY DEF Rows
    <3> QED
      BY <2>1, <3>1 DEF CleanReset, SyncPerfectSchema
  <2>2. CASE DirectSqlSeed
    <3>1. PICK r \in Roles : \E rows \in {{}, {r}, {r, Admin}} : Rebuild(HandMade, SharesVersion, rows)
      BY <2>2 DEF DirectSqlSeed
    <3>2. PICK rows \in {{}, {r}, {r, Admin}} : Rebuild(HandMade, SharesVersion, rows)
      BY <3>1
    <3>3. r \notin Permissions
      BY DeploymentAssumption
    <3>4. Admin \in rows \/ rows \cap Permissions = {}
      BY <3>3
    <3> QED
      BY <3>2, <3>4
  <2>3. CASE ScriptStopped
    BY <2>3 DEF ScriptStopped
  <2> QED
    BY <2>1, <2>2, <2>3
<1>2. /\ made \subseteq Tables \X Parts /\ WellMade(made) /\ stamp \in 0..Newest
      /\ ByHand(made) => stamp = SharesVersion /\ HandMade \subseteq made
      /\ ~ByHand(made) => Migrated(stamp) \subseteq made
  <2>1. WellMade({}) /\ ~ByHand({})
    BY DEF WellMade, ByHand, Ahead
  <2> QED
    BY <1>1, <2>1, ModelWell, HandMadeWell, ScriptVersions
<1> QED
  BY <1>1, <1>2 DEF Rebuild

\* An upgrade that succeeds is not of a database that was made by hand.
LEMMA UpgradeCommits ==
  ASSUME TypeOK, SchemaInv, NEW c \in Containers, MigrateCommit(c)
  PROVE  /\ ~ByHand(schema) /\ ~ByHand(schema')
         /\ schema' \subseteq Tables \X Parts /\ schema \subseteq schema' /\ WellMade(schema')
         /\ Migrated(Newest) \subseteq schema'
         /\ Ahead \in schema' => Ahead \in schema /\ Existing(schema') = Existing(schema)
<1>1. schema' = Upgraded(schema, version, Newest) /\ Upgradable(schema, version)
  BY DEF MigrateCommit
<1>2. ~ByHand(schema)
  BY <1>1, HandMadeStays DEF SchemaInv, Consistent
<1>3. /\ ~ByHand(schema') /\ schema' \subseteq Tables \X Parts /\ schema \subseteq schema' /\ WellMade(schema')
      /\ Migrated(Newest) \subseteq schema'
      /\ Ahead \in schema' => Ahead \in schema
  BY <1>1, <1>2, UpgradeLeaves DEF SchemaInv, Consistent, TypeOK
<1>4. ASSUME Ahead \in schema' PROVE Existing(schema') = Existing(schema)
  <2>1. Modelled \subseteq schema
    BY <1>2, <1>3, <1>4 DEF SchemaInv, WellMade
  <2>2. \A t \in Tables : <<t, "base">> \in schema /\ <<t, "base">>[1] = t
    BY <2>1 DEF Modelled
  <2>3. \A x \in schema' : x[1] \in Tables
    BY <1>3
  <2> QED
    BY <1>3, <2>2, <2>3 DEF Existing
<1> QED
  BY <1>2, <1>3, <1>4

(***************************************************************************)
(* Types.                                                                  *)
(***************************************************************************)
LEMMA TypesHold ==
  ASSUME TypeOK, SchemaInv, [Next]_vars
  PROVE  TypeOK'
<1> USE DEF database, locals, history
<1>t. /\ schema \subseteq Tables \X Parts /\ version \in 0..Newest /\ copies \in [Rows -> Nat]
      /\ pc \in [Processes -> Step]
      /\ seen \in [Processes -> [schema : SUBSET (Tables \X Parts), version : 0..Newest]]
      /\ missing \in [Seeders -> SUBSET Rows] /\ inserted \in [Seeders -> SUBSET Rows]
      /\ visited \in BOOLEAN /\ guarded \subseteq Seeders /\ begun \subseteq Seeders
      /\ overlapped \subseteq SUBSET Seeders /\ disturbed \subseteq Containers
  BY DEF TypeOK
<1>s. /\ {"migrate", "create", "skipped", "serving", "done", "failed", "crashed", "new"} \subseteq Step
      /\ Seeding \subseteq Step /\ Seeding \cap {"new", "serving", "done", "skipped", "failed", "crashed"} = {}
  BY StepsKnown DEF Seeding
<1>p. \A q \in Containers \cup Workers \cup Seeds : q \in Processes /\ \A how : {q} \cap Seeders \subseteq Seeders
  BY ProcessesApart
<1>1. ASSUME NEW c \in Containers, MigrateRead(c) PROVE TypeOK'
  <2>1. Begin(c, "migrate") /\ Look(c) /\ UNCHANGED <<database, missing, inserted, visited, guarded>>
    BY <1>1 DEF MigrateRead
  <2>2. "migrate" \in Step \ {"new"} /\ c \in Processes
    BY <1>s, <1>p
  <2>3. pc' \in [Processes -> Step] /\ disturbed' \subseteq Containers /\ overlapped' \subseteq SUBSET Seeders
        /\ begun' = begun \cup ({c} \cap Seeders)
    BY <2>1, <2>2, Begins
  <2>4. seen' \in [Processes -> [schema : SUBSET (Tables \X Parts), version : 0..Newest]]
    BY <2>1, <2>2, Looks
  <2> QED
    BY <2>1, <2>3, <2>4, <1>t DEF TypeOK
<1>2. ASSUME NEW w \in Workers, CreateRead(w) PROVE TypeOK'
  <2>1. Begin(w, "create") /\ Look(w) /\ UNCHANGED <<database, missing, inserted, visited, guarded>>
    BY <1>2 DEF CreateRead
  <2>2. "create" \in Step \ {"new"} /\ w \in Processes
    BY <1>s, <1>p
  <2>3. pc' \in [Processes -> Step] /\ disturbed' \subseteq Containers /\ overlapped' \subseteq SUBSET Seeders
        /\ begun' = begun \cup ({w} \cap Seeders)
    BY <2>1, <2>2, Begins
  <2>4. seen' \in [Processes -> [schema : SUBSET (Tables \X Parts), version : 0..Newest]]
    BY <2>1, <2>2, Looks
  <2> QED
    BY <2>1, <2>3, <2>4, <1>t DEF TypeOK
<1>3. ASSUME NEW m \in Seeds, ManualSeed(m) PROVE TypeOK'
  <2>1. Begin(m, IF copies[Admin] > 0 THEN "skipped" ELSE Kinds[1])
        /\ UNCHANGED <<database, locals, visited, guarded>>
    BY <1>3 DEF ManualSeed
  <2>2. (IF copies[Admin] > 0 THEN "skipped" ELSE Kinds[1]) \in Step \ {"new"} /\ m \in Processes
    BY <1>s, <1>p, Lists DEF Seeding
  <2>3. pc' \in [Processes -> Step] /\ disturbed' \subseteq Containers /\ overlapped' \subseteq SUBSET Seeders
        /\ begun' = begun \cup ({m} \cap Seeders)
    BY <2>1, <2>2, Begins
  <2> QED
    BY <2>1, <2>3, <1>t DEF TypeOK
<1>4. ASSUME NEW c \in Containers, MigrateCommit(c) PROVE TypeOK'
  <2>1. /\ schema' = Upgraded(schema, version, Newest) /\ version' = Newest /\ End(c, "serving")
        /\ UNCHANGED <<copies, visited, begun, disturbed>> /\ c \in InFlight
    BY <1>4, <1>p DEF MigrateCommit, InFlight
  <2>2. schema' \subseteq Tables \X Parts
    BY <1>4, UpgradeCommits
  <2>3. version' \in 0..Newest
    BY <2>1, Fourteen
  <2>4. /\ pc' \in [Processes -> Step]
        /\ seen' \in [Processes -> [schema : SUBSET (Tables \X Parts), version : 0..Newest]]
        /\ missing' \in [Seeders -> SUBSET Rows] /\ inserted' \in [Seeders -> SUBSET Rows]
        /\ guarded' \subseteq Seeders /\ overlapped' \subseteq SUBSET Seeders
    BY <2>1, EndsSo
  <2> QED
    BY <2>1, <2>2, <2>3, <2>4, <1>t DEF TypeOK
<1>5. ASSUME NEW p, NEW how, Falls(p, how) PROVE TypeOK'
  <2>1. p \in InFlight /\ how \in {"serving", "done", "failed", "crashed"} /\ End(p, how)
        /\ UNCHANGED <<database, visited, begun, disturbed>>
    BY <1>5 DEF Falls
  <2>2. /\ pc' \in [Processes -> Step]
        /\ seen' \in [Processes -> [schema : SUBSET (Tables \X Parts), version : 0..Newest]]
        /\ missing' \in [Seeders -> SUBSET Rows] /\ inserted' \in [Seeders -> SUBSET Rows]
        /\ guarded' \subseteq Seeders /\ overlapped' \subseteq SUBSET Seeders
    BY <2>1, EndsSo
  <2> QED
    BY <2>1, <2>2, <1>t DEF TypeOK
<1>6. ASSUME NEW c \in Containers, Restart(c) PROVE TypeOK'
  <2>1. Goto(c, "new") /\ UNCHANGED <<database, locals, visited, history>>
    BY <1>6 DEF Restart
  <2>2. pc' \in [Processes -> Step]
    BY <2>1, <1>s, <1>p, Goes
  <2> QED
    BY <2>1, <2>2, <1>t DEF TypeOK
<1>7. ASSUME NEW w \in Workers, CreateCommit(w) PROVE TypeOK'
  <2>1. /\ schema' = schema \cup {x \in Modelled : x[1] \in Absent(seen[w].schema)}
        /\ visited' \in BOOLEAN /\ Goto(w, Kinds[1])
        /\ seen' = [seen EXCEPT ![w] = [schema |-> {}, version |-> 0]]
        /\ UNCHANGED <<version, copies, missing, inserted, history>>
    BY <1>7 DEF CreateCommit
  <2>2. pc' \in [Processes -> Step]
    <3>1. Kinds[1] \in Step
      BY <1>s, Lists DEF Seeding
    <3> QED
      BY <2>1, <3>1, <1>p, Goes
  <2>3. seen' \in [Processes -> [schema : SUBSET (Tables \X Parts), version : 0..Newest]]
    <3>1. [schema |-> {}, version |-> 0] \in [schema : SUBSET (Tables \X Parts), version : 0..Newest]
      BY Fourteen
    <3> QED
      BY <3>1, <2>1, <1>t
  <2>4. schema' \subseteq Tables \X Parts
    BY <2>1, <1>t, ModelWell
  <2> QED
    BY <2>1, <2>2, <2>3, <2>4, <1>t DEF TypeOK
<1>8. ASSUME NEW w \in Seeders, NEW i \in 1..Len(Kinds), Find(w, i) PROVE TypeOK'
  <2>1. /\ missing' = [missing EXCEPT ![w] = Lacking(w, Kinds[i])]
        /\ guarded' \subseteq guarded \cup {w} /\ Goto(w, Inserting[i])
        /\ UNCHANGED <<database, seen, inserted, visited, begun, overlapped, disturbed>>
    BY <1>8 DEF Find
  <2>2. Lacking(w, Kinds[i]) \subseteq Rows
    BY KindsTold DEF Lacking
  <2>3. pc' \in [Processes -> Step]
    <3>1. Inserting[i] \in Step /\ w \in Processes
      BY <1>s, KindsTold, ProcessesApart
    <3> QED
      BY <2>1, <3>1, Goes
  <2>4. missing' \in [Seeders -> SUBSET Rows]
    BY <2>1, <2>2, <1>t
  <2> QED
    BY <2>1, <2>3, <2>4, <1>t DEF TypeOK
<1>9. ASSUME NEW w \in Seeders, NEW i \in 1..Len(Kinds), Insert(w, i) PROVE TypeOK'
  <2>1. /\ inserted' = [inserted EXCEPT ![w] = @ \cup missing[w]] /\ missing' = [missing EXCEPT ![w] = {}]
        /\ Goto(w, After(i)) /\ UNCHANGED <<schema, version, copies, seen, visited, history>>
    BY <1>9 DEF Insert, Flush, After
  <2>2. pc' \in [Processes -> Step]
    <3>1. After(i) \in Step /\ w \in Processes
      BY <1>s, KindsTold, ProcessesApart
    <3> QED
      BY <2>1, <3>1, Goes
  <2>3. missing' \in [Seeders -> SUBSET Rows] /\ inserted' \in [Seeders -> SUBSET Rows]
    BY <2>1, <1>t
  <2> QED
    BY <2>1, <2>2, <2>3, <1>t DEF TypeOK
<1>10. ASSUME NEW w \in Seeders, SeedCommit(w) PROVE TypeOK'
  <2>1. /\ copies' = [x \in Rows |-> IF x \in inserted[w] THEN copies[x] + 1 ELSE copies[x]] /\ End(w, "done")
        /\ UNCHANGED <<schema, version, visited, begun, disturbed>> /\ w \in InFlight
    BY <1>10, ProcessesApart DEF SeedCommit, InFlight
  <2>2. copies' \in [Rows -> Nat]
    BY <2>1, <1>t
  <2>3. /\ pc' \in [Processes -> Step]
        /\ seen' \in [Processes -> [schema : SUBSET (Tables \X Parts), version : 0..Newest]]
        /\ missing' \in [Seeders -> SUBSET Rows] /\ inserted' \in [Seeders -> SUBSET Rows]
        /\ guarded' \subseteq Seeders /\ overlapped' \subseteq SUBSET Seeders
    BY <2>1, EndsSo
  <2> QED
    BY <2>1, <2>2, <2>3, <1>t DEF TypeOK
<1>11. ASSUME CleanReset \/ SyncPerfectSchema \/ DirectSqlSeed \/ ScriptStopped PROVE TypeOK'
  <2>1. /\ schema' \subseteq Tables \X Parts /\ version' \in 0..Newest
        /\ visited' = TRUE /\ begun' = {} /\ overlapped' = {} /\ guarded' = {}
        /\ UNCHANGED <<pc, locals, disturbed>>
    BY <1>11, Rebuilds
  <2>2. copies' \in [Rows -> Nat]
    <3>1. PICK rows : copies' = [x \in Rows |-> IF x \in rows THEN 1 ELSE 0]
      BY <1>11, Rebuilds
    <3> QED
      BY <3>1
  <2> QED
    BY <2>1, <2>2, <1>t DEF TypeOK
<1>12. CASE UNCHANGED vars
  BY <1>12, <1>t DEF vars, TypeOK
<1> QED
  BY <1>1, <1>2, <1>3, <1>4, <1>5, <1>6, <1>7, <1>8, <1>9, <1>10, <1>11, <1>12, Failures DEF Next, Seeders

(***************************************************************************)
(* The schema.                                                             *)
(***************************************************************************)
\* A step of a process that leaves the schema alone.
LEMMA SchemaKept ==
  ASSUME TypeOK, TypeOK', SchemaInv, UNCHANGED <<schema, version, visited>>,
         NEW p \in Processes, pc[p] # "serving", pc'[p] # "serving",
         \A q \in Processes \ {p} : pc'[q] = pc[q] /\ seen'[q] = seen[q],
         p \in Workers => SeenThere(p)', p \in Containers => Alone(p)',
         \A c \in Containers \ {p} :
           pc[c] = "migrate" /\ c \notin disturbed' => c \notin disturbed /\ InFlight' \subseteq InFlight,
         \A c \in disturbed : c = p \/ c \in disturbed',
         p \in Containers /\ pc'[p] = "failed" => visited \/ p \in disturbed'
  PROVE  SchemaInv'
<1>p. Containers \subseteq Processes /\ Workers \subseteq Processes
  BY ProcessesApart
<1>1. Consistent'
  BY DEF SchemaInv, Consistent
<1>2. OnlyVisitorsBlockUpgrades'
  BY <1>p DEF SchemaInv, OnlyVisitorsBlockUpgrades
<1>3. WellMade(schema)'
  BY DEF SchemaInv
<1>4. OnTheWay'
  BY <1>p DEF SchemaInv, OnTheWay
<1>5. ASSUME NEW w \in Workers PROVE SeenThere(w)'
  <2>1. CASE w = p
    BY <2>1, <1>5
  <2>2. CASE w # p
    <3>1. pc'[w] = pc[w] /\ seen'[w] = seen[w] /\ SeenThere(w)
      BY <2>2, <1>5, <1>p DEF SchemaInv
    <3>2. Home[w] # None => (pc[Home[w]] = "serving" => pc'[Home[w]] = "serving")
      BY <1>5, <1>p, ProcessesApart
    <3> QED
      BY <3>1, <3>2 DEF SeenThere
  <2> QED
    BY <2>1, <2>2
<1>6. ASSUME NEW c \in Containers PROVE Alone(c)'
  <2>1. CASE c = p
    BY <2>1, <1>6
  <2>2. CASE c # p
    <3>1. pc'[c] = pc[c] /\ seen'[c] = seen[c] /\ Alone(c)
      BY <2>2, <1>6, <1>p DEF SchemaInv
    <3>2. pc'[c] = "migrate" => c \in InFlight'
      BY <1>6, <1>p DEF InFlight
    <3> QED
      BY <3>1, <3>2, <2>2 DEF Alone
  <2> QED
    BY <2>1, <2>2
<1> QED
  BY <1>1, <1>2, <1>3, <1>4, <1>5, <1>6 DEF SchemaInv

LEMMA UpgradeFails ==
  ASSUME TypeOK, SchemaInv, NEW c \in Containers, MigrateFails(c)
  PROVE  visited \/ c \in disturbed
<1> SUFFICES ASSUME ~visited, c \notin disturbed PROVE FALSE
  OBVIOUS
<1>1. /\ pc[c] = "migrate"
      /\ version # seen[c].version \/ schema # seen[c].schema \/ ~Upgradable(schema, version)
  BY DEF MigrateFails
<1>2. seen[c].schema = schema /\ seen[c].version = version
  BY <1>1 DEF SchemaInv, Alone
<1>3. schema = Migrated(version) \/ version = Newest
  BY DEF SchemaInv, OnTheWay
<1>4. version \in 0..Newest
  BY DEF TypeOK
<1>5. version = Newest => Upgradable(schema, version)
  <2>1. version = Newest => (version + 1)..Newest = {}
    BY <1>4, Fourteen
  <2> QED
    BY <2>1 DEF Upgradable
<1>6. schema = Migrated(version) => Upgradable(schema, version)
  BY <1>4, UpgradesRun
<1> QED
  BY <1>1, <1>2, <1>3, <1>5, <1>6

LEMMA SchemaHolds ==
  ASSUME TypeOK, TypeOK', SchemaInv, [Next]_vars
  PROVE  SchemaInv'
<1> USE DEF database, locals, history
<1>p. /\ Containers \subseteq Processes /\ Workers \subseteq Processes /\ Seeds \subseteq Processes
      /\ Seeders \subseteq Processes /\ Containers \cap Seeders = {} /\ Workers \subseteq Seeders
      /\ Seeds \subseteq Seeders
  BY ProcessesApart
<1>s. /\ {"migrate", "create", "skipped", "serving", "done", "failed", "crashed", "new"} \subseteq Step
      /\ Seeding \subseteq Step
      /\ Seeding \cap {"new", "serving", "done", "skipped", "failed", "crashed", "create", "migrate"} = {}
  BY StepsKnown DEF Seeding
<1>1. ASSUME NEW p \in Processes, NEW step \in Step \ {"new", "serving", "failed"}, Begin(p, step),
             \A q \in Processes \ {p} : seen'[q] = seen[q],
             p \in Workers => SeenThere(p)', p \in Containers => Alone(p)',
             UNCHANGED <<schema, version, visited>>
      PROVE  SchemaInv'
  <2>1. /\ pc[p] = "new" /\ pc'[p] = step /\ \A q \in Processes \ {p} : pc'[q] = pc[q]
        /\ InFlight # {} => \A c \in InFlight \cap Containers : c \in disturbed'
        /\ \A c \in disturbed : c = p \/ c \in disturbed'
    BY <1>1, Begins
  <2>2. \A c \in Containers \ {p} : pc[c] = "migrate" => c \in disturbed'
    BY <2>1, <1>p DEF InFlight
  <2>3. \A q \in Processes \ {p} : pc'[q] = pc[q] /\ seen'[q] = seen[q]
    BY <2>1, <1>1
  <2> QED
    BY <2>1, <2>2, <2>3, <1>1, SchemaKept
<1>2. ASSUME NEW c \in Containers, MigrateRead(c) PROVE SchemaInv'
  <2>1. Begin(c, "migrate") /\ Look(c) /\ UNCHANGED <<database, missing, inserted, visited, guarded>>
    BY <1>2 DEF MigrateRead
  <2>2. "migrate" \in Step \ {"new", "serving", "failed"} /\ c \in Processes /\ c \notin Workers
    BY <1>s, <1>p
  <2>3. /\ seen'[c].schema = schema /\ seen'[c].version = version
        /\ \A q \in Processes \ {c} : seen'[q] = seen[q]
    BY <2>1, <2>2, Looks
  <2>4. Alone(c)'
    <3>1. /\ InFlight' \subseteq InFlight \cup {c} /\ pc'[c] = "migrate"
          /\ InFlight # {} => c \in disturbed'
      BY <2>1, <2>2, <1>p, Begins
    <3>2. c \in InFlight'
      BY <3>1, <2>2 DEF InFlight
    <3> QED
      BY <3>1, <3>2, <2>1, <2>3 DEF Alone
  <2> QED
    BY <2>1, <2>2, <2>3, <2>4, <1>1
<1>3. ASSUME NEW w \in Workers, CreateRead(w) PROVE SchemaInv'
  <2>1. /\ Begin(w, "create") /\ Look(w) /\ UNCHANGED <<database, missing, inserted, visited, guarded>>
        /\ Home[w] # None => pc[Home[w]] = "serving"
    BY <1>3 DEF CreateRead
  <2>2. "create" \in Step \ {"new", "serving", "failed"} /\ w \in Processes /\ w \notin Containers
    BY <1>s, <1>p
  <2>3. /\ seen'[w].schema = schema /\ \A q \in Processes \ {w} : seen'[q] = seen[q]
    BY <2>1, <2>2, Looks
  <2>4. SeenThere(w)'
    <3>1. \A q \in Processes \ {w} : pc'[q] = pc[q]
      BY <2>1, <2>2, Begins
    <3>2. Home[w] # None => Home[w] \in Processes \ {w}
      BY <1>3, <2>2, <1>p, ProcessesApart
    <3>3. WellMade(schema)
      BY DEF SchemaInv
    <3> QED
      BY <3>1, <3>2, <3>3, <2>1, <2>3 DEF SeenThere
  <2> QED
    BY <2>1, <2>2, <2>3, <2>4, <1>1
<1>4. ASSUME NEW m \in Seeds, ManualSeed(m) PROVE SchemaInv'
  <2>1. Begin(m, IF copies[Admin] > 0 THEN "skipped" ELSE Kinds[1])
        /\ UNCHANGED <<database, locals, visited, guarded>>
    BY <1>4 DEF ManualSeed
  <2> DEFINE step == IF copies[Admin] > 0 THEN "skipped" ELSE Kinds[1]
  <2>2. /\ step \in Step \ {"new", "serving", "failed"} /\ step # "create" /\ step # "migrate"
        /\ m \in Processes /\ m \notin Containers
    BY <1>s, <1>p, Lists DEF Seeding
  <2> HIDE DEF step
  <2>3. SeenThere(m)'
    <3>1. pc'[m] = step
      BY <2>1, <2>2, Begins DEF step
    <3> QED
      BY <3>1, <2>2 DEF SeenThere
  <2>4. Begin(m, step) /\ UNCHANGED <<schema, version, visited>> /\ \A q \in Processes \ {m} : seen'[q] = seen[q]
    BY <2>1 DEF step
  <2> QED
    BY <2>4, <2>2, <2>3, <1>1
<1>5. ASSUME NEW p, NEW how, Falls(p, how), MigrateFails(p) \/ p \notin Containers \/ how = "crashed" PROVE SchemaInv'
  <2>1. p \in InFlight /\ how \in {"serving", "done", "failed", "crashed"} /\ End(p, how)
        /\ UNCHANGED <<database, visited, begun, disturbed>> /\ how \in {"failed", "crashed"}
    BY <1>5 DEF Falls
  <2>2. /\ pc'[p] = how /\ \A q \in Processes \ {p} : pc'[q] = pc[q] /\ seen'[q] = seen[q]
        /\ InFlight' = InFlight \ {p}
    BY <2>1, EndsSo
  <2>3. p \in Processes /\ pc[p] # "serving" /\ pc'[p] # "serving"
    BY <2>1, <2>2 DEF InFlight
  <2>4. SeenThere(p)' /\ Alone(p)'
    BY <2>1, <2>2 DEF SeenThere, Alone
  <2>5. p \in Containers /\ pc'[p] = "failed" => visited \/ p \in disturbed'
    BY <2>1, <2>2, <1>5, UpgradeFails
  <2> QED
    BY <2>1, <2>2, <2>3, <2>4, <2>5, SchemaKept
<1>6. ASSUME NEW c \in Containers, Restart(c) PROVE SchemaInv'
  <2>1. Goto(c, "new") /\ UNCHANGED <<database, locals, visited, history>> /\ pc[c] \in {"failed", "crashed"}
    BY <1>6 DEF Restart
  <2>2. pc'[c] = "new" /\ InFlight' = InFlight \ {c} /\ \A q \in Processes \ {c} : pc'[q] = pc[q]
    BY <2>1, <1>s, <1>p, Goes
  <2>3. SeenThere(c)' /\ Alone(c)' /\ c \in Processes /\ pc[c] # "serving"
    BY <2>1, <2>2, <1>p DEF SeenThere, Alone
  <2> QED
    BY <2>1, <2>2, <2>3, SchemaKept
<1>7. ASSUME NEW w \in Seeders, NEW step \in Seeding, pc[w] \in Seeding, Goto(w, step),
             UNCHANGED <<schema, version, seen, visited, disturbed>>
      PROVE  SchemaInv'
  <2>1. /\ pc'[w] = step /\ \A q \in Processes \ {w} : pc'[q] = pc[q] /\ seen'[q] = seen[q]
        /\ InFlight' = InFlight \cup {w}
    BY <1>7, <1>s, <1>p, Goes
  <2>2. SeenThere(w)' /\ Alone(w)' /\ w \in Processes /\ pc[w] # "serving" /\ pc'[w] # "serving" /\ w \notin Containers
    BY <2>1, <1>7, <1>s, <1>p DEF SeenThere, Alone
  <2>3. w \in InFlight
    BY <1>7, <2>2, <1>s DEF InFlight
  <2> QED
    BY <2>1, <2>2, <2>3, <1>7, SchemaKept
<1>8. ASSUME NEW w \in Seeders, NEW i \in 1..Len(Kinds), Find(w, i) \/ Insert(w, i) PROVE SchemaInv'
  <2>1. pc[w] = Kinds[i] \/ pc[w] = Inserting[i]
    BY <1>8 DEF Find, Insert
  <2>2. (Goto(w, Inserting[i]) \/ Goto(w, After(i))) /\ UNCHANGED <<schema, version, seen, visited, disturbed>>
    BY <1>8 DEF Find, Insert, After
  <2> QED
    BY <2>1, <2>2, <1>7, KindsTold
<1>9. ASSUME NEW w \in Seeders, SeedCommit(w) PROVE SchemaInv'
  <2>1. /\ End(w, "done") /\ UNCHANGED <<schema, version, visited, begun, disturbed>> /\ w \in InFlight
    BY <1>9, <1>p DEF SeedCommit, InFlight
  <2>2. /\ pc'[w] = "done" /\ \A q \in Processes \ {w} : pc'[q] = pc[q] /\ seen'[q] = seen[q]
        /\ InFlight' = InFlight \ {w}
    BY <2>1, EndsSo
  <2>3. /\ SeenThere(w)' /\ Alone(w)' /\ w \in Processes /\ pc[w] # "serving" /\ pc'[w] # "serving"
        /\ w \notin Containers
    BY <2>1, <2>2, <1>p DEF SeenThere, Alone, InFlight
  <2> QED
    BY <2>1, <2>2, <2>3, SchemaKept
<1>10. ASSUME NEW c \in Containers, MigrateCommit(c) PROVE SchemaInv'
  <2>1. /\ schema' = Upgraded(schema, version, Newest) /\ version' = Newest /\ End(c, "serving")
        /\ UNCHANGED <<copies, visited, begun, disturbed>> /\ c \in InFlight /\ pc[c] = "migrate"
    BY <1>10, <1>p DEF MigrateCommit, InFlight
  <2>2. schema \subseteq schema' /\ WellMade(schema') /\ Migrated(Newest) \subseteq schema' /\ ~ByHand(schema')
    BY <1>10, UpgradeCommits
  <2>3. /\ pc'[c] = "serving" /\ \A q \in Processes \ {c} : pc'[q] = pc[q] /\ seen'[q] = seen[q]
        /\ InFlight' = InFlight \ {c}
    BY <2>1, EndsSo
  <2>4. Consistent' /\ WellMade(schema)' /\ OnTheWay'
    BY <2>1, <2>2 DEF Consistent, OnTheWay
  <2>5. OnlyVisitorsBlockUpgrades'
    BY <2>1, <2>3, <1>p DEF SchemaInv, OnlyVisitorsBlockUpgrades
  <2>6. ASSUME NEW w \in Workers PROVE SeenThere(w)'
    <3>1. w # c /\ pc'[w] = pc[w] /\ seen'[w] = seen[w] /\ SeenThere(w)
      BY <2>3, <2>6, <1>p DEF SchemaInv
    <3>2. Home[w] # None => (pc[Home[w]] = "serving" => pc'[Home[w]] = "serving")
      BY <2>3, <2>6, <1>p, ProcessesApart
    <3> QED
      BY <3>1, <3>2, <2>2 DEF SeenThere
  <2>7. ASSUME NEW d \in Containers PROVE Alone(d)'
    <3>1. CASE d = c
      BY <3>1, <2>3 DEF Alone
    <3>2. CASE d # c
      <4>1. pc'[d] = pc[d] /\ Alone(d)
        BY <3>2, <2>3, <2>7, <1>p DEF SchemaInv
      <4> QED
        BY <4>1, <3>2, <2>1 DEF Alone
    <3> QED
      BY <3>1, <3>2
  <2> QED
    BY <2>4, <2>5, <2>6, <2>7 DEF SchemaInv
<1>11. ASSUME NEW w \in Workers, CreateCommit(w) PROVE SchemaInv'
  <2> DEFINE absent == Absent(seen[w].schema)
  <2>1. /\ schema' = schema \cup {x \in Modelled : x[1] \in absent} /\ absent \cap Existing(schema) = {}
        /\ visited' = (visited \/ (Home[w] = None /\ absent # {})) /\ Goto(w, Kinds[1])
        /\ seen' = [seen EXCEPT ![w] = [schema |-> {}, version |-> 0]]
        /\ UNCHANGED <<version, copies, missing, inserted, history>> /\ pc[w] = "create"
    BY <1>11 DEF CreateCommit
  <2>2. w \in Processes /\ w \notin Containers /\ w \in InFlight /\ Kinds[1] \in Seeding
    BY <1>11, <2>1, <1>p, Lists DEF InFlight, Seeding
  <2>3. /\ pc'[w] = Kinds[1] /\ InFlight' = InFlight \cup {w}
        /\ \A q \in Processes \ {w} : pc'[q] = pc[q] /\ seen'[q] = seen[q]
    BY <2>1, <2>2, <1>s, Goes DEF TypeOK
  <2>4. /\ seen[w].schema \subseteq schema /\ WellMade(seen[w].schema)
        /\ ByHand(schema) => ByHand(seen[w].schema)
        /\ Home[w] # None => pc[Home[w]] = "serving"
    BY <2>1, <1>11 DEF SchemaInv, SeenThere
  <2>5. ByHand(schema') <=> ByHand(schema)
    BY <2>1, NothingByHand DEF ByHand
  <2>6. ~ByHand(schema) => ~ByHand(seen[w].schema)
    BY <2>4 DEF ByHand
  <2>7. WellMade(schema')
    <3>1. ASSUME ~ByHand(schema'), NEW x \in schema' PROVE <<x[1], "base">> \in schema'
      <4>1. CASE x \in schema
        BY <4>1, <3>1, <2>1, <2>5 DEF SchemaInv, WellMade
      <4>2. CASE x \in Modelled /\ x[1] \in absent
        <5>1. <<x[1], "base">> \in Modelled
          BY <4>2, ModelWell DEF WellMade
        <5> QED
          BY <4>2, <5>1, <2>1
      <4> QED
        BY <4>1, <4>2, <3>1, <2>1
    <3>2. schema' # {} => <<"design_templates", "base">> \in schema'
      <4>1. CASE schema # {}
        BY <4>1, <2>1 DEF SchemaInv, WellMade
      <4>2. CASE schema = {}
        <5>1. "design_templates" \in absent
          BY <4>2, <2>4 DEF Absent, Existing, Tables
        <5>2. <<"design_templates", "base">> \in Modelled
          BY DEF Modelled, Tables
        <5> QED
          BY <5>1, <5>2, <2>1
      <4> QED
        BY <4>1, <4>2
    <3>3. Ahead \in schema' /\ ~ByHand(schema') => Modelled \subseteq schema'
      <4>1. CASE Ahead \in schema
        BY <4>1, <2>1, <2>5 DEF SchemaInv, WellMade
      <4>2. CASE "design_templates" \in absent
        <5>1. seen[w].schema = {}
          BY <4>2, <2>4 DEF WellMade, Absent, Existing
        <5>2. absent = Tables
          BY <5>1 DEF Absent, Existing
        <5>3. \A x \in Modelled : x[1] \in Tables
          BY ModelWell
        <5> QED
          BY <5>2, <5>3, <2>1
      <4> QED
        BY <4>1, <4>2, <2>1 DEF Ahead
    <3> QED
      BY <3>1, <3>2, <3>3 DEF WellMade
  <2> HIDE DEF absent
  <2>8. OnTheWay'
    <3> SUFFICES ASSUME ~visited' PROVE /\ schema' = Migrated(version') \/ version' = Newest
                                        /\ (\E c \in Containers : pc'[c] = "serving") => version' = Newest
      BY DEF OnTheWay
    <3>1. ~visited /\ version' = version
      BY <2>1
    <3>2. \A c \in Containers : pc'[c] = pc[c]
      BY <2>2, <2>3, <1>p
    <3>3. CASE Home[w] # None
      <4>1. Home[w] \in Containers
        BY <3>3, <1>11, ProcessesApart
      <4> QED
        BY <4>1, <3>1, <3>2, <3>3, <2>4 DEF SchemaInv, OnTheWay
    <3>4. CASE absent = {}
      <4>1. schema' = schema
        BY <3>4, <2>1
      <4> QED
        BY <4>1, <3>1, <3>2 DEF SchemaInv, OnTheWay
    <3> QED
      BY <3>3, <3>4, <2>1
  <2>9. Consistent'
    BY <2>1, <2>5 DEF SchemaInv, Consistent
  <2>10. OnlyVisitorsBlockUpgrades'
    BY <2>1, <2>2, <2>3, <1>p DEF SchemaInv, OnlyVisitorsBlockUpgrades
  <2>11. ASSUME NEW v \in Workers PROVE SeenThere(v)'
    <3>1. CASE v = w
      BY <3>1, <2>2, <2>3, <1>s DEF SeenThere
    <3>2. CASE v # w
      <4>1. pc'[v] = pc[v] /\ seen'[v] = seen[v] /\ SeenThere(v)
        BY <3>2, <2>3, <2>11, <1>p DEF SchemaInv
      <4>2. Home[v] # None => pc[Home[v]] = pc'[Home[v]]
        BY <2>2, <2>3, <2>11, <1>p, ProcessesApart
      <4> QED
        BY <4>1, <4>2, <2>1, <2>5 DEF SeenThere
    <3> QED
      BY <3>1, <3>2
  <2>12. ASSUME NEW c \in Containers PROVE Alone(c)'
    <3>1. c # w /\ pc'[c] = pc[c] /\ Alone(c)
      BY <2>2, <2>3, <2>12, <1>p DEF SchemaInv
    <3> QED
      BY <3>1, <2>1, <2>2 DEF Alone
  <2> QED
    BY <2>7, <2>8, <2>9, <2>10, <2>11, <2>12 DEF SchemaInv
<1>12. ASSUME CleanReset \/ SyncPerfectSchema \/ DirectSqlSeed \/ ScriptStopped PROVE SchemaInv'
  <2>1. /\ InFlight = {} /\ WellMade(schema')
        /\ ByHand(schema') => version' = SharesVersion /\ HandMade \subseteq schema'
        /\ ~ByHand(schema') => Migrated(version') \subseteq schema'
        /\ visited' = TRUE /\ UNCHANGED <<pc, locals, disturbed>>
    BY <1>12, Rebuilds
  <2>2. \A q \in Processes : pc'[q] # "create" /\ pc'[q] # "migrate"
    BY <2>1 DEF InFlight
  <2> QED
    BY <2>1, <2>2, <1>p DEF SchemaInv, Consistent, OnlyVisitorsBlockUpgrades, OnTheWay, SeenThere, Alone
<1>13. CASE UNCHANGED vars
  <2>1. /\ Consistent' /\ OnlyVisitorsBlockUpgrades' /\ WellMade(schema)' /\ OnTheWay'
    BY <1>13 DEF vars, SchemaInv, Consistent, OnlyVisitorsBlockUpgrades, OnTheWay
  <2>2. \A w \in Workers : SeenThere(w)'
    BY <1>13 DEF vars, SchemaInv, SeenThere
  <2>3. \A c \in Containers : Alone(c)'
    BY <1>13 DEF vars, SchemaInv, Alone, InFlight
  <2> QED
    BY <2>1, <2>2, <2>3 DEF SchemaInv
<1>14. \A p : /\ MigrateFails(p) => SchemaInv'
              /\ CreateFails(p) => SchemaInv'
              /\ \A i \in 1..Len(Kinds) : FindFails(p, i) \/ InsertFails(p, i) => SchemaInv'
              /\ Crash(p) => SchemaInv'
  BY <1>5, <1>p, Failures
<1> QED
  BY <1>2, <1>3, <1>4, <1>6, <1>8, <1>9, <1>10, <1>11, <1>12, <1>13, <1>14 DEF Next

(***************************************************************************)
(* The rows.                                                               *)
(***************************************************************************)
\* Who has a row in hand is at its rows.
LEMMA AtWork ==
  ASSUME NEW q \in Seeders, WorkKept(q)
  PROVE  /\ pc[q] \notin Seeding => inserted[q] = {} /\ missing[q] = {} /\ InHand(q) = {}
         /\ pc[q] \in Seeding => q \in InFlight
         /\ \A x \in InHand(q) : q \in InFlight /\ pc[q] # "done"
                                 /\ (x \notin Permissions => Permissions \subseteq Behind(pc[q]))
<1>1. /\ inserted[q] \subseteq Behind(pc[q]) /\ missing[q] \subseteq Before(pc[q])
  BY DEF WorkKept
<1>2. pc[q] \in Seeding => q \in InFlight /\ pc[q] # "done"
  BY ProcessesApart DEF Seeding, InFlight
<1> QED
  BY <1>1, <1>2, StepsApart DEF InHand

\* A step of one process that commits nothing.
LEMMA RowsKept ==
  ASSUME TypeOK, TypeOK', RowsInv, UNCHANGED copies,
         NEW p \in Processes, pc[p] # "done",
         \A q \in Seeders \ {p} : /\ pc'[q] = pc[q] /\ missing'[q] = missing[q] /\ inserted'[q] = inserted[q]
                                  /\ q \in guarded' <=> q \in guarded
                                  /\ q \in begun' <=> q \in begun,
         InFlight' \subseteq InFlight \cup {p},
         \A u, v \in Seeders \ {p} : {u, v} \in overlapped => {u, v} \in overlapped',
         p \in Seeders =>
           /\ p \in InFlight' => \A q \in (InFlight \cap Seeders) \ {p} : {p, q} \in overlapped'
           /\ WorkKept(p)'
           /\ \A q \in Seeders \ {p} : inserted'[p] \cap inserted[q] \cap Unique = {},
         LeftToAnother'
  PROVE  RowsInv'
<1>1. \A u \in Seeders : pc[u] = "done" => u # p /\ pc'[u] = "done"
  OBVIOUS
<1>2. CopiesFromOverlap'
  <2> SUFFICES ASSUME NEW x \in Rows, copies[x] > 1
               PROVE  /\ x \notin Unique
                      /\ \E u, w \in Seeders \ guarded' :
                           u # w /\ pc'[u] = "done" /\ pc'[w] = "done" /\ {u, w} \in overlapped'
    BY DEF CopiesFromOverlap, Unique
  <2>1. x \notin Unique
    BY DEF RowsInv, CopiesFromOverlap
  <2>2. PICK u \in Seeders \ guarded, w \in Seeders \ guarded :
          u # w /\ pc[u] = "done" /\ pc[w] = "done" /\ {u, w} \in overlapped
    BY DEF RowsInv, CopiesFromOverlap
  <2>3. u \in Seeders \ guarded' /\ w \in Seeders \ guarded' /\ {u, w} \in overlapped'
    BY <2>2, <1>1
  <2> QED
    BY <2>1, <2>2, <2>3, <1>1
<1>3. SeedersKnown'
  <2> SUFFICES ASSUME NEW u \in InFlight' \cap Seeders, NEW w \in InFlight' \cap Seeders, u # w
               PROVE  {u, w} \in overlapped'
    BY DEF SeedersKnown
  <2>1. CASE u # p /\ w # p
    <3>1. {u, w} \in overlapped
      BY <2>1 DEF RowsInv, SeedersKnown
    <3> QED
      BY <3>1, <2>1
  <2>2. CASE u = p
    BY <2>2
  <2>3. CASE w = p
    <3>1. {w, u} \in overlapped'
      BY <2>3
    <3>2. {w, u} = {u, w}
      OBVIOUS
    <3> QED
      BY <3>1, <3>2
  <2> QED
    BY <2>1, <2>2, <2>3
<1>4. HeldApart'
  <2> SUFFICES ASSUME NEW u \in Seeders, NEW w \in Seeders, u # w
               PROVE  inserted'[u] \cap inserted'[w] \cap Unique = {}
    BY DEF HeldApart, Unique
  <2>1. CASE u # p /\ w # p
    BY <2>1 DEF RowsInv, HeldApart
  <2>2. CASE u = p \/ w = p
    BY <2>2
  <2> QED
    BY <2>1, <2>2
<1>5. AdminFirst'
  BY DEF RowsInv, AdminFirst
<1>6. ASSUME NEW q \in Seeders PROVE WorkKept(q)'
  <2>1. CASE q = p
    BY <2>1, <1>6
  <2>2. CASE q # p
    <3>1. /\ pc'[q] = pc[q] /\ missing'[q] = missing[q] /\ inserted'[q] = inserted[q]
          /\ q \in guarded' <=> q \in guarded
          /\ q \in begun' <=> q \in begun
          /\ InHand(q)' = InHand(q) /\ WorkKept(q) /\ Seeded' = Seeded
          /\ q \in InFlight' => q \in InFlight
      BY <2>2, <1>6 DEF RowsInv, InHand, Seeded
    <3>2. ASSUME NEW x \in InHand(q) \ Unique, copies[x] > 0
          PROVE  \E u \in Seeders \ guarded' : u # q /\ pc'[u] = "done" /\ {u, q} \in overlapped'
      <4>1. PICK u \in Seeders \ guarded : u # q /\ pc[u] = "done" /\ {u, q} \in overlapped
        BY <3>1, <3>2 DEF WorkKept
      <4> QED
        BY <4>1, <2>2, <1>1, <1>6
    <3>3. /\ inserted[q] \subseteq Behind(pc[q]) /\ missing[q] \subseteq Before(pc[q])
          /\ \A x \in Behind(pc[q]) : x \in inserted[q] \/ copies[x] > 0
          /\ \A x \in Before(pc[q]) : x \in missing[q] \/ copies[x] > 0
          /\ \A x \in inserted[q] \cap Unique : copies[x] = 0
          /\ \A x \in InHand(q) : copies[x] > 0 => Seeded
          /\ q \in guarded /\ pc[q] # "done" => InHand(q) \cap Unique # {}
          /\ q \in InFlight => q \in begun
          /\ q \in begun /\ pc[q] = "done" => Seeded
      BY <3>1 DEF WorkKept
    <3>4. Behind(pc[q])' = Behind(pc[q]) /\ Before(pc[q])' = Before(pc[q]) /\ Unique' = Unique
      BY <3>1 DEF Behind, Before, Unique
    <3> QED
      BY <3>1, <3>2, <3>3, <3>4 DEF WorkKept
  <2> QED
    BY <2>1, <2>2
<1> QED
  BY <1>2, <1>3, <1>4, <1>5, <1>6 DEF RowsInv

\* Who is at its rows has begun, and keeps the database attended.
LEMMA Attends ==
  ASSUME NEW q \in Seeders, WorkKept(q), pc[q] \in Seeding \/ (q \in InFlight /\ pc'[q] = "crashed"),
         pc'[q] \in Seeding \cup {"crashed"}, q \in begun => q \in begun'
  PROVE  Attended'
<1>1. q \in begun'
  BY AtWork DEF WorkKept
<1> QED
  BY <1>1 DEF Attended

\* A seeder begins, having looked at the schema or found it with rows.
LEMMA RowsAtBegin ==
  ASSUME TypeOK, TypeOK', SchemaInv, RowsInv, UNCHANGED <<schema, copies, missing, inserted, guarded>>,
         NEW p \in Seeders, NEW step \in {"create", "permissions", "skipped"}, Begin(p, step),
         \A q \in Seeders \ {p} : seen'[q] = seen[q], step = "create" => seen'[p].schema = schema
  PROVE  RowsInv'
<1>p. p \in Processes /\ step \in Step \ {"new"} /\ Seeders \subseteq Processes /\ Workers \subseteq Seeders
  BY ProcessesApart, StepsKnown DEF Seeding
<1>1. /\ pc[p] = "new" /\ pc'[p] = step /\ \A q \in Processes \ {p} : pc'[q] = pc[q]
      /\ InFlight' \subseteq InFlight \cup {p}
      /\ begun' = begun \cup ({p} \cap Seeders)
      /\ overlapped \subseteq overlapped' /\ \A q \in InFlight : {p, q} \subseteq Seeders => {p, q} \in overlapped'
  BY <1>p, Begins
<1>2. /\ WorkKept(p) /\ pc[p] \notin Seeding
  BY <1>1 DEF RowsInv, Seeding
<1>3. inserted[p] = {} /\ missing[p] = {} /\ InHand(p) = {} /\ p \notin guarded
  BY <1>1, <1>2, AtWork DEF WorkKept
<1>4. Behind(step) = {} /\ Before(step) = {}
  BY StepsApart DEF Seeding
<1>5. WorkKept(p)'
  <2>1. InHand(p)' = {} /\ Behind(pc[p])' = {} /\ Before(pc[p])' = {}
    BY <1>1, <1>3, <1>4 DEF InHand, Behind, Before
  <2>2. inserted'[p] = {} /\ missing'[p] = {} /\ p \notin guarded' /\ pc'[p] # "done" /\ p \in begun'
    BY <1>1, <1>3
  <2> QED
    BY <2>1, <2>2 DEF WorkKept
<1>6. Attended => Attended'
  <2>1. CASE Seeded
    BY <2>1 DEF Attended, Seeded
  <2>2. ASSUME NEW q \in begun, pc[q] \in Seeding \cup {"crashed"} PROVE Attended'
    <3>1. q # p /\ q \in Processes
      BY <2>2, <1>1, <1>2, <1>p DEF TypeOK
    <3> QED
      BY <3>1, <2>2, <1>1 DEF Attended
  <2> QED
    BY <2>1, <2>2 DEF Attended
<1>7. LeftToAnother'
  <2> SUFFICES ASSUME Ahead \in schema
               PROVE  /\ \A w \in Workers : pc'[w] = "create" /\ Absent(seen'[w].schema) \cap Existing(schema') # {} => Attended'
                      /\ \A w \in begun' : pc'[w] \in {"done", "failed"} => Attended'
    BY DEF LeftToAnother, Absent, Existing, Tables, Ahead
  <2>1. pc'[p] = "create" => Absent(seen'[p].schema) \cap Existing(schema) = {}
    <3>1. pc'[p] = "create" => seen'[p].schema = schema
      BY <1>1
    <3>2. Absent(schema) \cap Existing(schema) = {}
      BY DEF Absent
    <3> QED
      BY <3>1, <3>2
  <2>2. ASSUME NEW w \in Workers \ {p}, pc'[w] = "create", Absent(seen'[w].schema) \cap Existing(schema) # {}
        PROVE  Attended'
    <3>1. pc[w] = "create" /\ Absent(seen[w].schema) \cap Existing(schema) # {}
      BY <2>2, <1>1, <1>p
    <3> QED
      BY <3>1, <2>2, <1>6 DEF RowsInv, LeftToAnother
  <2>3. ASSUME NEW w \in begun', pc'[w] \in {"done", "failed"} PROVE Attended'
    <3>1. w \in begun /\ pc[w] \in {"done", "failed"}
      BY <2>3, <1>1, <1>p DEF TypeOK
    <3> QED
      BY <3>1, <1>6 DEF RowsInv, LeftToAnother
  <2> QED
    BY <2>1, <2>2, <2>3
<1>8. \A q \in Seeders \ {p} : /\ pc'[q] = pc[q] /\ missing'[q] = missing[q] /\ inserted'[q] = inserted[q]
                               /\ q \in guarded' <=> q \in guarded
                               /\ q \in begun' <=> q \in begun
  BY <1>1, <1>p
<1>9. \A q \in Seeders \ {p} : inserted'[p] \cap inserted[q] \cap Unique = {}
  BY <1>3
<1>10. /\ p \in InFlight' => \A q \in (InFlight \cap Seeders) \ {p} : {p, q} \in overlapped'
       /\ \A u, v \in Seeders \ {p} : {u, v} \in overlapped => {u, v} \in overlapped'
  BY <1>1
<1>11. pc[p] # "done" /\ UNCHANGED copies
  BY <1>1
<1> QED
  BY <1>p, <1>1, <1>5, <1>7, <1>8, <1>9, <1>10, <1>11, RowsKept

\* A seeder ends without its rows.
LEMMA RowsAtFall ==
  ASSUME TypeOK, TypeOK', RowsInv, NEW p \in Seeders, NEW how, Falls(p, how),
         how = "failed" /\ Ahead \in schema =>
           Seeded \/ \E q \in begun \ {p} : pc[q] \in Seeding \cup {"crashed"}
  PROVE  RowsInv'
<1>p. p \in Processes /\ Seeders \subseteq Processes /\ Workers \subseteq Seeders
  BY ProcessesApart
<1>1. p \in InFlight /\ how \in {"serving", "done", "failed", "crashed"} /\ End(p, how) /\ how \in {"failed", "crashed"}
      /\ UNCHANGED <<schema, version, copies, visited, begun, disturbed>>
  BY DEF Falls, database
<1>2. /\ pc'[p] = how /\ \A q \in Processes \ {p} : pc'[q] = pc[q] /\ seen'[q] = seen[q]
      /\ InFlight' = InFlight \ {p}
      /\ \A q \in Seeders : q # p => missing'[q] = missing[q] /\ inserted'[q] = inserted[q]
      /\ missing'[p] = {} /\ inserted'[p] = {}
      /\ guarded' = guarded \ {p} /\ overlapped' = {o \in overlapped : p \notin o}
  BY <1>1, EndsSo
<1>3. pc[p] # "done"
  BY <1>1 DEF InFlight
<1>4. WorkKept(p)'
  <2>1. Behind(how) = {} /\ Before(how) = {}
    BY <1>1, StepsApart DEF Seeding
  <2>2. InHand(p)' = {} /\ Behind(pc[p])' = {} /\ Before(pc[p])' = {} /\ p \notin InFlight'
    BY <1>2, <2>1 DEF InHand, Behind, Before
  <2>3. p \notin guarded' /\ pc'[p] # "done"
    BY <1>1, <1>2
  <2> QED
    BY <1>2, <2>2, <2>3 DEF WorkKept
<1>5. Ahead \in schema => Attended'
  <2>1. CASE how = "crashed"
    <3>1. WorkKept(p)
      BY DEF RowsInv
    <3>2. pc'[p] = "crashed" /\ (p \in begun => p \in begun')
      BY <2>1, <1>1, <1>2
    <3> QED
      BY <3>1, <3>2, <1>1, Attends
  <2>2. CASE how = "failed" /\ Seeded
    BY <2>2, <1>1 DEF Attended, Seeded
  <2>3. ASSUME NEW q \in begun \ {p}, pc[q] \in Seeding \cup {"crashed"} PROVE Attended'
    BY <2>3, <1>1, <1>2, <1>p DEF Attended, TypeOK
  <2> QED
    BY <2>1, <2>2, <2>3, <1>1
<1>6. LeftToAnother'
  BY <1>1, <1>5 DEF LeftToAnother, Ahead
<1>7. \A q \in Seeders \ {p} : /\ pc'[q] = pc[q] /\ missing'[q] = missing[q] /\ inserted'[q] = inserted[q]
                               /\ q \in guarded' <=> q \in guarded
                               /\ q \in begun' <=> q \in begun
  BY <1>1, <1>2, <1>p
<1>8. /\ InFlight' \subseteq InFlight \cup {p} /\ p \notin InFlight' /\ UNCHANGED copies
      /\ \A u, v \in Seeders \ {p} : {u, v} \in overlapped => {u, v} \in overlapped'
      /\ \A q \in Seeders \ {p} : inserted'[p] \cap inserted[q] \cap Unique = {}
  BY <1>1, <1>2
<1> QED
  BY <1>p, <1>3, <1>4, <1>6, <1>7, <1>8, RowsKept

\* A step of a container.
LEMMA RowsBesideContainer ==
  ASSUME TypeOK, TypeOK', RowsInv, UNCHANGED <<copies, missing, inserted, guarded, begun, overlapped>>,
         NEW c \in Containers, Ahead \in schema' => Ahead \in schema /\ Existing(schema') = Existing(schema), pc[c] # "done",
         \A q \in Processes \ {c} : pc'[q] = pc[q] /\ seen'[q] = seen[q]
  PROVE  RowsInv'
<1>p. c \in Processes /\ c \notin Seeders /\ Seeders \subseteq Processes /\ Workers \subseteq Seeders
  BY ProcessesApart
<1>1. begun \subseteq Seeders
  BY DEF TypeOK
<1>2. Attended => Attended'
  BY <1>1, <1>p DEF Attended, Seeded
<1>3. LeftToAnother'
  <2> SUFFICES ASSUME Ahead \in schema'
               PROVE  /\ \A w \in Workers : pc'[w] = "create" /\ Absent(seen'[w].schema) \cap Existing(schema') # {} => Attended'
                      /\ \A w \in begun : pc'[w] \in {"done", "failed"} => Attended'
    BY DEF LeftToAnother, Absent, Existing, Tables, Ahead
  <2>1. \A w \in Seeders : pc'[w] = pc[w] /\ seen'[w] = seen[w]
    BY <1>p
  <2> QED
    BY <2>1, <1>1, <1>2, <1>p DEF RowsInv, LeftToAnother
<1>4. InFlight' \subseteq InFlight \cup {c}
  BY DEF InFlight
<1>5. \A q \in Seeders \ {c} : /\ pc'[q] = pc[q] /\ missing'[q] = missing[q] /\ inserted'[q] = inserted[q]
                               /\ q \in guarded' <=> q \in guarded
                               /\ q \in begun' <=> q \in begun
  BY <1>p
<1>6. UNCHANGED copies /\ \A u, v \in Seeders \ {c} : {u, v} \in overlapped => {u, v} \in overlapped'
  OBVIOUS
<1> QED
  BY <1>p, <1>3, <1>4, <1>5, <1>6, RowsKept

\* The tables are made, or rows are found or inserted.
LEMMA RowsAtWork ==
  ASSUME TypeOK, TypeOK', RowsInv, UNCHANGED <<copies, begun, overlapped>>,
         NEW p \in Seeders, pc[p] # "done", p \in InFlight, pc'[p] \in Seeding,
         \A q \in Processes \ {p} : pc'[q] = pc[q],
         \A q \in Seeders \ {p} : missing'[q] = missing[q] /\ inserted'[q] = inserted[q] /\ (q \in guarded' <=> q \in guarded),
         WorkKept(p)', \A q \in Seeders \ {p} : inserted'[p] \cap inserted[q] \cap Unique = {}
  PROVE  RowsInv'
<1>p. p \in Processes /\ Seeders \subseteq Processes
  BY ProcessesApart
<1>1. p \in begun' /\ pc'[p] \in Seeding
  BY DEF RowsInv, WorkKept
<1>2. Attended'
  BY <1>1 DEF Attended
<1>3. LeftToAnother'
  BY <1>2 DEF LeftToAnother
<1>4. InFlight' \subseteq InFlight \cup {p}
  BY DEF InFlight
<1>5. \A q \in (InFlight \cap Seeders) \ {p} : {p, q} \in overlapped'
  BY DEF RowsInv, SeedersKnown
<1>6. \A q \in Seeders \ {p} : /\ pc'[q] = pc[q] /\ missing'[q] = missing[q] /\ inserted'[q] = inserted[q]
                               /\ q \in guarded' <=> q \in guarded
                               /\ q \in begun' <=> q \in begun
  BY <1>p
<1>7. UNCHANGED copies /\ \A u, v \in Seeders \ {p} : {u, v} \in overlapped => {u, v} \in overlapped'
  OBVIOUS
<1> QED
  BY <1>p, <1>3, <1>4, <1>5, <1>6, <1>7, RowsKept

LEMMA RowsAtFind ==
  ASSUME TypeOK, TypeOK', RowsInv, NEW w \in Seeders, NEW i \in 1..Len(Kinds), Find(w, i)
  PROVE  RowsInv'
<1> DEFINE lacking == Lacking(w, Kinds[i])
<1>p. w \in Processes
  BY ProcessesApart
<1>1. /\ pc[w] = Kinds[i] /\ missing' = [missing EXCEPT ![w] = lacking]
      /\ guarded' = guarded \cup {u \in {w} : missing'[w] \cap Unique # {}}
      /\ Goto(w, Inserting[i])
      /\ UNCHANGED <<copies, seen, inserted, begun, overlapped>>
  BY DEF Find, database
<1>2. /\ missing'[w] = lacking /\ \A q \in Seeders \ {w} : missing'[q] = missing[q]
  BY <1>1 DEF TypeOK
<1>3. \A x : x \in lacking <=> x \in OfKind(Kinds[i]) /\ copies[x] = 0
  BY DEF Lacking
<1> HIDE DEF lacking
<1>4. /\ Kinds[i] \in Seeding /\ Inserting[i] \in Seeding /\ Behind(Kinds[i]) = Behind(Inserting[i])
      /\ Before(Kinds[i]) = {} /\ Before(Inserting[i]) = OfKind(Kinds[i])
      /\ OfKind(Kinds[i]) \subseteq Rows
  BY KindsTold
<1>5. pc'[w] = Inserting[i] /\ \A q \in Processes \ {w} : pc'[q] = pc[q]
  BY <1>1, <1>4, <1>p, Goes, StepsKnown
<1>6. WorkKept(w) /\ w \in InFlight /\ pc[w] # "done" /\ pc'[w] # "done"
  BY <1>1, <1>4, <1>5, AtWork DEF RowsInv, Seeding
<1>7. /\ missing[w] = {} /\ InHand(w) = inserted[w] /\ InHand(w)' = inserted[w] \cup lacking
      /\ inserted[w] \subseteq Behind(Inserting[i]) /\ w \in begun
      /\ \A x \in Behind(Inserting[i]) : x \in inserted[w] \/ copies[x] > 0
      /\ \A x \in inserted[w] \cap Unique : copies[x] = 0
      /\ \A x \in inserted[w] : copies[x] > 0 => Seeded
      /\ w \in guarded => inserted[w] \cap Unique # {}
  BY <1>1, <1>2, <1>4, <1>6 DEF WorkKept, InHand
<1>8. WorkKept(w)'
  <2>1. /\ Behind(pc[w])' = Behind(Inserting[i]) /\ Before(pc[w])' = OfKind(Kinds[i]) /\ Unique' = Unique
        /\ Seeded' = Seeded
    BY <1>1, <1>4, <1>5 DEF Behind, Before, Unique, Seeded
  <2>2. \A x \in OfKind(Kinds[i]) : x \in lacking \/ copies[x] > 0
    BY <1>3, <1>4 DEF TypeOK
  <2>3. \A x \in lacking : ~(copies[x] > 0)
    BY <1>3
  <2>4. \A x \in InHand(w)' : copies[x] > 0 => Seeded
    BY <1>7, <2>3
  <2>5. w \in guarded' => (inserted[w] \cup lacking) \cap Unique # {}
    BY <1>1, <1>2, <1>7
  <2>6. ASSUME NEW x \in InHand(w)' \ Unique, copies[x] > 0
        PROVE  \E u \in Seeders \ guarded' : u # w /\ pc'[u] = "done" /\ {u, w} \in overlapped
    <3>1. x \in inserted[w]
      BY <2>3, <2>6, <1>7
    <3>2. PICK u \in Seeders \ guarded : u # w /\ pc[u] = "done" /\ {u, w} \in overlapped
      BY <3>1, <2>6, <1>6, <1>7 DEF WorkKept
    <3>3. u \in Processes \ {w} /\ u \notin guarded'
      BY <3>2, <1>1, ProcessesApart
    <3> QED
      BY <3>2, <3>3, <1>5
  <2>7. /\ inserted'[w] = inserted[w] /\ missing'[w] = lacking /\ lacking \subseteq OfKind(Kinds[i])
        /\ InHand(w)' = inserted[w] \cup lacking /\ copies' = copies /\ overlapped' = overlapped /\ w \in begun'
    BY <1>1, <1>2, <1>3, <1>7
  <2> QED
    BY <1>6, <1>7, <2>1, <2>2, <2>4, <2>5, <2>6, <2>7 DEF WorkKept
<1>9. \A q \in Seeders \ {w} : /\ missing'[q] = missing[q] /\ inserted'[q] = inserted[q]
                               /\ (q \in guarded' <=> q \in guarded)
                               /\ inserted'[w] \cap inserted[q] \cap Unique = {}
  BY <1>1, <1>2 DEF RowsInv, HeldApart
<1> QED
  BY <1>1, <1>4, <1>5, <1>6, <1>8, <1>9, RowsAtWork

LEMMA RowsAtInsert ==
  ASSUME TypeOK, TypeOK', RowsInv, NEW w \in Seeders, NEW i \in 1..Len(Kinds), Insert(w, i)
  PROVE  RowsInv'
<1>p. w \in Processes
  BY ProcessesApart
<1>1. /\ pc[w] = Inserting[i] /\ missing[w] \cap Held(w) = {} /\ \A x \in missing[w] \cap Unique : copies[x] = 0
      /\ inserted' = [inserted EXCEPT ![w] = @ \cup missing[w]] /\ missing' = [missing EXCEPT ![w] = {}]
      /\ Goto(w, After(i)) /\ UNCHANGED <<copies, guarded, begun, overlapped>>
  BY DEF Insert, Flush, After, history
<1>2. /\ inserted'[w] = inserted[w] \cup missing[w] /\ missing'[w] = {}
      /\ \A q \in Seeders \ {w} : missing'[q] = missing[q] /\ inserted'[q] = inserted[q]
  BY <1>1 DEF TypeOK
<1>4. /\ Inserting[i] \in Seeding /\ After(i) \in Seeding
      /\ Before(Inserting[i]) = OfKind(Kinds[i])
      /\ Behind(After(i)) = Behind(Inserting[i]) \cup OfKind(Kinds[i]) /\ Before(After(i)) = {}
  BY KindsTold
<1>5. pc'[w] = After(i) /\ \A q \in Processes \ {w} : pc'[q] = pc[q]
  BY <1>1, <1>4, <1>p, Goes, StepsKnown
<1>6. WorkKept(w) /\ w \in InFlight /\ pc[w] # "done" /\ pc'[w] # "done"
  BY <1>1, <1>4, <1>5, AtWork DEF RowsInv, Seeding
<1>7. /\ InHand(w)' = InHand(w) /\ inserted[w] \subseteq Behind(Inserting[i])
      /\ missing[w] \subseteq OfKind(Kinds[i]) /\ w \in begun
      /\ \A x \in Behind(Inserting[i]) : x \in inserted[w] \/ copies[x] > 0
      /\ \A x \in OfKind(Kinds[i]) : x \in missing[w] \/ copies[x] > 0
      /\ \A x \in inserted[w] \cap Unique : copies[x] = 0
      /\ \A x \in InHand(w) : copies[x] > 0 => Seeded
      /\ w \in guarded => InHand(w) \cap Unique # {}
  BY <1>1, <1>2, <1>4, <1>6 DEF WorkKept, InHand
<1>8. WorkKept(w)'
  <2>1. /\ Behind(pc[w])' = Behind(Inserting[i]) \cup OfKind(Kinds[i]) /\ Before(pc[w])' = {} /\ Unique' = Unique
        /\ Seeded' = Seeded
    BY <1>1, <1>4, <1>5 DEF Behind, Before, Unique, Seeded
  <2>2. ASSUME NEW x \in InHand(w)' \ Unique, copies[x] > 0
        PROVE  \E u \in Seeders \ guarded' : u # w /\ pc'[u] = "done" /\ {u, w} \in overlapped
    <3>1. PICK u \in Seeders \ guarded : u # w /\ pc[u] = "done" /\ {u, w} \in overlapped
      BY <2>2, <1>6, <1>7 DEF WorkKept
    <3>2. u \in Processes \ {w} /\ u \notin guarded'
      BY <3>1, <1>1, ProcessesApart
    <3> QED
      BY <3>1, <3>2, <1>5
  <2>3. \A x \in inserted'[w] \cap Unique : copies[x] = 0
    BY <1>1, <1>2, <1>7
  <2> QED
    BY <1>1, <1>2, <1>6, <1>7, <2>1, <2>2, <2>3 DEF WorkKept
<1>9. ASSUME NEW q \in Seeders \ {w} PROVE inserted'[w] \cap inserted[q] \cap Unique = {}
  <2>1. inserted[w] \cap inserted[q] \cap Unique = {}
    BY <1>9 DEF RowsInv, HeldApart
  <2>2. missing[w] \cap inserted[q] \cap Unique = {}
    <3> SUFFICES ASSUME NEW x \in missing[w] \cap inserted[q] \cap Unique PROVE FALSE
      OBVIOUS
    <3>1. x \in InHand(q) /\ WorkKept(q)
      BY <1>9 DEF InHand, RowsInv
    <3>2. q \in (InFlight \cap Seeders) \ {w}
      BY <3>1, <1>9, AtWork
    <3>3. x \in Held(w)
      BY <3>2 DEF Held
    <3> QED
      BY <3>3, <1>1
  <2> QED
    BY <2>1, <2>2, <1>2
<1> QED
  BY <1>1, <1>2, <1>4, <1>5, <1>6, <1>8, <1>9, RowsAtWork

LEMMA RowsAtCreate ==
  ASSUME TypeOK, TypeOK', RowsInv, NEW w \in Workers, CreateCommit(w)
  PROVE  RowsInv'
<1>p. w \in Processes /\ w \in Seeders
  BY ProcessesApart
<1>1. /\ pc[w] = "create" /\ Goto(w, "permissions")
      /\ UNCHANGED <<copies, missing, inserted, guarded, begun, overlapped>>
  BY Lists DEF CreateCommit, history
<1>2. "permissions" \in Seeding /\ "create" \notin Seeding
  BY DEF Seeding
<1>3. pc'[w] = "permissions" /\ \A q \in Processes \ {w} : pc'[q] = pc[q]
  BY <1>1, <1>2, <1>p, Goes, StepsKnown
<1>4. WorkKept(w) /\ w \in InFlight /\ inserted[w] = {} /\ missing[w] = {} /\ InHand(w) = {}
  BY <1>1, <1>2, <1>p, AtWork DEF RowsInv, InFlight
<1>5. WorkKept(w)'
  <2>1. /\ Behind(pc[w])' = {} /\ Before(pc[w])' = {} /\ Unique' = Unique /\ InHand(w)' = {}
    BY <1>1, <1>3, <1>4, StepsApart DEF Behind, Before, Unique, InHand
  <2>2. w \in begun /\ w \notin guarded /\ pc'[w] # "done" /\ inserted'[w] = {} /\ missing'[w] = {}
    BY <1>1, <1>3, <1>4 DEF WorkKept
  <2> QED
    BY <1>1, <2>1, <2>2 DEF WorkKept
<1> QED
  BY <1>1, <1>2, <1>3, <1>4, <1>5, <1>p, RowsAtWork

LEMMA RowsAtCommit ==
  ASSUME TypeOK, TypeOK', RowsInv, NEW w \in Seeders, SeedCommit(w)
  PROVE  RowsInv'
<1>p. w \in Processes /\ Seeders \subseteq Processes
  BY ProcessesApart
<1>1. /\ pc[w] = "commit" /\ w \in InFlight /\ UNCHANGED <<schema, begun>> /\ End(w, "done")
      /\ copies' = [x \in Rows |-> IF x \in inserted[w] THEN copies[x] + 1 ELSE copies[x]]
  BY <1>p DEF SeedCommit, InFlight
<1>2. /\ pc'[w] = "done" /\ \A q \in Processes \ {w} : pc'[q] = pc[q]
      /\ InFlight' = InFlight \ {w}
      /\ \A q \in Seeders : q # w => missing'[q] = missing[q] /\ inserted'[q] = inserted[q]
      /\ missing'[w] = {} /\ inserted'[w] = {} /\ guarded' = guarded /\ overlapped' = overlapped
  BY <1>1, EndsSo
<1>3. copies \in [Rows -> Nat] /\ inserted \in [Seeders -> SUBSET Rows] /\ missing \in [Seeders -> SUBSET Rows]
  BY DEF TypeOK
<1>4. /\ \A x \in Rows : x \in inserted[w] => copies'[x] = copies[x] + 1
      /\ \A x \in Rows : x \notin inserted[w] => copies'[x] = copies[x]
      /\ \A x \in Rows : copies[x] \in Nat
  BY <1>1, <1>3
<1>5. WorkKept(w) /\ \A q \in Seeders : WorkKept(q)
  BY DEF RowsInv
<1>6. /\ missing[w] = {} /\ InHand(w) = inserted[w]
      /\ \A x \in Rows : x \in inserted[w] \/ copies[x] > 0
      /\ \A x \in inserted[w] \cap Unique : copies[x] = 0
      /\ \A x \in inserted[w] : copies[x] > 0 => Seeded
      /\ w \in guarded => inserted[w] \cap Unique # {}
  BY <1>1, <1>5, StepsApart DEF WorkKept, InHand
<1>7. Unique \subseteq Rows /\ Admin \in Rows /\ Permissions \subseteq Rows /\ Permissions \subseteq Unique
  BY DEF Unique, Rows
<1>8. \A x \in Rows : copies'[x] > 0
  BY <1>4, <1>6
<1>9. Seeded' /\ Attended' /\ LeftToAnother' /\ AdminFirst'
  BY <1>7, <1>8 DEF Seeded, Attended, LeftToAnother, AdminFirst, Rows
<1>10. CopiesFromOverlap'
  <2> SUFFICES ASSUME NEW x \in Rows, copies'[x] > 1
               PROVE  /\ x \notin Unique
                      /\ \E u, v \in Seeders \ guarded :
                           u # v /\ pc'[u] = "done" /\ pc'[v] = "done" /\ {u, v} \in overlapped
    BY <1>2 DEF CopiesFromOverlap, Unique, Rows
  <2>1. CASE x \in inserted[w]
    <3>1. copies[x] > 0
      BY <2>1, <1>4
    <3>2. x \notin Unique
      BY <3>1, <2>1, <1>6
    <3>3. PICK u \in Seeders \ guarded : u # w /\ pc[u] = "done" /\ {u, w} \in overlapped
      BY <3>1, <3>2, <2>1, <1>5, <1>6 DEF WorkKept
    <3>4. w \notin guarded
      <4> SUFFICES ASSUME w \in guarded PROVE FALSE
        OBVIOUS
      <4>1. PICK y \in inserted[w] \cap Unique : copies[y] = 0
        BY <1>6
      <4>2. copies[y] > 0
        BY <3>1, <2>1, <4>1, <1>6, <1>7 DEF Seeded
      <4> QED
        BY <4>1, <4>2
    <3>5. pc'[u] = "done" /\ w \in Seeders \ guarded
      BY <3>3, <3>4, <1>2, <1>p
    <3> QED
      BY <3>2, <3>3, <3>5, <1>2
  <2>2. CASE x \notin inserted[w]
    <3>1. copies[x] > 1
      BY <2>2, <1>4
    <3>2. PICK u \in Seeders \ guarded, v \in Seeders \ guarded :
            u # v /\ pc[u] = "done" /\ pc[v] = "done" /\ {u, v} \in overlapped
      BY <3>1 DEF RowsInv, CopiesFromOverlap
    <3>3. pc'[u] = "done" /\ pc'[v] = "done"
      BY <3>2, <1>2, <1>p
    <3>4. x \notin Unique
      BY <3>1 DEF RowsInv, CopiesFromOverlap
    <3> QED
      BY <3>2, <3>3, <3>4
  <2> QED
    BY <2>1, <2>2
<1>11. SeedersKnown'
  BY <1>2 DEF RowsInv, SeedersKnown
<1>12. HeldApart'
  BY <1>2 DEF RowsInv, HeldApart, Unique
<1>13. WorkKept(w)'
  <2>1. Behind(pc[w])' = {} /\ Before(pc[w])' = {} /\ InHand(w)' = {} /\ w \notin InFlight'
    BY <1>2, StepsApart DEF Behind, Before, Seeding, InHand
  <2> QED
    BY <2>1, <1>2, <1>9 DEF WorkKept
\* Whom w leaves with rows in hand that it has committed overlapped with w, which
\* found every unique row there.
<1>14. ASSUME NEW q \in Seeders \ {w}, NEW x \in InHand(q) \ Unique, x \in inserted[w]
       PROVE  w \in Seeders \ guarded /\ {w, q} \in overlapped
  <2>1. q \in InFlight /\ Permissions \subseteq Behind(pc[q])
    BY <1>5, <1>14, AtWork DEF Unique
  <2>2. {w, q} \in overlapped
    BY <2>1, <1>1, <1>14 DEF RowsInv, SeedersKnown
  <2>3. w \notin guarded
    <3> SUFFICES ASSUME w \in guarded PROVE FALSE
      OBVIOUS
    <3>t. PICK y \in inserted[w] \cap Unique : copies[y] = 0
      BY <1>6
    <3>1. ASSUME NEW z \in Permissions, copies[z] = 0 PROVE FALSE
      <4>1. z \in inserted[w]
        BY <3>1, <1>6, <1>7
      <4>2. z \in inserted[q]
        BY <3>1, <2>1, <1>5, <1>14 DEF WorkKept
      <4> QED
        BY <3>1, <4>1, <4>2, <1>7, <1>14 DEF RowsInv, HeldApart
    <3>2. CASE y \in Permissions
      BY <3>t, <3>1, <3>2
    <3>3. CASE y = Admin
      <4>1. \A z \in Permissions : copies[z] = 0
        BY <3>t, <3>3 DEF RowsInv, AdminFirst
      <4>2. PICK z \in Permissions : TRUE
        BY DeploymentAssumption
      <4> QED
        BY <4>1, <4>2, <3>1, <1>7
    <3> QED
      BY <3>t, <3>2, <3>3 DEF Unique
  <2> QED
    BY <2>2, <2>3
<1>15. ASSUME NEW q \in Seeders \ {w} PROVE WorkKept(q)'
  <2>1. /\ pc'[q] = pc[q] /\ missing'[q] = missing[q] /\ inserted'[q] = inserted[q]
        /\ InHand(q)' = InHand(q) /\ InHand(q) \subseteq Rows
        /\ WorkKept(q)
        /\ q \in InFlight' => q \in InFlight
    BY <1>2, <1>3, <1>5, <1>15, <1>p DEF InHand
  <2>2. Behind(pc[q])' = Behind(pc[q]) /\ Before(pc[q])' = Before(pc[q]) /\ Unique' = Unique
        /\ Behind(pc[q]) \subseteq Rows /\ Before(pc[q]) \subseteq Rows
    BY <2>1 DEF Behind, Before, Unique, Rows
  <2>3. ASSUME NEW x \in InHand(q) \ Unique, copies'[x] > 0
        PROVE  \E u \in Seeders \ guarded : u # q /\ pc'[u] = "done" /\ {u, q} \in overlapped
    <3>1. CASE x \in inserted[w]
      <4>1. w \in Seeders \ guarded /\ {w, q} \in overlapped
        BY <3>1, <2>3, <1>14
      <4> QED
        BY <4>1, <1>2, <1>15
    <3>2. CASE x \notin inserted[w]
      <4>1. copies[x] > 0
        BY <3>2, <2>1, <2>3, <1>4
      <4>2. PICK u \in Seeders \ guarded : u # q /\ pc[u] = "done" /\ {u, q} \in overlapped
        BY <4>1, <2>1, <2>3 DEF WorkKept
      <4>3. pc'[u] = "done"
        BY <4>2, <1>2, <1>p
      <4> QED
        BY <4>2, <4>3
    <3> QED
      BY <3>1, <3>2
  <2>4. \A x \in inserted[q] \cap Unique : copies'[x] = 0
    <3> SUFFICES ASSUME NEW x \in inserted[q] \cap Unique PROVE copies'[x] = 0
      OBVIOUS
    <3>1. copies[x] = 0
      BY <2>1 DEF WorkKept
    <3>2. x \notin inserted[w]
      BY <1>15 DEF RowsInv, HeldApart
    <3> QED
      BY <3>1, <3>2, <1>4, <1>7
  <2>5. /\ inserted[q] \subseteq Behind(pc[q]) /\ missing[q] \subseteq Before(pc[q])
        /\ q \in guarded /\ pc[q] # "done" => InHand(q) \cap Unique # {}
        /\ q \in InFlight => q \in begun
    BY <2>1 DEF WorkKept
  <2>6. /\ \A x \in Behind(pc[q]) : copies'[x] > 0
        /\ \A x \in Before(pc[q]) : copies'[x] > 0
    BY <2>2, <1>8
  <2> QED
    BY <2>1, <2>2, <2>3, <2>4, <2>5, <2>6, <1>1, <1>2, <1>9 DEF WorkKept
<1> QED
  BY <1>9, <1>10, <1>11, <1>12, <1>13, <1>15 DEF RowsInv

LEMMA RowsAtRebuild ==
  ASSUME TypeOK, TypeOK', RowsInv, CleanReset \/ SyncPerfectSchema \/ DirectSqlSeed \/ ScriptStopped
  PROVE  RowsInv'
<1>1. /\ InFlight = {} /\ begun' = {} /\ guarded' = {} /\ UNCHANGED <<pc, missing, inserted>>
  BY Rebuilds DEF locals
<1>2. PICK rows : /\ copies' = [x \in Rows |-> IF x \in rows THEN 1 ELSE 0]
                  /\ Admin \in rows \/ rows \cap Permissions = {}
  BY Rebuilds
<1>3. \A x \in Rows : copies'[x] \in {0, 1}
  BY <1>2
<1>4. copies'[Admin] = 1 \/ \A x \in Permissions : copies'[x] = 0
  BY <1>2 DEF Rows
<1>5. ASSUME NEW q \in Seeders PROVE pc[q] \notin Seeding /\ inserted[q] = {} /\ missing[q] = {} /\ InHand(q) = {}
  BY <1>1, <1>5, AtWork DEF RowsInv
<1>6. \A q \in Processes : pc[q] # "create" /\ pc'[q] # "create"
  BY <1>1 DEF InFlight
<1>7. CopiesFromOverlap'
  <2>1. \A x \in Rows : ~(copies'[x] > 1)
    BY <1>3
  <2> QED
    BY <2>1 DEF CopiesFromOverlap, Rows
<1>8. SeedersKnown' /\ HeldApart'
  <2>1. InFlight' = {}
    BY <1>1 DEF InFlight
  <2> QED
    BY <2>1, <1>1, <1>5 DEF SeedersKnown, HeldApart
<1>9. AdminFirst'
  BY <1>4 DEF AdminFirst
<1>10. LeftToAnother'
  BY <1>1, <1>6, ProcessesApart DEF LeftToAnother
<1>11. ASSUME NEW q \in Seeders PROVE WorkKept(q)'
  <2>1. Behind(pc[q])' = {} /\ Before(pc[q])' = {} /\ InHand(q)' = {}
    BY <1>1, <1>5, <1>11, StepsApart DEF InHand, Behind, Before
  <2>2. q \notin InFlight' /\ inserted'[q] = {} /\ missing'[q] = {}
    BY <1>1, <1>5, <1>11 DEF InFlight
  <2> QED
    BY <1>1, <2>1, <2>2 DEF WorkKept
<1> QED
  BY <1>7, <1>8, <1>9, <1>10, <1>11 DEF RowsInv

LEMMA RowsHold ==
  ASSUME TypeOK, TypeOK', SchemaInv, RowsInv, [Next]_vars
  PROVE  RowsInv'
<1> USE DEF database, locals, history
<1>p. /\ Containers \subseteq Processes /\ Workers \subseteq Processes /\ Seeds \subseteq Processes
      /\ Seeders \subseteq Processes /\ Containers \cap Seeders = {} /\ Workers \subseteq Seeders
      /\ Seeds \subseteq Seeders
  BY ProcessesApart
<1>1. ASSUME NEW c \in Containers, MigrateRead(c) PROVE RowsInv'
  <2>1. Begin(c, "migrate") /\ Look(c) /\ UNCHANGED <<database, missing, inserted, visited, guarded>>
    BY <1>1 DEF MigrateRead
  <2>2. "migrate" \in Step \ {"new"} /\ c \in Processes /\ c \notin Seeders
    BY StepsKnown, <1>p
  <2>3. /\ pc[c] = "new" /\ \A q \in Processes \ {c} : pc'[q] = pc[q]
        /\ begun' = begun \cup ({c} \cap Seeders) /\ overlapped' = overlapped
    BY <2>1, <2>2, Begins
  <2>4. \A q \in Processes \ {c} : seen'[q] = seen[q]
    BY <2>1, <2>2, Looks
  <2>5. begun' = begun
    BY <2>2, <2>3
  <2> QED
    BY <2>1, <2>3, <2>4, <2>5, RowsBesideContainer
<1>2. ASSUME NEW c \in Containers, MigrateCommit(c) PROVE RowsInv'
  <2>1. /\ schema' = Upgraded(schema, version, Newest) /\ End(c, "serving")
        /\ UNCHANGED <<copies, visited, begun, disturbed>> /\ c \in InFlight /\ c \notin Seeders
    BY <1>2, <1>p DEF MigrateCommit, InFlight
  <2>2. Ahead \in schema' => Ahead \in schema /\ Existing(schema') = Existing(schema)
    BY <1>2, UpgradeCommits
  <2>3. /\ \A q \in Processes \ {c} : pc'[q] = pc[q] /\ seen'[q] = seen[q]
        /\ UNCHANGED <<missing, inserted, guarded, overlapped>>
    BY <2>1, EndsSo
  <2>4. pc[c] # "done"
    BY <2>1 DEF InFlight
  <2> QED
    BY <2>1, <2>2, <2>3, <2>4, RowsBesideContainer
<1>3. ASSUME NEW p \in Containers, NEW how, Falls(p, how) PROVE RowsInv'
  <2>1. p \in InFlight /\ how \in {"serving", "done", "failed", "crashed"} /\ End(p, how) /\ p \notin Seeders
        /\ UNCHANGED <<database, visited, begun, disturbed>>
    BY <1>3, <1>p DEF Falls
  <2>2. /\ \A q \in Processes \ {p} : pc'[q] = pc[q] /\ seen'[q] = seen[q]
        /\ UNCHANGED <<missing, inserted, guarded, overlapped>>
    BY <2>1, EndsSo
  <2>3. pc[p] # "done"
    BY <2>1 DEF InFlight
  <2> QED
    BY <2>1, <2>2, <2>3, RowsBesideContainer
<1>4. ASSUME NEW c \in Containers, Restart(c) PROVE RowsInv'
  <2>1. Goto(c, "new") /\ UNCHANGED <<database, locals, visited, history>> /\ pc[c] # "done"
    BY <1>4 DEF Restart
  <2>2. \A q \in Processes \ {c} : pc'[q] = pc[q]
    BY <2>1, <1>p, Goes, StepsKnown
  <2> QED
    BY <2>1, <2>2, RowsBesideContainer
<1>5. ASSUME NEW w \in Workers, CreateRead(w) PROVE RowsInv'
  <2>1. Begin(w, "create") /\ Look(w) /\ UNCHANGED <<database, missing, inserted, visited, guarded>>
    BY <1>5 DEF CreateRead
  <2>2. /\ seen'[w].schema = schema /\ \A q \in Processes \ {w} : seen'[q] = seen[q]
    BY <2>1, <1>p, Looks
  <2>3. w \in Seeders /\ \A q \in Seeders \ {w} : seen'[q] = seen[q]
    BY <2>2, <1>p
  <2> QED
    BY <2>1, <2>2, <2>3, RowsAtBegin
<1>6. ASSUME NEW m \in Seeds, ManualSeed(m) PROVE RowsInv'
  <2> DEFINE step == IF copies[Admin] > 0 THEN "skipped" ELSE "permissions"
  <2>1. Begin(m, step) /\ UNCHANGED <<database, locals, visited, guarded>>
    BY <1>6, Lists DEF ManualSeed
  <2>2. step \in {"create", "permissions", "skipped"} /\ step # "create" /\ m \in Seeders
    BY <1>p
  <2> HIDE DEF step
  <2> QED
    BY <2>1, <2>2, RowsAtBegin
<1>7. ASSUME NEW p \in Seeders, Crash(p) PROVE RowsInv'
  BY <1>7, Failures, RowsAtFall
<1>8. ASSUME NEW w \in Workers, CreateFails(w) PROVE RowsInv'
  <2>1. Falls(w, "failed") /\ pc[w] = "create" /\ w \in Seeders
    BY <1>8, <1>p, Failures
  <2>2. Absent(seen[w].schema) \cap Existing(schema) # {}
    BY <1>8 DEF CreateFails
  <2>3. ASSUME Ahead \in schema PROVE Seeded \/ \E q \in begun \ {w} : pc[q] \in Seeding \cup {"crashed"}
    <3>1. Attended
      BY <2>1, <2>2, <2>3 DEF RowsInv, LeftToAnother
    <3>2. pc[w] \notin Seeding \cup {"crashed"}
      BY <2>1 DEF Seeding
    <3> QED
      BY <3>1, <3>2 DEF Attended
  <2> QED
    BY <2>1, <2>3, RowsAtFall
<1>9. ASSUME NEW w \in Seeders, NEW i \in 1..Len(Kinds), FindFails(w, i) PROVE RowsInv'
  <2>1. Falls(w, "failed")
    BY <1>9, Failures
  <2>2. ~(Selected(Kinds[i]) \subseteq schema)
    BY <1>9 DEF FindFails
  <2>3. Selected(Kinds[i]) \subseteq Modelled \cap HandMade
    <3>1. Kinds[i] \in {"permissions", "roles"} \/ Kinds[i] = "admin" \/ Kinds[i] = "templates"
      BY Told
    <3>2. Selected(Kinds[i]) \subseteq {<<"rbac", "base">>, <<"users", "base">>, <<"design_templates", "base">>,
                                       <<"design_templates", "model">>}
      BY <3>1 DEF Selected
    <3>3. {<<"rbac", "base">>, <<"users", "base">>, <<"design_templates", "base">>, <<"design_templates", "model">>}
            \subseteq Modelled \cap HandMade
      BY DEF Modelled, HandMade, Tables
    <3> QED
      BY <3>2, <3>3
  <2>4. Ahead \notin schema
    BY <2>2, <2>3 DEF SchemaInv, Consistent, WellMade
  <2> QED
    BY <2>1, <2>4, RowsAtFall
<1>10. ASSUME NEW w \in Seeders, NEW i \in 1..Len(Kinds), InsertFails(w, i) PROVE RowsInv'
  <2>1. Falls(w, "failed")
    BY <1>10, Failures
  <2>2. PICK x \in missing[w] \cap Unique : copies[x] > 0
    BY <1>10 DEF InsertFails
  <2>3. WorkKept(w)
    BY DEF RowsInv
  <2>4. Seeded
    BY <2>2, <2>3 DEF WorkKept, InHand
  <2> QED
    BY <2>1, <2>4, RowsAtFall
<1>11. CASE UNCHANGED vars
  <2>1. CopiesFromOverlap' /\ AdminFirst' /\ HeldApart'
    BY <1>11 DEF vars, RowsInv, CopiesFromOverlap, AdminFirst, HeldApart
  <2>2. SeedersKnown' /\ InFlight' = InFlight
    BY <1>11 DEF vars, RowsInv, SeedersKnown, InFlight
  <2>3. LeftToAnother'
    BY <1>11 DEF vars, RowsInv, LeftToAnother, Attended, Seeded
  <2>4. ASSUME NEW w \in Seeders PROVE WorkKept(w)'
    <3>1. WorkKept(w) /\ Seeded' = Seeded /\ InHand(w)' = InHand(w)
      BY <1>11 DEF vars, RowsInv, Seeded, InHand
    <3>2. Behind(pc[w])' = Behind(pc[w]) /\ Before(pc[w])' = Before(pc[w])
      BY <1>11 DEF vars, Behind, Before
    <3> QED
      BY <3>1, <3>2, <2>2, <1>11 DEF vars, WorkKept
  <2> QED
    BY <2>1, <2>2, <2>3, <2>4 DEF RowsInv
<1>12. \A c \in Containers : MigrateFails(c) \/ Crash(c) => RowsInv'
  BY <1>3, Failures
<1>13. \A p \in Processes : p \in Containers \/ p \in Seeders
  BY DEF Processes
<1> QED
  BY <1>1, <1>2, <1>4, <1>5, <1>6, <1>7, <1>8, <1>9, <1>10, <1>11, <1>12, <1>13, <1>p,
     RowsAtCreate, RowsAtFind, RowsAtInsert, RowsAtCommit, RowsAtRebuild DEF Next

(***************************************************************************)
(* The beginning.                                                          *)
(***************************************************************************)
LEMMA Starts ==
  ASSUME Init
  PROVE  IInv
<1>1. /\ pc = [p \in Processes |-> "new"]
      /\ seen = [p \in Processes |-> [schema |-> {}, version |-> 0]]
      /\ missing = [p \in Seeders |-> {}] /\ inserted = [p \in Seeders |-> {}]
      /\ guarded = {} /\ begun = {} /\ overlapped = {} /\ disturbed = {}
  BY DEF Init
<1>2. /\ version \in 0..Newest /\ visited \in BOOLEAN
      /\ \/ visited /\ schema = Modelled /\ version \in {SharesVersion, ComplaintVersion}
         \/ schema = Migrated(version)
  BY ScriptVersions DEF Init
<1>3. /\ copies \in [Rows -> Nat] /\ \A x \in Rows : copies[x] \in {0, 1}
      /\ copies[Admin] > 0 \/ \A x \in Rows : copies[x] = 0
  <2>1. CASE copies = [x \in Rows |-> 0]
    BY <2>1
  <2>2. ASSUME NEW old \in Releases, copies = [x \in Rows |-> IF x \in old THEN 1 ELSE 0]
        PROVE  /\ copies \in [Rows -> Nat] /\ \A x \in Rows : copies[x] \in {0, 1}
               /\ copies[Admin] > 0
    BY <2>2, DeploymentAssumption DEF Rows
  <2> QED
    BY <2>1, <2>2 DEF Init
<1>4. schema \subseteq Tables \X Parts /\ WellMade(schema) /\ ~ByHand(schema) /\ Migrated(version) \subseteq schema
  BY <1>2, MigratedWell, ModelWell, ScriptVersions
<1>5. \A p \in Processes : pc[p] = "new"
  BY <1>1
<1>6. Seeders \subseteq Processes /\ Containers \subseteq Processes /\ Workers \subseteq Processes
  BY ProcessesApart
<1>7. TypeOK
  <2>1. [schema |-> {}, version |-> 0] \in [schema : SUBSET (Tables \X Parts), version : 0..Newest]
    BY Fourteen
  <2> QED
    BY <2>1, <1>1, <1>2, <1>3, <1>4, StepsKnown DEF TypeOK
<1>8. SchemaInv
  <2>1. OnTheWay
    BY <1>2, <1>5, <1>6 DEF OnTheWay
  <2>2. OnlyVisitorsBlockUpgrades /\ \A w \in Workers : SeenThere(w)
    BY <1>5, <1>6 DEF OnlyVisitorsBlockUpgrades, SeenThere
  <2>3. \A c \in Containers : Alone(c)
    BY <1>5, <1>6 DEF Alone
  <2> QED
    BY <1>4, <1>7, <2>1, <2>2, <2>3 DEF SchemaInv, Consistent
<1>9. RowsInv
  <2>1. InFlight = {}
    BY <1>5 DEF InFlight
  <2>2. CopiesFromOverlap
    <3>1. \A x \in Rows : ~(copies[x] > 1)
      BY <1>3
    <3> QED
      BY <3>1 DEF CopiesFromOverlap
  <2>3. SeedersKnown /\ HeldApart /\ AdminFirst
    BY <2>1, <1>1, <1>3 DEF SeedersKnown, HeldApart, AdminFirst, Rows
  <2>4. LeftToAnother
    BY <1>1, <1>5, <1>6 DEF LeftToAnother
  <2>5. ASSUME NEW w \in Seeders PROVE WorkKept(w)
    <3>1. inserted[w] = {} /\ missing[w] = {} /\ InHand(w) = {} /\ pc[w] = "new"
      BY <1>1, <1>5, <1>6, <2>5 DEF InHand
    <3>2. Behind("new") = {} /\ Before("new") = {}
      BY StepsApart DEF Seeding
    <3> QED
      BY <3>1, <3>2, <2>1, <1>1 DEF WorkKept
  <2> QED
    BY <2>2, <2>3, <2>4, <2>5 DEF RowsInv
<1> QED
  BY <1>8, <1>9 DEF IInv

LEMMA Keeps ==
  ASSUME IInv, [Next]_vars
  PROVE  IInv'
<1>1. TypeOK /\ SchemaInv /\ RowsInv
  BY DEF IInv, SchemaInv, Consistent
<1>2. TypeOK'
  BY <1>1, TypesHold
<1>3. SchemaInv' /\ RowsInv'
  BY <1>1, <1>2, SchemaHolds, RowsHold
<1> QED
  BY <1>3 DEF IInv

LEMMA Invariance == Spec => []IInv
<1>1. Init => IInv
  BY Starts
<1>2. IInv /\ [Next]_vars => IInv'
  BY Keeps
<1> QED
  BY <1>1, <1>2, PTL DEF Spec

(***************************************************************************)
(* The theorems.                                                           *)
(***************************************************************************)
\* Whatever version alembic_version names, what the revisions up to it make is
\* in the database, however migrations, servers and scripts interleave and
\* wherever one of them is killed, unless direct_sql_seed.py has made the
\* tables: then no upgrade ever moves the version that it stamped
\* (alembic/versions, main.py, the scripts).
THEOREM SchemaStaysConsistent == Spec => []Consistent
<1>1. IInv => Consistent
  BY DEF IInv, SchemaInv
<1> QED
  BY <1>1, Invariance, PTL

\* An upgrade fails only beside another process or after a server without the
\* migrations or a script (alembic/versions, Dockerfile's start command).
THEOREM UpgradesStayUnblocked == Spec => []OnlyVisitorsBlockUpgrades
<1>1. IInv => OnlyVisitorsBlockUpgrades
  BY DEF IInv, SchemaInv
<1> QED
  BY <1>1, Invariance, PTL

\* Two rows of one role or template come only of two overlapping seeders that
\* found every unique row there (seed_system_data in core/bootstrap.py).
THEOREM CopiesStayOfOverlaps == Spec => []CopiesFromOverlap
<1>1. IInv => CopiesFromOverlap
  BY DEF IInv, RowsInv
<1> QED
  BY <1>1, Invariance, PTL

\* When the workers have come to an end, none killed, the release is seeded,
\* though all but one of them may have failed (core/bootstrap.py).
THEOREM BootstrapsEndSeeded == Spec => []BootstrapsSeed
<1>1. IInv => BootstrapsSeed
  <2> SUFFICES ASSUME IInv, NEW w \in begun, pc[w] \in {"done", "failed"},
                      \A q \in begun : pc[q] \in {"done", "failed", "skipped"},
                      Selected("templates") \subseteq schema
               PROVE  Seeded
    BY DEF BootstrapsSeed, Seeded
  <2>1. Ahead \in schema
    BY DEF Selected, Ahead
  <2>2. Attended
    BY <2>1 DEF IInv, RowsInv, LeftToAnother
  <2>3. \A q \in begun : pc[q] \notin Seeding \cup {"crashed"}
    BY DEF Seeding
  <2> QED
    BY <2>2, <2>3 DEF Attended
<1> QED
  BY <1>1, Invariance, PTL
=============================================================================
