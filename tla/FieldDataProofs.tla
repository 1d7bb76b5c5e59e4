--------------------------- MODULE FieldDataProofs ---------------------------
(***************************************************************************)
(* What is collected in the field stays consistent, for any number of      *)
(* submissions, reviews and resolutions, volunteers and signals.           *)
(***************************************************************************)
EXTENDS FieldData, FiniteSetTheorems, TLAPS

\* Of each kind, requests that are in flight together are known to be.
FlightsKnown ==
  \A q, r \in InFlight : q # r /\ (q \in Submits <=> r \in Submits) => {q, r} \in overlapped

\* A submission is there when its request is done, and so is the other of its
\* pair.
RowsInOrder ==
  /\ IsFiniteSet(Rows)
  /\ \A s \in Submits : s \in Rows <=> pc[s] = "done"
  /\ \A s \in Submits : duplicate[s] # None => duplicate[s].a \in Rows /\ duplicate[s].a # s

\* Decisions are of requests that are done, and nothing is decided without one.
DecisionsInOrder ==
  \A s \in Submits :
    /\ IsFiniteSet(decided[s]) /\ \A q \in decided[s] : pc[q] = "done"
    /\ decided[s] = {} => status[s] \in {"NONE", "SUBMITTED", "DUPLICATE"}

\* What a decision has loaded is what is there, unless it was overtaken; and a
\* submission that has left the queue of duplicates does not come back.
LoadsKept(r) ==
  \A s \in Submits :
    seen[r][s] # "NONE" =>
      /\ r \in InFlight /\ r \notin Submits /\ s \in Rows
      /\ seen[r][s] # "DUPLICATE" => status[s] # "DUPLICATE"
      /\ seen[r][s] = status[s] \/ Overtaken(r, s)

\* What a decision has loaded by which step.
OrderKept(r) ==
  /\ r \in InFlight /\ r \in Reviews \cup Bulks =>
       order[r].action \in {"APPROVED", "REJECTED"} /\ \A s \in order[r].subs : seen[r][s] # "NONE"
  /\ r \in InFlight /\ r \in Reviews => \E s \in Submits : order[r].subs = {s}
  /\ r \in InFlight /\ r \in Resolves =>
       /\ order[r].action \in Resolution /\ found[r] # None /\ found[r].a \in Rows
       /\ \E b \in Rows : order[r].subs = {b} /\ found[r].a # b /\ duplicate[b] # None
       /\ pc[r] \in {"record b", "commit"} => seen[r][found[r].a] # "NONE"
       /\ pc[r] = "commit" => \A b \in order[r].subs : seen[r][b] # "NONE"

\* The submission s has been compared by its i-th signal.
Passed(s, i) == pc[s] \in {"profile", "commit"} \/ \E k \in i+1..Len(Signals) : pc[s] = ScanStep[k]

\* They say the same of a signal, to the same organization.
Agree(s, t, signal) ==
  /\ facts[s].organization = facts[t].organization
  /\ facts[s][signal] # None /\ facts[s][signal] = facts[t][signal]

\* A scan finds another submission; what it has missed when it has found none
\* came while it was in flight.
ScanKept(s) ==
  s \in Submits =>
    /\ found[s] # None =>
         found[s].a \in Rows /\ found[s].a # s /\ found[s].resolution = "POSSIBLE_DUPLICATE"
    /\ found[s] = None => \A i \in 1..Len(Signals) : Passed(s, i) =>
         \A t \in Rows : t # s /\ Agree(s, t, Signals[i]) => {s, t} \in overlapped

\* The submissions of v that were not served together with another of his.
Solo(v) == {s \in CollectedBy(v) : \A t \in CollectedBy(v) \ {s} : {s, t} \notin overlapped}

\* Those of them that were not served together with s.
SoloApart(v, s) == {t \in Solo(v) : {s, t} \notin overlapped}

\* A submission has loaded a total that is not ahead, and that is behind by no
\* more than what was served together with it.
TotalKept(s) ==
  s \in Submits /\ pc[s] = "commit" /\ by[s] \in Volunteers =>
    /\ counted[s].total <= Cardinality(CollectedBy(by[s]))
    /\ Cardinality(SoloApart(by[s], s)) <= counted[s].total

\* A decision on a submission of v that was served together with r is committed.
Crossed(r, v) == \E t \in CollectedBy(v) : Overtaken(r, t)

\* The credits that a review has loaded are those that are there, unless it was
\* crossed by another decision.
CreditKept(r) ==
  r \in Reviews /\ pc[r] = "commit" =>
    \A s \in order[r].subs : by[s] \in Volunteers =>
      \/ /\ counted[r].approved = profile[by[s]].approved
         /\ counted[r].rejected = profile[by[s]].rejected
      \/ Crossed(r, by[s])

\* What the request r goes by is in order.
Holds(r) == LoadsKept(r) /\ OrderKept(r) /\ ScanKept(r) /\ TotalKept(r) /\ CreditKept(r)

HoldsInOrder == \A r \in Requests : Holds(r)

\* The inductive invariant.
IInv ==
  /\ TypeOK /\ ResolvedLeavesQueue /\ CollectionCounted /\ CreditsMatchStatus /\ DuplicatesSuspected
  /\ FlightsKnown /\ RowsInOrder /\ DecisionsInOrder /\ HoldsInOrder

-----------------------------------------------------------------------------
\* The kinds of requests are apart.
LEMMA KindsApart ==
  /\ Submits \cap Reviews = {} /\ Submits \cap Bulks = {} /\ Submits \cap Resolves = {}
  /\ Reviews \cap Bulks = {} /\ Reviews \cap Resolves = {} /\ Bulks \cap Resolves = {}
  /\ Submits \subseteq Requests /\ Reviews \subseteq Requests /\ Bulks \subseteq Requests
  /\ Resolves \subseteq Requests /\ Decisions \subseteq Requests /\ Decisions \cap Submits = {}
  /\ Reviews \subseteq Decisions /\ Bulks \subseteq Decisions /\ Resolves \subseteq Decisions
  /\ Volunteers \subseteq Users /\ None \notin Users /\ None \notin Match
<1>1. DOMAIN Kinds = 1..4 /\ Kinds[1] = Submits /\ Kinds[2] = Reviews /\ Kinds[3] = Bulks /\ Kinds[4] = Resolves
  BY DEF Kinds
<1>2. \A i, j \in 1..4 : i # j => Kinds[i] \cap Kinds[j] = {}
  BY <1>1, FieldAssumption DEF FieldAssumption
<1> QED
  BY <1>1, <1>2, FieldAssumption DEF FieldAssumption, Requests, Decisions

\* The signals are numbered.
LEMMA SignalsNumbered ==
  /\ Len(Signals) \in Nat /\ Len(Signals) <= 4
  /\ \A x \in Signal : \E i \in 1..Len(Signals) : x = Signals[i]
  /\ \A i \in 1..Len(Signals) : Signals[i] \in Signal
<1>1. Signals \in Seq(STRING) /\ Len(Signals) <= 4
  BY FieldAssumption DEF FieldAssumption
<1> QED
  BY <1>1 DEF Signal

\* What the proofs use of the types.
LEMMA Typed ==
  ASSUME TypeOK
  PROVE  /\ status \in [Submits -> Status \cup {"NONE"}] /\ flagged \in [Submits -> BOOLEAN]
         /\ facts \in [Submits -> Facts \cup {None}] /\ by \in [Submits -> Users \cup {None}]
         /\ duplicate \in [Submits -> Match \cup {None}] /\ profile \in [Volunteers -> Counters]
         /\ reviews \subseteq Review /\ pc \in [Requests -> Step] /\ order \in [Requests -> Order]
         /\ seen \in [Requests -> [Submits -> Status \cup {"NONE"}]]
         /\ found \in [Requests -> Match \cup {None}] /\ counted \in [Requests -> Counters]
         /\ decided \in [Submits -> SUBSET Decisions] /\ overlapped \subseteq SUBSET Requests
         /\ Rows \subseteq Submits /\ InFlight \subseteq Requests
BY DEF TypeOK, Rows, InFlight

\* What the fields of the records are.
LEMMA Fields ==
  /\ \A m \in Match : m.a \in Submits /\ m.signal \in Signal /\ m.resolution \in Resolution
  /\ \A c \in Counters : c.total \in Nat /\ c.duplicates \in Nat /\ c.approved \in Nat /\ c.rejected \in Nat
  /\ \A o \in Order : o.subs \subseteq Submits /\ o.action \in Status \cup Resolution
  /\ Zero \in Counters /\ NoOrder \in Order /\ Unseen \in [Submits -> Status \cup {"NONE"}]
  /\ NoOrder.subs = {}
BY DEF Match, Counters, Order, Zero, NoOrder, Unseen, Status

\* Finite sets of submissions.
LEMMA Finite ==
  ASSUME IsFiniteSet(Rows), NEW v
  PROVE  /\ IsFiniteSet(CollectedBy(v)) /\ IsFiniteSet(Solo(v))
         /\ Cardinality(CollectedBy(v)) \in Nat /\ Cardinality(Solo(v)) \in Nat
         /\ \A S : S \subseteq CollectedBy(v) =>
              IsFiniteSet(S) /\ Cardinality(S) \in Nat /\ Cardinality(S) <= Cardinality(CollectedBy(v))
         /\ \A S : S \subseteq Solo(v) => Cardinality(S) <= Cardinality(Solo(v))
<1>1. CollectedBy(v) \subseteq Rows /\ Solo(v) \subseteq CollectedBy(v)
  BY DEF CollectedBy, Solo
<1>2. IsFiniteSet(CollectedBy(v)) /\ IsFiniteSet(Solo(v))
  BY <1>1, FS_Subset
<1> QED
  BY <1>2, FS_Subset, FS_CardinalityType

\* The counters of submissions in terms of the sets that the proofs speak of.
LEMMA TotalsMean ==
  /\ CollectionCounted <=>
       \A v \in Volunteers : profile[v].total \in Cardinality(Solo(v))..Cardinality(CollectedBy(v))
  /\ CollectionCounted' <=>
       \A v \in Volunteers : profile'[v].total \in Cardinality(Solo(v)')..Cardinality(CollectedBy(v)')
BY DEF CollectionCounted, Solo

\* The submissions of v were each decided once, by a review, and no two of
\* these reviews were served together.
Clean(v) ==
  /\ \A s \in CollectedBy(v) : decided[s] \subseteq Reviews /\ Cardinality(decided[s]) <= 1
  /\ \A s, t \in CollectedBy(v) : \A q \in decided[s], r \in decided[t] : {q, r} \notin overlapped

With(v, x) == {s \in CollectedBy(v) : status[s] = x}

LEMMA CreditsMean ==
  /\ CreditsMatchStatus <=>
       \A v \in Volunteers : Clean(v) =>
         /\ profile[v].approved = Cardinality(With(v, "APPROVED"))
         /\ profile[v].rejected = Cardinality(With(v, "REJECTED"))
  /\ CreditsMatchStatus' <=>
       \A v \in Volunteers : Clean(v)' =>
         /\ profile'[v].approved = Cardinality(With(v, "APPROVED")')
         /\ profile'[v].rejected = Cardinality(With(v, "REJECTED")')
BY DEF CreditsMatchStatus, Clean, With

-----------------------------------------------------------------------------
(***************************************************************************)
(* Steps that leave the tables alone: r goes on, loads or breaks off.      *)
(***************************************************************************)
Aside(r) ==
  /\ pc[r] # "done" /\ pc'[r] # "done" /\ \A q \in Requests \ {r} : pc'[q] = pc[q]
  /\ UNCHANGED <<status, flagged, duplicate, profile, reviews, decided>>
  /\ \A s \in Submits \ {r} : by'[s] = by[s] /\ facts'[s] = facts[s]
  /\ \A p, q \in Requests \ {r} : {p, q} \in overlapped' <=> {p, q} \in overlapped

\* Such a step changes nothing of what is said of submissions that are there,
\* or of other requests.
LEMMA AsideSame ==
  ASSUME IInv, NEW r \in Requests, Aside(r)
  PROVE  /\ Rows' = Rows /\ r \notin Rows
         /\ \A v : CollectedBy(v)' = CollectedBy(v) /\ Solo(v)' = Solo(v)
         /\ \A q \in Requests \ {r}, t \in Submits : Overtaken(q, t)' <=> Overtaken(q, t)
         /\ \A v : \A q \in Requests \ {r} : Crossed(q, v)' <=> Crossed(q, v)
         /\ \A v : \A s \in Submits \ {r} : SoloApart(v, s)' = SoloApart(v, s)
<1> USE DEF IInv
<1>1. Rows' = Rows /\ r \notin Rows /\ Rows \subseteq Submits /\ Submits \subseteq Requests
  BY KindsApart DEF Aside, Rows, RowsInOrder
<1>2. \A v : CollectedBy(v)' = CollectedBy(v)
  BY <1>1 DEF Aside, CollectedBy
<1>3. \A v : Solo(v)' = Solo(v)
  <2> TAKE v
  <2>1. CollectedBy(v) \subseteq Requests \ {r}
    BY <1>1 DEF CollectedBy
  <2> QED
    BY <1>2, <2>1 DEF Aside, Solo
<1>4. \A q \in Requests \ {r}, t \in Submits : Overtaken(q, t)' <=> Overtaken(q, t)
  <2> TAKE q \in Requests \ {r}, t \in Submits
  <2>1. decided[t] \subseteq Requests \ {r} /\ decided' = decided
    BY Typed, KindsApart DEF Aside, DecisionsInOrder
  <2> QED
    BY <2>1 DEF Aside, Overtaken
<1>5. \A v : \A q \in Requests \ {r} : Crossed(q, v)' <=> Crossed(q, v)
  <2> TAKE v
  <2> TAKE q \in Requests \ {r}
  <2>1. CollectedBy(v) \subseteq Submits
    BY <1>1 DEF CollectedBy
  <2> QED
    BY <1>2, <1>4, <2>1 DEF Crossed
<1>6. \A v : \A s \in Submits \ {r} : SoloApart(v, s)' = SoloApart(v, s)
  <2> TAKE v
  <2> TAKE s \in Submits \ {r}
  <2>1. Solo(v) \subseteq Requests \ {r} /\ s \in Requests \ {r}
    BY <1>1 DEF Solo, CollectedBy
  <2> QED
    BY <1>3, <2>1 DEF Aside, SoloApart
<1> QED
  BY <1>1, <1>2, <1>3, <1>4, <1>5, <1>6

LEMMA AsideKeeps ==
  ASSUME IInv, NEW r \in Requests, Aside(r)
  PROVE  /\ ResolvedLeavesQueue' /\ CollectionCounted' /\ CreditsMatchStatus' /\ DuplicatesSuspected'
         /\ RowsInOrder' /\ DecisionsInOrder'
<1> USE DEF IInv
<1>1. /\ Rows' = Rows /\ r \notin Rows /\ status' = status /\ duplicate' = duplicate
      /\ profile' = profile /\ decided' = decided
      /\ \A v : CollectedBy(v)' = CollectedBy(v) /\ Solo(v)' = Solo(v)
  BY AsideSame DEF Aside
<1>2. Rows \subseteq Requests \ {r} /\ Rows \subseteq Submits \ {r}
  BY <1>1, Typed, KindsApart
<1>3. ResolvedLeavesQueue'
  BY <1>1 DEF ResolvedLeavesQueue
<1>4. CollectionCounted'
  BY <1>1, TotalsMean
<1>5. CreditsMatchStatus'
  <2>1. \A v : With(v, "APPROVED")' = With(v, "APPROVED") /\ With(v, "REJECTED")' = With(v, "REJECTED")
    BY <1>1 DEF With
  <2>2. ASSUME NEW v, Clean(v)'
        PROVE  Clean(v)
    <3>1. CollectedBy(v) \subseteq Submits
      BY <1>2 DEF CollectedBy
    <3>2. \A s \in CollectedBy(v) : decided[s] \subseteq Requests \ {r}
      BY <3>1, Typed, KindsApart DEF Aside, DecisionsInOrder
    <3> QED
      BY <1>1, <2>2, <3>2 DEF Clean, Aside
  <2> QED
    BY <1>1, <2>1, <2>2, CreditsMean
<1>6. DuplicatesSuspected'
  BY <1>1, <1>2 DEF DuplicatesSuspected, Aside
<1>7. RowsInOrder'
  BY <1>1, <1>2, KindsApart DEF RowsInOrder, Aside
<1>8. DecisionsInOrder'
  BY <1>1, Typed, KindsApart DEF DecisionsInOrder, Aside
<1> QED
  BY <1>3, <1>4, <1>5, <1>6, <1>7, <1>8

\* What other requests go by stays in order.
LEMMA AsideOthers ==
  ASSUME IInv, NEW r \in Requests, Aside(r), NEW q \in Requests \ {r},
         order'[q] = order[q], seen'[q] = seen[q], found'[q] = found[q], counted'[q] = counted[q]
  PROVE  Holds(q)'
<1> USE DEF IInv
<1>1. /\ Rows' = Rows /\ r \notin Rows /\ Rows \subseteq Submits /\ Submits \subseteq Requests
      /\ status' = status /\ profile' = profile /\ pc'[q] = pc[q] /\ (q \in InFlight' <=> q \in InFlight)
      /\ duplicate' = duplicate
      /\ \A s \in Submits \ {r} : by'[s] = by[s] /\ facts'[s] = facts[s]
  BY AsideSame, Typed, KindsApart DEF Aside, InFlight
<1>2. \A t \in Submits : Overtaken(q, t)' <=> Overtaken(q, t)
  BY AsideSame
<1>3. Holds(q)
  BY DEF HoldsInOrder
<1>4. LoadsKept(q)'
  BY <1>1, <1>2, <1>3 DEF Holds, LoadsKept
<1>5. OrderKept(q)'
  BY <1>1, <1>3 DEF Holds, OrderKept
<1>6. ScanKept(q)'
  <2> SUFFICES ASSUME q \in Submits PROVE ScanKept(q)'
    BY DEF ScanKept
  <2>1. \A i \in 1..Len(Signals) : Passed(q, i)' <=> Passed(q, i)
    BY <1>1 DEF Passed
  <2>2. \A x : \A t \in Rows : Agree(q, t, x)' <=> Agree(q, t, x)
    BY <1>1 DEF Agree
  <2>3. \A t \in Rows : {q, t} \in overlapped' <=> {q, t} \in overlapped
    BY <1>1 DEF Aside
  <2> QED
    BY <1>1, <1>3, <2>1, <2>2, <2>3 DEF Holds, ScanKept
<1>7. TotalKept(q)'
  <2> SUFFICES ASSUME q \in Submits PROVE TotalKept(q)'
    BY DEF TotalKept
  <2>1. CollectedBy(by[q])' = CollectedBy(by[q]) /\ SoloApart(by[q], q)' = SoloApart(by[q], q) /\ by'[q] = by[q]
    BY <1>1, AsideSame
  <2> QED
    BY <1>1, <1>3, <2>1 DEF Holds, TotalKept
<1>8. CreditKept(q)'
  <2> SUFFICES ASSUME q \in Reviews, pc[q] = "commit" PROVE CreditKept(q)'
    BY <1>1 DEF CreditKept
  <2>1. q \in InFlight /\ order[q].subs \subseteq Submits /\ order[q] \in Order
    BY Typed, Fields DEF InFlight
  <2>2. \A s \in order[q].subs : s \in Rows
    BY <1>3, <2>1 DEF Holds, OrderKept, LoadsKept
  <2>3. \A s \in order[q].subs : by'[s] = by[s]
    BY <1>1, <2>2
  <2>4. \A v : Crossed(q, v)' <=> Crossed(q, v)
    BY AsideSame
  <2>5. \A s \in order[q].subs : by[s] \in Volunteers =>
           \/ /\ counted[q].approved = profile[by[s]].approved
              /\ counted[q].rejected = profile[by[s]].rejected
           \/ Crossed(q, by[s])
    BY <1>3 DEF Holds, CreditKept
  <2>6. \A s \in order[q].subs : by'[s] \in Volunteers =>
           \/ /\ counted'[q].approved = profile'[by'[s]].approved
              /\ counted'[q].rejected = profile'[by'[s]].rejected
           \/ Crossed(q, by[s])'
    BY <1>1, <2>3, <2>4, <2>5
  <2> QED
    BY <2>6 DEF CreditKept
<1> QED
  BY <1>4, <1>5, <1>6, <1>7, <1>8 DEF Holds

\* What a request that comes in, goes on or ends does to the program counters
\* and to what is known of requests in flight.
LEMMA BeginEffect ==
  ASSUME TypeOK, FlightsKnown, NEW r \in Requests, NEW step \in Step \ {"new", "done"}, Begin(r, step)
  PROVE  /\ pc' \in [Requests -> Step] /\ pc[r] = "new" /\ pc'[r] = step
         /\ \A q \in Requests \ {r} : pc'[q] = pc[q]
         /\ overlapped \subseteq overlapped' /\ overlapped' \subseteq SUBSET Requests
         /\ \A p, q \in Requests \ {r} : {p, q} \in overlapped' <=> {p, q} \in overlapped
         /\ r \in InFlight' /\ FlightsKnown'
<1>1. pc[r] = "new" /\ pc' = [pc EXCEPT ![r] = step] /\ pc \in [Requests -> Step]
  BY Typed DEF Begin, Goto
<1>2. pc' \in [Requests -> Step] /\ pc'[r] = step /\ \A q \in Requests \ {r} : pc'[q] = pc[q]
  BY <1>1
<1> DEFINE new == {{r, q} : q \in {p \in InFlight : p \in Submits <=> r \in Submits}}
<1>3. overlapped' = overlapped \cup new
  BY DEF Begin
<1>4. overlapped' \subseteq SUBSET Requests
  <2>1. \A x \in new : x \in SUBSET Requests
    BY DEF InFlight
  <2> QED
    BY <1>3, <2>1, Typed
<1>5. \A p, q \in Requests \ {r} : {p, q} \in overlapped' <=> {p, q} \in overlapped
  <2> TAKE p, q \in Requests \ {r}
  <2>1. r \notin {p, q} /\ \A x \in new : r \in x
    OBVIOUS
  <2> QED
    BY <1>3, <2>1
<1>6. \A q \in InFlight : (q \in Submits <=> r \in Submits) => {r, q} \in new
  OBVIOUS
<1>7. InFlight' = InFlight \cup {r} /\ r \notin InFlight
  BY <1>1, <1>2 DEF InFlight
<1> HIDE DEF new
<1>8. FlightsKnown'
  <2> SUFFICES ASSUME NEW p \in InFlight', NEW q \in InFlight', p # q, p \in Submits <=> q \in Submits
               PROVE  {p, q} \in overlapped'
    BY DEF FlightsKnown
  <2>1. CASE p = r
    BY <2>1, <1>3, <1>6, <1>7
  <2>2. CASE q = r
    <3>1. {q, p} = {p, q}
      OBVIOUS
    <3> QED
      BY <2>2, <3>1, <1>3, <1>6, <1>7
  <2>3. CASE p # r /\ q # r
    BY <2>3, <1>3, <1>7 DEF FlightsKnown
  <2> QED
    BY <2>1, <2>2, <2>3
<1> QED
  BY <1>1, <1>2, <1>3, <1>4, <1>5, <1>7, <1>8

LEMMA GotoEffect ==
  ASSUME TypeOK, FlightsKnown, NEW r \in InFlight, NEW step \in Step \ {"new", "done"}, Goto(r, step),
         overlapped' = overlapped
  PROVE  /\ pc' \in [Requests -> Step] /\ pc'[r] = step /\ r \in Requests
         /\ \A q \in Requests \ {r} : pc'[q] = pc[q]
         /\ InFlight' = InFlight /\ FlightsKnown'
<1>1. r \in Requests /\ pc' = [pc EXCEPT ![r] = step] /\ pc \in [Requests -> Step]
  BY Typed DEF Goto
<1>2. pc' \in [Requests -> Step] /\ pc'[r] = step /\ \A q \in Requests \ {r} : pc'[q] = pc[q]
  BY <1>1
<1>3. InFlight' = InFlight
  BY <1>2 DEF InFlight
<1> QED
  BY <1>1, <1>2, <1>3 DEF FlightsKnown

LEMMA EndEffect ==
  ASSUME TypeOK, FlightsKnown, NEW r \in InFlight, NEW step \in {"new", "done"}, End(r, step),
         \A p, q \in Requests \ {r} : {p, q} \in overlapped => {p, q} \in overlapped'
  PROVE  /\ pc' \in [Requests -> Step] /\ pc'[r] = step /\ r \in Requests
         /\ \A q \in Requests \ {r} : /\ pc'[q] = pc[q] /\ order'[q] = order[q] /\ seen'[q] = seen[q]
                                      /\ found'[q] = found[q] /\ counted'[q] = counted[q]
         /\ order'[r] = NoOrder /\ seen'[r] = Unseen /\ found'[r] = None /\ counted'[r] = Zero
         /\ order' \in [Requests -> Order] /\ seen' \in [Requests -> [Submits -> Status \cup {"NONE"}]]
         /\ found' \in [Requests -> Match \cup {None}] /\ counted' \in [Requests -> Counters]
         /\ InFlight' = InFlight \ {r} /\ FlightsKnown'
<1>1. /\ r \in Requests /\ pc' = [pc EXCEPT ![r] = step] /\ pc \in [Requests -> Step]
      /\ order' = [order EXCEPT ![r] = NoOrder] /\ seen' = [seen EXCEPT ![r] = Unseen]
      /\ found' = [found EXCEPT ![r] = None] /\ counted' = [counted EXCEPT ![r] = Zero]
  BY Typed DEF End, Goto
<1>2. /\ pc' \in [Requests -> Step] /\ pc'[r] = step
      /\ \A q \in Requests \ {r} : pc'[q] = pc[q]
  BY <1>1 DEF Step
<1>3. InFlight' = InFlight \ {r}
  BY <1>2 DEF InFlight
<1>4. FlightsKnown'
  BY <1>1, <1>3, Typed DEF FlightsKnown
<1>5. /\ order' \in [Requests -> Order] /\ seen' \in [Requests -> [Submits -> Status \cup {"NONE"}]]
      /\ found' \in [Requests -> Match \cup {None}] /\ counted' \in [Requests -> Counters]
  BY <1>1, Typed, Fields
<1>6. /\ order'[r] = NoOrder /\ seen'[r] = Unseen /\ found'[r] = None /\ counted'[r] = Zero
      /\ \A q \in Requests \ {r} : /\ order'[q] = order[q] /\ seen'[q] = seen[q]
                                   /\ found'[q] = found[q] /\ counted'[q] = counted[q]
  BY <1>1, Typed
<1> QED
  BY <1>1, <1>2, <1>3, <1>4, <1>5, <1>6

\* The steps of a scan are told apart from each other and from other steps.
LEMMA ScanSteps ==
  /\ \A i \in 1..Len(Signals) : ScanStep[i] \in Step \ {"new", "done", "record a", "record b", "profile", "commit"}
  /\ \A i, k \in 1..Len(Signals) : ScanStep[i] = ScanStep[k] => i = k
  /\ \A k \in 1..Len(Signals) : ScanStep[k] = "scan 1" <=> k = 1
<1>1. \A i \in 1..Len(Signals) : i \in {1, 2, 3, 4}
  BY SignalsNumbered
<1>2. ScanStep[1] = "scan 1" /\ ScanStep[2] = "scan 2" /\ ScanStep[3] = "scan 3" /\ ScanStep[4] = "scan 4"
  BY DEF ScanStep
<1> QED
  BY <1>1, <1>2 DEF Step

\* A request that is at rest goes by nothing.
LEMMA RestHolds ==
  ASSUME NEW r \in Requests, pc'[r] \in {"new", "done"}, seen'[r] = Unseen, found'[r] = None
  PROVE  Holds(r)'
<1>1. r \notin InFlight' /\ pc'[r] # "commit" /\ pc'[r] # "profile"
  BY DEF InFlight
<1>2. LoadsKept(r)'
  BY DEF LoadsKept, Unseen
<1>3. OrderKept(r)'
  BY <1>1 DEF OrderKept
<1>4. ScanKept(r)'
  <2>1. \A k \in 1..Len(Signals) : pc'[r] # ScanStep[k]
    BY ScanSteps
  <2>2. \A i \in 1..Len(Signals) : \A k \in i+1..Len(Signals) : k \in 1..Len(Signals)
    BY SignalsNumbered
  <2>3. \A i \in 1..Len(Signals) : ~Passed(r, i)'
    BY <1>1, <2>1, <2>2 DEF Passed
  <2> QED
    BY <2>3 DEF ScanKept
<1>5. TotalKept(r)' /\ CreditKept(r)'
  BY <1>1 DEF TotalKept, CreditKept
<1> QED
  BY <1>2, <1>3, <1>4, <1>5 DEF Holds

LEMMA AsideInv ==
  ASSUME IInv, NEW r \in Requests, Aside(r), TypeOK', FlightsKnown', Holds(r)',
         \A q \in Requests \ {r} : /\ order'[q] = order[q] /\ seen'[q] = seen[q]
                                   /\ found'[q] = found[q] /\ counted'[q] = counted[q]
  PROVE  IInv'
<1>1. \A q \in Requests \ {r} : Holds(q)'
  BY AsideOthers
<1>2. HoldsInOrder'
  BY <1>1 DEF HoldsInOrder
<1> QED
  BY <1>2, AsideKeeps DEF IInv

\* A request that is not in flight has loaded no submission.
LEMMA RestUnseen ==
  ASSUME IInv, NEW r \in Requests, r \notin InFlight \/ r \in Submits
  PROVE  \A s \in Submits : seen[r][s] = "NONE"
BY DEF IInv, HoldsInOrder, Holds, LoadsKept

\* Submissions have no part in what only decisions go by, nor decisions in what
\* only submissions go by.
LEMMA HoldsBySubmit ==
  ASSUME NEW s \in Submits, LoadsKept(s)', ScanKept(s)', TotalKept(s)'
  PROVE  Holds(s)'
BY KindsApart DEF Holds, OrderKept, CreditKept

LEMMA HoldsByDecision ==
  ASSUME NEW r \in Decisions, LoadsKept(r)', OrderKept(r)', CreditKept(r)'
  PROVE  Holds(r)'
BY KindsApart DEF Holds, ScanKept, TotalKept

LEMMA SubmitKeeps ==
  ASSUME IInv, NEW s \in Submits, NEW u \in Users, NEW f \in Facts, Submit(s, u, f)
  PROVE  IInv'
<1> USE DEF IInv
<1>1. /\ facts' = [facts EXCEPT ![s] = f] /\ by' = [by EXCEPT ![s] = u] /\ status' = status
      /\ flagged' = flagged /\ duplicate' = duplicate /\ profile' = profile /\ reviews' = reviews
      /\ order' = order /\ seen' = seen /\ found' = found /\ counted' = counted /\ decided' = decided
  BY DEF Submit, locals
<1>2. s \in Requests
  BY KindsApart
<1>3. "scan 1" \in Step \ {"new", "done"} /\ Begin(s, "scan 1")
  BY DEF Step, Submit
<1>4. /\ pc' \in [Requests -> Step] /\ pc[s] = "new" /\ pc'[s] = "scan 1"
      /\ \A q \in Requests \ {s} : pc'[q] = pc[q]
      /\ overlapped' \subseteq SUBSET Requests /\ FlightsKnown'
      /\ \A p, q \in Requests \ {s} : {p, q} \in overlapped' <=> {p, q} \in overlapped
  BY <1>2, <1>3, BeginEffect
<1>5. TypeOK'
  BY <1>1, <1>4, Typed DEF TypeOK
<1>6. Aside(s)
  BY <1>1, <1>4, Typed DEF Aside
<1>7. s \notin InFlight /\ Rows' = Rows
  BY <1>2, <1>4, <1>6, AsideSame DEF InFlight
<1>8. Holds(s)'
  <2>1. LoadsKept(s)'
    BY <1>1, <1>2, RestUnseen DEF LoadsKept
  <2>2. ScanKept(s)'
    <3>1. \A i \in 1..Len(Signals) : \A k \in i+1..Len(Signals) : k \in 1..Len(Signals) /\ k # 1
      BY SignalsNumbered
    <3>2. \A i \in 1..Len(Signals) : ~Passed(s, i)'
      BY <1>4, <3>1, ScanSteps DEF Passed
    <3>3. ScanKept(s)
      BY <1>2 DEF HoldsInOrder, Holds
    <3> QED
      BY <1>1, <1>7, <3>2, <3>3 DEF ScanKept
  <2>3. TotalKept(s)'
    BY <1>4 DEF TotalKept
  <2> QED
    BY <2>1, <2>2, <2>3, HoldsBySubmit
<1> QED
  BY <1>1, <1>2, <1>4, <1>5, <1>6, <1>8, AsideInv

LEMMA ScanKeeps ==
  ASSUME IInv, NEW s \in Submits, NEW i \in 1..Len(Signals), Scan(s, i)
  PROVE  IInv'
<1> USE DEF IInv
<1>1. /\ facts' = facts /\ by' = by /\ status' = status /\ overlapped' = overlapped
      /\ flagged' = flagged /\ duplicate' = duplicate /\ profile' = profile /\ reviews' = reviews
      /\ order' = order /\ seen' = seen /\ counted' = counted /\ decided' = decided
      /\ pc[s] = ScanStep[i]
  BY DEF Scan, rows, history
<1>2. s \in Requests /\ pc[s] \in Step \ {"new", "done"} /\ s \in InFlight
  BY <1>1, KindsApart, ScanSteps DEF InFlight
<1>3. SameSignal(s, Signals[i]) = {t \in Rows \ {s} : Agree(s, t, Signals[i])}
  BY DEF SameSignal, Agree
<1>4. PICK step \in Step :
        /\ Goto(s, step) /\ step \in Step \ {"new", "done", "commit"}
        /\ \/ /\ step = "profile"
              /\ \E t \in Rows \ {s} :
                   found' = [found EXCEPT ![s] = [a |-> t, signal |-> Signals[i], resolution |-> "POSSIBLE_DUPLICATE"]]
           \/ /\ \A t \in Rows : t # s => ~Agree(s, t, Signals[i])
              /\ found' = found
              /\ i < Len(Signals) => step = ScanStep[i + 1]
  <2>1. CASE \E t \in SameSignal(s, Signals[i]) :
               /\ found' = [found EXCEPT ![s] = [a |-> t, signal |-> Signals[i], resolution |-> "POSSIBLE_DUPLICATE"]]
               /\ Goto(s, "profile")
    BY <2>1, <1>3 DEF Step
  <2>2. CASE /\ SameSignal(s, Signals[i]) = {} /\ found' = found
             /\ Goto(s, IF i < Len(Signals) THEN ScanStep[i + 1] ELSE "profile")
    <3>1. \A t \in Rows : t # s => ~Agree(s, t, Signals[i])
      BY <2>2, <1>3
    <3>2. CASE i < Len(Signals)
      <4>1. i + 1 \in 1..Len(Signals)
        BY <3>2, SignalsNumbered
      <4>2. ScanStep[i + 1] \in Step \ {"new", "done", "commit"}
        BY <4>1, ScanSteps
      <4> QED
        BY <2>2, <3>1, <3>2, <4>2
    <3>3. CASE ~(i < Len(Signals))
      BY <2>2, <3>1, <3>3 DEF Step
    <3> QED
      BY <3>2, <3>3
  <2> QED
    BY <2>1, <2>2 DEF Scan
<1>5. /\ pc' \in [Requests -> Step] /\ pc'[s] = step /\ \A q \in Requests \ {s} : pc'[q] = pc[q]
      /\ InFlight' = InFlight /\ FlightsKnown'
  BY <1>1, <1>2, <1>4, GotoEffect
<1>6. found' \in [Requests -> Match \cup {None}] /\ \A q \in Requests \ {s} : found'[q] = found[q]
  <2>1. \A t \in Rows : [a |-> t, signal |-> Signals[i], resolution |-> "POSSIBLE_DUPLICATE"] \in Match
    BY Typed, SignalsNumbered DEF Match, Resolution
  <2>2. ASSUME NEW m \in Match, found' = [found EXCEPT ![s] = m]
        PROVE  found' \in [Requests -> Match \cup {None}] /\ \A q \in Requests \ {s} : found'[q] = found[q]
    BY <2>2, Typed
  <2>3. found' = found \/ \E m \in Match : found' = [found EXCEPT ![s] = m]
    BY <1>4, <2>1
  <2> QED
    BY <2>2, <2>3, Typed
<1>7. TypeOK'
  BY <1>1, <1>5, <1>6, Typed DEF TypeOK
<1>8. Aside(s)
  BY <1>1, <1>2, <1>4, <1>5 DEF Aside
<1>9. Rows' = Rows
  BY <1>1 DEF Rows
<1>10. ScanKept(s)'
  <2>1. CASE \E t \in Rows \ {s} :
               found' = [found EXCEPT ![s] = [a |-> t, signal |-> Signals[i], resolution |-> "POSSIBLE_DUPLICATE"]]
    <3>1. PICK t \in Rows \ {s} :
            found' = [found EXCEPT ![s] = [a |-> t, signal |-> Signals[i], resolution |-> "POSSIBLE_DUPLICATE"]]
      BY <2>1
    <3>2. found'[s] = [a |-> t, signal |-> Signals[i], resolution |-> "POSSIBLE_DUPLICATE"]
      BY <1>2, <3>1, Typed
    <3>3. found'[s] \in Match
      BY <3>2, Typed, SignalsNumbered DEF Match, Resolution
    <3>4. found'[s] # None
      BY <3>3, KindsApart
    <3> QED
      BY <1>9, <3>2, <3>4 DEF ScanKept
  <2>2. CASE /\ \A t \in Rows : t # s => ~Agree(s, t, Signals[i])
             /\ found' = found /\ (i < Len(Signals) => step = ScanStep[i + 1])
    <3>1. ScanKept(s)
      BY <1>2 DEF HoldsInOrder, Holds
    <3>2. \A t : \A x : Agree(s, t, x)' <=> Agree(s, t, x)
      BY <1>1 DEF Agree
    <3>3. ASSUME NEW j \in 1..Len(Signals), Passed(s, j)', j # i
          PROVE  Passed(s, j)
      <4>1. j < i
        <5>1. CASE i < Len(Signals)
          <6>1. i + 1 \in 1..Len(Signals) /\ pc'[s] = ScanStep[i + 1]
            BY <1>5, <2>2, <5>1, SignalsNumbered
          <6>2. PICK k \in j+1..Len(Signals) : pc'[s] = ScanStep[k]
            BY <3>3, <6>1, ScanSteps DEF Passed
          <6>3. k \in 1..Len(Signals) /\ k > j
            BY <6>2, SignalsNumbered
          <6>4. k = i + 1
            BY <6>1, <6>2, <6>3, ScanSteps
          <6> QED
            BY <3>3, <6>3, <6>4, SignalsNumbered
        <5>2. CASE ~(i < Len(Signals))
          BY <5>2, <3>3, SignalsNumbered
        <5> QED
          BY <5>1, <5>2
      <4>2. i \in j+1..Len(Signals)
        BY <4>1, SignalsNumbered
      <4> QED
        BY <1>1, <4>2 DEF Passed
    <3> QED
      BY <1>1, <1>9, <2>2, <3>1, <3>2, <3>3 DEF ScanKept
  <2> QED
    BY <1>4, <2>1, <2>2
<1>11. LoadsKept(s)'
  BY <1>1, <1>2, RestUnseen DEF LoadsKept
<1>12. TotalKept(s)'
  BY <1>4, <1>5 DEF TotalKept
<1>13. Holds(s)'
  BY <1>10, <1>11, <1>12, HoldsBySubmit
<1> QED
  BY <1>1, <1>2, <1>5, <1>6, <1>7, <1>8, <1>13, AsideInv

\* Loading a profile leaves everything else of the request as it was.
LEMMA LoadProfileEffect ==
  ASSUME IInv, NEW r \in Requests, NEW u, LoadProfile(r, u)
  PROVE  /\ facts' = facts /\ by' = by /\ status' = status /\ overlapped' = overlapped
         /\ profile' = profile /\ order' = order /\ seen' = seen /\ found' = found /\ decided' = decided
         /\ pc[r] = "profile" /\ pc'[r] = "commit" /\ r \in InFlight /\ InFlight' = InFlight
         /\ TypeOK' /\ FlightsKnown' /\ Aside(r) /\ Rows' = Rows
         /\ \A q \in Requests \ {r} : counted'[q] = counted[q]
         /\ u \in Volunteers => counted'[r] = profile[u]
<1> USE DEF IInv
<1>1. /\ facts' = facts /\ by' = by /\ status' = status /\ overlapped' = overlapped
      /\ flagged' = flagged /\ duplicate' = duplicate /\ profile' = profile /\ reviews' = reviews
      /\ order' = order /\ seen' = seen /\ found' = found /\ decided' = decided
      /\ pc[r] = "profile"
      /\ counted' = IF u \in Volunteers THEN [counted EXCEPT ![r] = profile[u]] ELSE counted
  BY DEF LoadProfile, rows, history
<1>2. r \in InFlight /\ "commit" \in Step \ {"new", "done"} /\ Goto(r, "commit")
  BY <1>1 DEF InFlight, Step, LoadProfile
<1>3. /\ pc' \in [Requests -> Step] /\ pc'[r] = "commit" /\ \A q \in Requests \ {r} : pc'[q] = pc[q]
      /\ InFlight' = InFlight /\ FlightsKnown'
  BY <1>1, <1>2, GotoEffect
<1>4. /\ counted' \in [Requests -> Counters]
      /\ \A q \in Requests \ {r} : counted'[q] = counted[q]
      /\ u \in Volunteers => counted'[r] = profile[u]
  BY <1>1, Typed
<1>5. TypeOK'
  BY <1>1, <1>3, <1>4, Typed DEF TypeOK
<1>6. Aside(r)
  BY <1>1, <1>3 DEF Aside
<1>7. Rows' = Rows
  BY <1>1 DEF Rows
<1> QED
  BY <1>1, <1>2, <1>3, <1>4, <1>5, <1>6, <1>7

LEMMA SubmitProfileKeeps ==
  ASSUME IInv, NEW s \in Submits, SubmitProfile(s)
  PROVE  IInv'
<1> USE DEF IInv
<1>1. s \in Requests /\ LoadProfile(s, by[s])
  BY KindsApart DEF SubmitProfile
<1>2. /\ facts' = facts /\ by' = by /\ status' = status /\ overlapped' = overlapped
      /\ profile' = profile /\ order' = order /\ seen' = seen /\ found' = found /\ decided' = decided
      /\ pc[s] = "profile" /\ pc'[s] = "commit" /\ s \in InFlight /\ InFlight' = InFlight
      /\ TypeOK' /\ FlightsKnown' /\ Aside(s) /\ Rows' = Rows
      /\ \A q \in Requests \ {s} : counted'[q] = counted[q]
      /\ by[s] \in Volunteers => counted'[s] = profile[by[s]]
  BY <1>1, LoadProfileEffect
<1>3. ScanKept(s)'
  <2>1. ScanKept(s)
    BY <1>1 DEF HoldsInOrder, Holds
  <2>2. \A i : Passed(s, i)
    BY <1>2 DEF Passed
  <2>3. \A t, x : Agree(s, t, x)' <=> Agree(s, t, x)
    BY <1>2 DEF Agree
  <2> QED
    BY <1>2, <2>1, <2>2, <2>3 DEF ScanKept
<1>4. TotalKept(s)'
  <2> SUFFICES ASSUME by[s] \in Volunteers
               PROVE  /\ counted'[s].total <= Cardinality(CollectedBy(by[s])')
                      /\ Cardinality(SoloApart(by[s], s)') <= counted'[s].total
    BY <1>2 DEF TotalKept
  <2> DEFINE v == by[s]
  <2>1. CollectedBy(v)' = CollectedBy(v) /\ Solo(v)' = Solo(v)
    BY <1>1, <1>2 DEF CollectedBy, Solo
  <2>2. SoloApart(v, s)' \subseteq Solo(v)
    BY <1>2, <2>1 DEF SoloApart
  <2>3. profile[v].total \in Cardinality(Solo(v))..Cardinality(CollectedBy(v))
    BY TotalsMean
  <2>4. /\ Cardinality(SoloApart(v, s)') <= Cardinality(Solo(v))
        /\ Cardinality(Solo(v)) \in Nat /\ Cardinality(CollectedBy(v)) \in Nat
        /\ IsFiniteSet(SoloApart(v, s)')
    BY <2>2, Finite, FS_Subset DEF RowsInOrder
  <2>5. Cardinality(SoloApart(v, s)') \in Nat
    BY <2>4, FS_CardinalityType
  <2> QED
    BY <1>2, <2>1, <2>3, <2>4, <2>5
<1>5. LoadsKept(s)'
  BY <1>1, <1>2, RestUnseen DEF LoadsKept
<1>6. Holds(s)'
  BY <1>3, <1>4, <1>5, HoldsBySubmit
<1> QED
  BY <1>1, <1>2, <1>6, AsideInv

LEMMA ReviewProfileKeeps ==
  ASSUME IInv, NEW r \in Reviews, ReviewProfile(r)
  PROVE  IInv'
<1> USE DEF IInv
<1>1. r \in Requests /\ r \in Decisions /\ r \notin Bulks \cup Resolves
  BY KindsApart
<1>2. PICK s \in order[r].subs : LoadProfile(r, by[s])
  BY DEF ReviewProfile
<1>3. /\ facts' = facts /\ by' = by /\ status' = status /\ overlapped' = overlapped
      /\ profile' = profile /\ order' = order /\ seen' = seen /\ found' = found /\ decided' = decided
      /\ pc[r] = "profile" /\ pc'[r] = "commit" /\ r \in InFlight /\ InFlight' = InFlight
      /\ TypeOK' /\ FlightsKnown' /\ Aside(r) /\ Rows' = Rows
      /\ \A q \in Requests \ {r} : counted'[q] = counted[q]
      /\ by[s] \in Volunteers => counted'[r] = profile[by[s]]
  BY <1>1, <1>2, LoadProfileEffect
<1>4. LoadsKept(r) /\ OrderKept(r)
  BY <1>1 DEF HoldsInOrder, Holds
<1>5. \A t : Overtaken(r, t)' <=> Overtaken(r, t)
  BY <1>3 DEF Overtaken
<1>6. LoadsKept(r)'
  BY <1>3, <1>4, <1>5 DEF LoadsKept
<1>7. OrderKept(r)'
  BY <1>1, <1>3, <1>4 DEF OrderKept
<1>8. order[r].subs = {s}
  BY <1>2, <1>3, <1>4 DEF OrderKept
<1>9. CreditKept(r)'
  BY <1>3, <1>8 DEF CreditKept
<1>10. Holds(r)'
  BY <1>1, <1>6, <1>7, <1>9, HoldsByDecision
<1> QED
  BY <1>1, <1>3, <1>10, AsideInv

\* A verdict approves or rejects.
LEMMA Verdicts == \A action : Verdict(action) \in {"APPROVED", "REJECTED"}
BY DEF Verdict

LEMMA LoadSubmissionsKeeps ==
  ASSUME IInv, NEW r \in Reviews \cup Bulks, NEW subs, NEW action, NEW step,
         r \in Reviews => step = "profile" /\ \E s \in Submits : subs = {s},
         r \in Bulks => step = "commit",
         LoadSubmissions(r, subs, action, step)
  PROVE  IInv'
<1> USE DEF IInv
<1> DEFINE o == [subs |-> subs, action |-> Verdict(action), primary |-> None]
           loaded == [s \in Submits |-> IF s \in subs THEN status[s] ELSE "NONE"]
<1>1. /\ facts' = facts /\ by' = by /\ status' = status /\ subs \subseteq Rows
      /\ flagged' = flagged /\ duplicate' = duplicate /\ profile' = profile /\ reviews' = reviews
      /\ order' = [order EXCEPT ![r] = o] /\ seen' = [seen EXCEPT ![r] = loaded]
      /\ found' = found /\ counted' = counted /\ decided' = decided
  BY DEF LoadSubmissions, rows
<1>2. /\ r \in Requests /\ r \in Decisions /\ r \notin Submits /\ r \notin Resolves
      /\ r \in Reviews => r \notin Bulks
  BY KindsApart
<1>3. step \in Step \ {"new", "done"} /\ Begin(r, step)
  BY DEF Step, LoadSubmissions
<1>4. /\ pc' \in [Requests -> Step] /\ pc[r] = "new" /\ pc'[r] = step /\ r \in InFlight'
      /\ \A q \in Requests \ {r} : pc'[q] = pc[q]
      /\ overlapped' \subseteq SUBSET Requests /\ FlightsKnown'
      /\ \A p, q \in Requests \ {r} : {p, q} \in overlapped' <=> {p, q} \in overlapped
  BY <1>2, <1>3, BeginEffect
<1>5. o \in Order /\ loaded \in [Submits -> Status \cup {"NONE"}]
  BY <1>1, Typed, Verdicts DEF Order, Status
<1>6. /\ order' \in [Requests -> Order] /\ seen' \in [Requests -> [Submits -> Status \cup {"NONE"}]]
      /\ order'[r] = o /\ seen'[r] = loaded
      /\ \A q \in Requests \ {r} : order'[q] = order[q] /\ seen'[q] = seen[q]
  BY <1>1, <1>2, <1>5, Typed
<1>7. /\ order'[r].subs = subs /\ order'[r].action \in {"APPROVED", "REJECTED"}
      /\ \A s \in Submits : seen'[r][s] = IF s \in subs THEN status[s] ELSE "NONE"
  BY <1>6, Verdicts
<1> HIDE DEF o, loaded
<1>8. TypeOK'
  BY <1>1, <1>4, <1>6, Typed DEF TypeOK
<1>9. Aside(r)
  BY <1>1, <1>3, <1>4, Typed DEF Aside
<1>10. Rows' = Rows
  BY <1>1 DEF Rows
<1>11. LoadsKept(r)'
  BY <1>1, <1>2, <1>4, <1>7, <1>10 DEF LoadsKept
<1>12. OrderKept(r)'
  <2>1. \A s \in subs : seen'[r][s] # "NONE"
    BY <1>1, <1>7 DEF Rows
  <2> QED
    BY <1>2, <1>7, <2>1 DEF OrderKept
<1>13. CreditKept(r)'
  BY <1>2, <1>4, KindsApart DEF CreditKept
<1>14. Holds(r)'
  BY <1>2, <1>11, <1>12, <1>13, HoldsByDecision
<1> QED
  BY <1>1, <1>2, <1>4, <1>6, <1>8, <1>9, <1>14, AsideInv

LEMMA ReviewReadKeeps ==
  ASSUME IInv, NEW r \in Reviews, NEW s \in Rows, NEW action, ReviewRead(r, s, action)
  PROVE  IInv'
<1>1. s \in Submits /\ r \notin Bulks /\ LoadSubmissions(r, {s}, action, "profile")
  BY KindsApart DEF ReviewRead, Rows
<1> QED
  BY <1>1, LoadSubmissionsKeeps

LEMMA BulkReadKeeps ==
  ASSUME IInv, NEW r \in Bulks, NEW subs, NEW action, BulkRead(r, subs, action)
  PROVE  IInv'
<1>1. r \notin Reviews /\ LoadSubmissions(r, subs, action, "commit")
  BY KindsApart DEF BulkRead
<1> QED
  BY <1>1, LoadSubmissionsKeeps

LEMMA ResolveReadKeeps ==
  ASSUME IInv, NEW d \in Resolves, NEW b \in Rows, NEW action \in Resolution, NEW p \in Rows,
         ResolveRead(d, b, action, p)
  PROVE  IInv'
<1> USE DEF IInv
<1> DEFINE o == [subs |-> {b}, action |-> action, primary |-> IF action = "MERGED" THEN p ELSE None]
<1>1. /\ facts' = facts /\ by' = by /\ status' = status /\ duplicate[b] # None
      /\ flagged' = flagged /\ duplicate' = duplicate /\ profile' = profile /\ reviews' = reviews
      /\ order' = [order EXCEPT ![d] = o] /\ found' = [found EXCEPT ![d] = duplicate[b]]
      /\ seen' = seen /\ counted' = counted /\ decided' = decided
  BY DEF ResolveRead, rows
<1>2. d \in Requests /\ d \in Decisions /\ d \notin Submits /\ d \notin Reviews /\ d \notin Bulks
  BY KindsApart
<1>3. "record a" \in Step \ {"new", "done"} /\ Begin(d, "record a")
  BY DEF Step, ResolveRead
<1>4. /\ pc' \in [Requests -> Step] /\ pc[d] = "new" /\ pc'[d] = "record a"
      /\ \A q \in Requests \ {d} : pc'[q] = pc[q]
      /\ overlapped' \subseteq SUBSET Requests /\ FlightsKnown'
      /\ \A q1, q2 \in Requests \ {d} : {q1, q2} \in overlapped' <=> {q1, q2} \in overlapped
  BY <1>2, <1>3, BeginEffect
<1>5. o \in Order /\ b \in Submits /\ duplicate[b] \in Match /\ duplicate[b].a \in Rows /\ duplicate[b].a # b
  BY <1>1, Typed DEF Order, RowsInOrder
<1>6. /\ order' \in [Requests -> Order] /\ found' \in [Requests -> Match \cup {None}]
      /\ order'[d] = o /\ found'[d] = duplicate[b]
      /\ \A q \in Requests \ {d} : order'[q] = order[q] /\ found'[q] = found[q]
  BY <1>1, <1>2, <1>5, Typed
<1>7. order'[d].subs = {b} /\ order'[d].action \in Resolution
  BY <1>6
<1> HIDE DEF o
<1>8. TypeOK'
  BY <1>1, <1>4, <1>6, Typed DEF TypeOK
<1>9. Aside(d)
  BY <1>1, <1>4, Typed DEF Aside
<1>10. Rows' = Rows
  BY <1>1 DEF Rows
<1>11. LoadsKept(d)'
  <2>1. d \notin InFlight
    BY <1>4 DEF InFlight
  <2> QED
    BY <1>1, <1>2, <2>1, RestUnseen DEF LoadsKept
<1>12. OrderKept(d)'
  BY <1>1, <1>2, <1>4, <1>5, <1>6, <1>7, <1>10 DEF OrderKept
<1>13. CreditKept(d)'
  BY <1>2 DEF CreditKept
<1>14. Holds(d)'
  BY <1>2, <1>11, <1>12, <1>13, HoldsByDecision
<1> QED
  BY <1>1, <1>2, <1>4, <1>6, <1>8, <1>9, <1>14, AsideInv

\* A resolution loads the submission s.
LEMMA LoadRecordKeeps ==
  ASSUME IInv, NEW d \in Resolves, NEW s \in Rows, NEW here, NEW next, LoadRecord(d, s, here, next),
         \/ here = "record a" /\ next = "record b" /\ s = found[d].a
         \/ here = "record b" /\ next = "commit" /\ s \in order[d].subs
  PROVE  IInv'
<1> USE DEF IInv
<1>1. /\ facts' = facts /\ by' = by /\ status' = status /\ overlapped' = overlapped
      /\ flagged' = flagged /\ duplicate' = duplicate /\ profile' = profile /\ reviews' = reviews
      /\ order' = order /\ counted' = counted /\ found' = found /\ decided' = decided
      /\ seen' = [seen EXCEPT ![d][s] = status[s]] /\ pc[d] = here
  BY DEF LoadRecord, rows, history
<1>2. d \in Requests /\ d \in Decisions /\ d \notin Submits /\ d \notin Reviews /\ d \notin Bulks
  BY KindsApart
<1>3. d \in InFlight /\ next \in Step \ {"new", "done"} /\ Goto(d, next)
  BY <1>1, <1>2 DEF InFlight, Step, LoadRecord
<1>4. /\ pc' \in [Requests -> Step] /\ pc'[d] = next /\ \A q \in Requests \ {d} : pc'[q] = pc[q]
      /\ InFlight' = InFlight /\ FlightsKnown'
  BY <1>1, <1>3, GotoEffect
<1>5. s \in Submits /\ status[s] \in Status \cup {"NONE"} /\ status[s] # "NONE"
  BY Typed DEF Rows
<1>6. /\ seen' \in [Requests -> [Submits -> Status \cup {"NONE"}]]
      /\ seen'[d][s] = status[s] /\ \A t \in Submits \ {s} : seen'[d][t] = seen[d][t]
      /\ \A q \in Requests \ {d} : seen'[q] = seen[q]
  BY <1>1, <1>2, <1>5, Typed
<1>7. TypeOK'
  BY <1>1, <1>4, <1>6, Typed DEF TypeOK
<1>8. Aside(d)
  BY <1>1, <1>3, <1>4 DEF Aside, InFlight
<1>9. Rows' = Rows /\ \A t : Overtaken(d, t)' <=> Overtaken(d, t)
  BY <1>1 DEF Rows, Overtaken
<1>10. LoadsKept(d) /\ OrderKept(d)
  BY <1>2 DEF HoldsInOrder, Holds
<1>11. LoadsKept(d)'
  <2> SUFFICES ASSUME NEW t \in Submits, seen'[d][t] # "NONE"
               PROVE  /\ d \in InFlight' /\ d \notin Submits /\ t \in Rows'
                      /\ seen'[d][t] # "DUPLICATE" => status'[t] # "DUPLICATE"
                      /\ seen'[d][t] = status'[t] \/ Overtaken(d, t)'
    BY DEF LoadsKept
  <2>1. CASE t = s
    BY <2>1, <1>1, <1>2, <1>3, <1>4, <1>6, <1>9
  <2>2. CASE t # s
    <3>1. seen'[d][t] = seen[d][t]
      BY <2>2, <1>6
    <3> QED
      BY <3>1, <1>1, <1>4, <1>9, <1>10 DEF LoadsKept
  <2> QED
    BY <2>1, <2>2
<1>12. OrderKept(d)'
  <2>1. /\ order[d].action \in Resolution /\ found[d] # None /\ found[d].a \in Rows
        /\ \E b \in Rows : order[d].subs = {b} /\ found[d].a # b /\ duplicate[b] # None
        /\ pc[d] \in {"record b", "commit"} => seen[d][found[d].a] # "NONE"
    BY <1>2, <1>3, <1>10 DEF OrderKept
  <2>2. found[d].a \in Submits
    BY <2>1, Typed
  <2>3. pc'[d] \in {"record b", "commit"} => seen'[d][found[d].a] # "NONE"
    BY <1>1, <1>4, <1>5, <1>6, <2>1, <2>2
  <2>4. pc'[d] = "commit" => \A b \in order[d].subs : seen'[d][b] # "NONE"
    BY <1>4, <1>5, <1>6, <2>1
  <2> QED
    BY <1>1, <1>2, <1>9, <2>1, <2>3, <2>4 DEF OrderKept
<1>13. CreditKept(d)'
  BY <1>2 DEF CreditKept
<1>14. Holds(d)'
  BY <1>2, <1>11, <1>12, <1>13, HoldsByDecision
<1> QED
  BY <1>1, <1>2, <1>6, <1>4, <1>7, <1>8, <1>14, AsideInv

LEMMA ResolveReadAKeeps ==
  ASSUME IInv, NEW d \in Resolves, ResolveReadA(d)
  PROVE  IInv'
<1>1. d \in InFlight /\ OrderKept(d) /\ LoadRecord(d, found[d].a, "record a", "record b")
  BY KindsApart DEF InFlight, IInv, HoldsInOrder, Holds, ResolveReadA, LoadRecord
<1>2. found[d].a \in Rows
  BY <1>1 DEF OrderKept
<1> QED
  BY <1>1, <1>2, LoadRecordKeeps

LEMMA ResolveReadBKeeps ==
  ASSUME IInv, NEW d \in Resolves, ResolveReadB(d)
  PROVE  IInv'
<1>1. PICK b \in order[d].subs : LoadRecord(d, b, "record b", "commit")
  BY DEF ResolveReadB
<1>2. d \in InFlight /\ OrderKept(d)
  BY <1>1, KindsApart DEF InFlight, IInv, HoldsInOrder, Holds, LoadRecord
<1>3. b \in Rows
  BY <1>1, <1>2 DEF OrderKept
<1> QED
  BY <1>1, <1>3, LoadRecordKeeps

LEMMA AbortKeeps ==
  ASSUME IInv, NEW r \in Requests, Abort(r)
  PROVE  IInv'
<1> USE DEF IInv
<1>1. /\ status' = status /\ flagged' = flagged /\ duplicate' = duplicate /\ profile' = profile
      /\ reviews' = reviews /\ decided' = decided
      /\ facts' = [s \in Submits |-> IF s = r THEN None ELSE facts[s]]
      /\ by' = [s \in Submits |-> IF s = r THEN None ELSE by[s]]
      /\ overlapped' = {p \in overlapped : r \notin p}
      /\ r \in InFlight /\ End(r, "new")
  BY DEF Abort
<1>2. \A p, q \in Requests \ {r} : {p, q} \in overlapped' <=> {p, q} \in overlapped
  BY <1>1
<1>3. /\ pc' \in [Requests -> Step] /\ pc'[r] = "new"
      /\ \A q \in Requests \ {r} : /\ pc'[q] = pc[q] /\ order'[q] = order[q] /\ seen'[q] = seen[q]
                                   /\ found'[q] = found[q] /\ counted'[q] = counted[q]
      /\ seen'[r] = Unseen /\ found'[r] = None
      /\ order' \in [Requests -> Order] /\ seen' \in [Requests -> [Submits -> Status \cup {"NONE"}]]
      /\ found' \in [Requests -> Match \cup {None}] /\ counted' \in [Requests -> Counters]
      /\ FlightsKnown'
  BY <1>1, <1>2, EndEffect
<1>4. TypeOK'
  BY <1>1, <1>3, Typed DEF TypeOK
<1>5. Aside(r)
  BY <1>1, <1>2, <1>3 DEF Aside, InFlight
<1>6. Holds(r)'
  BY <1>3, RestHolds
<1> QED
  BY <1>3, <1>4, <1>5, <1>6, AsideInv

-----------------------------------------------------------------------------
(***************************************************************************)
(* A submission is committed.                                              *)
(***************************************************************************)
LEMMA SubmitCommitEffect ==
  ASSUME IInv, NEW s \in Submits, SubmitCommit(s)
  PROVE  /\ s \in InFlight /\ s \notin Rows /\ s \in Requests /\ pc[s] = "commit"
         /\ status'[s] = (IF found[s] # None THEN "DUPLICATE" ELSE "SUBMITTED") /\ duplicate'[s] = found[s]
         /\ \A t \in Submits \ {s} : status'[t] = status[t] /\ duplicate'[t] = duplicate[t]
         /\ facts' = facts /\ by' = by /\ decided' = decided /\ overlapped' = overlapped
         /\ \A v \in Volunteers :
              /\ profile'[v].approved = profile[v].approved /\ profile'[v].rejected = profile[v].rejected
              /\ profile'[v].total = IF v = by[s] THEN counted[s].total + 1 ELSE profile[v].total
         /\ pc'[s] = "done" /\ InFlight' = InFlight \ {s} /\ seen'[s] = Unseen /\ found'[s] = None
         /\ \A q \in Requests \ {s} : /\ pc'[q] = pc[q] /\ order'[q] = order[q] /\ seen'[q] = seen[q]
                                      /\ found'[q] = found[q] /\ counted'[q] = counted[q]
         /\ FlightsKnown' /\ TypeOK'
<1> USE DEF IInv
<1> DEFINE suspect == found[s] # None
<1>1. /\ status' = [status EXCEPT ![s] = IF suspect THEN "DUPLICATE" ELSE "SUBMITTED"]
      /\ flagged' = [flagged EXCEPT ![s] = suspect]
      /\ duplicate' = [duplicate EXCEPT ![s] = found[s]]
      /\ profile' = [v \in Volunteers |->
                       IF v = by[s] THEN Collected(profile[v], s, suspect) ELSE profile[v]]
      /\ facts' = facts /\ by' = by /\ reviews' = reviews /\ decided' = decided /\ overlapped' = overlapped
      /\ pc[s] = "commit" /\ End(s, "done")
  BY DEF SubmitCommit, history
<1>2. s \in Requests /\ s \in InFlight /\ s \notin Rows
  BY <1>1, KindsApart DEF InFlight, RowsInOrder
<1>3. /\ pc' \in [Requests -> Step] /\ pc'[s] = "done"
      /\ \A q \in Requests \ {s} : /\ pc'[q] = pc[q] /\ order'[q] = order[q] /\ seen'[q] = seen[q]
                                   /\ found'[q] = found[q] /\ counted'[q] = counted[q]
      /\ seen'[s] = Unseen /\ found'[s] = None
      /\ order' \in [Requests -> Order] /\ seen' \in [Requests -> [Submits -> Status \cup {"NONE"}]]
      /\ found' \in [Requests -> Match \cup {None}] /\ counted' \in [Requests -> Counters]
      /\ InFlight' = InFlight \ {s} /\ FlightsKnown'
  BY <1>1, <1>2, EndEffect
<1>4. /\ status' \in [Submits -> Status \cup {"NONE"}] /\ flagged' \in [Submits -> BOOLEAN]
      /\ duplicate' \in [Submits -> Match \cup {None}]
      /\ status'[s] = (IF suspect THEN "DUPLICATE" ELSE "SUBMITTED") /\ duplicate'[s] = found[s]
      /\ \A t \in Submits \ {s} : status'[t] = status[t] /\ duplicate'[t] = duplicate[t]
  BY <1>1, <1>2, Typed DEF Status
<1>5. \A c \in Counters :
        /\ Collected(c, s, suspect) \in Counters
        /\ Collected(c, s, suspect).approved = c.approved /\ Collected(c, s, suspect).rejected = c.rejected
        /\ Collected(c, s, suspect).total = counted[s].total + 1
  <2>1. counted[s].total + 1 \in Nat /\ counted[s].duplicates + 1 \in Nat
    BY <1>2, Typed, Fields
  <2> TAKE c \in Counters
  <2>2. c.duplicates \in Nat
    BY Fields
  <2>3. /\ [c EXCEPT !.total = counted[s].total + 1, !.duplicates = counted[s].duplicates + 1] \in Counters
        /\ [c EXCEPT !.total = counted[s].total + 1, !.duplicates = c.duplicates] \in Counters
    BY <2>1, <2>2 DEF Counters
  <2>4. c \in [{"total", "duplicates", "approved", "rejected"} -> Nat]
    BY DEF Counters
  <2> QED
    BY <2>1, <2>3, <2>4 DEF Collected
<1>6. /\ profile' \in [Volunteers -> Counters]
      /\ \A v \in Volunteers :
              /\ profile'[v].approved = profile[v].approved /\ profile'[v].rejected = profile[v].rejected
              /\ profile'[v].total = IF v = by[s] THEN counted[s].total + 1 ELSE profile[v].total
  BY <1>1, <1>5, Typed
<1>7. TypeOK'
  BY <1>1, <1>3, <1>4, <1>6, Typed DEF TypeOK
<1> QED
  BY <1>1, <1>2, <1>3, <1>4, <1>6, <1>7

LEMMA SubmitCommitKeeps ==
  ASSUME IInv, NEW s \in Submits, SubmitCommit(s)
  PROVE  IInv'
<1> USE DEF IInv
<1>1. /\ s \in InFlight /\ s \notin Rows /\ s \in Requests /\ pc[s] = "commit"
      /\ status'[s] = (IF found[s] # None THEN "DUPLICATE" ELSE "SUBMITTED") /\ duplicate'[s] = found[s]
      /\ \A t \in Submits \ {s} : status'[t] = status[t] /\ duplicate'[t] = duplicate[t]
      /\ facts' = facts /\ by' = by /\ decided' = decided /\ overlapped' = overlapped
      /\ \A v \in Volunteers :
           /\ profile'[v].approved = profile[v].approved /\ profile'[v].rejected = profile[v].rejected
           /\ profile'[v].total = IF v = by[s] THEN counted[s].total + 1 ELSE profile[v].total
      /\ pc'[s] = "done" /\ InFlight' = InFlight \ {s} /\ seen'[s] = Unseen /\ found'[s] = None
      /\ \A q \in Requests \ {s} : /\ pc'[q] = pc[q] /\ order'[q] = order[q] /\ seen'[q] = seen[q]
                                   /\ found'[q] = found[q] /\ counted'[q] = counted[q]
      /\ FlightsKnown' /\ TypeOK'
  BY SubmitCommitEffect
<1>2. Rows' = Rows \cup {s} /\ Rows \subseteq Submits /\ IsFiniteSet(Rows) /\ IsFiniteSet(Rows')
  <2>1. Rows' = Rows \cup {s}
    BY <1>1 DEF Rows
  <2> QED
    BY <2>1, Typed, FS_AddElement DEF RowsInOrder
<1>3. Holds(s)
  BY <1>1 DEF HoldsInOrder
<1>4. \A v : CollectedBy(v)' = CollectedBy(v) \cup {t \in {s} : by[t] = v}
  BY <1>1, <1>2 DEF CollectedBy
<1>5. \A v : CollectedBy(v) \subseteq Rows /\ s \notin CollectedBy(v)
  BY <1>1 DEF CollectedBy
<1>6. \A q \in InFlight \cap Submits : q # s => {q, s} \in overlapped
  BY <1>1 DEF FlightsKnown
<1>7. ResolvedLeavesQueue'
  <2>1. found[s] # None => found[s].resolution = "POSSIBLE_DUPLICATE"
    BY <1>3 DEF Holds, ScanKept
  <2>2. \A t \in Rows : t # s /\ t \in Submits
    BY <1>1, <1>2
  <2> QED
    BY <1>1, <1>2, <2>1, <2>2 DEF ResolvedLeavesQueue
<1>8. CollectionCounted'
  <2> SUFFICES ASSUME NEW v \in Volunteers
               PROVE  profile'[v].total \in Cardinality(Solo(v)')..Cardinality(CollectedBy(v)')
    BY TotalsMean
  <2>1. profile[v].total \in Cardinality(Solo(v))..Cardinality(CollectedBy(v))
    BY TotalsMean
  <2>2. CASE v # by[s]
    <3>1. CollectedBy(v)' = CollectedBy(v)
      BY <2>2, <1>4
    <3>2. Solo(v)' = Solo(v)
      BY <3>1, <1>1 DEF Solo
    <3> QED
      BY <2>1, <2>2, <3>1, <3>2, <1>1
  <2>3. CASE v = by[s]
    <3>1. CollectedBy(v)' = CollectedBy(v) \cup {s}
      BY <2>3, <1>4
    <3>2. IsFiniteSet(CollectedBy(v)) /\ Cardinality(CollectedBy(v)) \in Nat /\ IsFiniteSet(Solo(v))
      BY <1>2, Finite
    <3>3. Cardinality(CollectedBy(v)') = Cardinality(CollectedBy(v)) + 1
      BY <3>1, <3>2, <1>5, FS_AddElement
    <3>4. /\ counted[s].total <= Cardinality(CollectedBy(v)) /\ Cardinality(SoloApart(v, s)) <= counted[s].total
      BY <1>1, <1>3, <2>3 DEF Holds, TotalKept
    <3>5. Solo(v)' \subseteq SoloApart(v, s) \cup {s}
      <4> SUFFICES ASSUME NEW t \in Solo(v)', t # s
                   PROVE  t \in SoloApart(v, s)
        OBVIOUS
      <4>1. t \in CollectedBy(v) /\ \A x \in CollectedBy(v) \cup {s} : x # t => {t, x} \notin overlapped
        BY <3>1, <1>1 DEF Solo
      <4>2. {s, t} = {t, s}
        OBVIOUS
      <4> QED
        BY <4>1, <4>2 DEF SoloApart, Solo
    <3>6. IsFiniteSet(SoloApart(v, s)) /\ s \notin SoloApart(v, s)
      BY <3>2, <1>5, FS_Subset DEF SoloApart, Solo
    <3>7. /\ IsFiniteSet(SoloApart(v, s) \cup {s}) /\ Cardinality(SoloApart(v, s)) \in Nat
          /\ Cardinality(SoloApart(v, s) \cup {s}) = Cardinality(SoloApart(v, s)) + 1
      BY <3>6, FS_AddElement, FS_CardinalityType
    <3>8. Cardinality(Solo(v)') \in Nat /\ Cardinality(Solo(v)') <= Cardinality(SoloApart(v, s)) + 1
      BY <3>5, <3>7, FS_Subset, FS_CardinalityType
    <3>9. counted[s].total \in Nat /\ profile'[v].total = counted[s].total + 1
      BY <1>1, <2>3, Typed, Fields
    <3> QED
      BY <3>2, <3>3, <3>4, <3>7, <3>8, <3>9
  <2> QED
    BY <2>2, <2>3
<1>9. CreditsMatchStatus'
  <2>1. \A v : With(v, "APPROVED")' = With(v, "APPROVED") /\ With(v, "REJECTED")' = With(v, "REJECTED")
    <3>1. \A v : \A t \in CollectedBy(v) : t # s /\ t \in Submits
      BY <1>1, <1>2, <1>5
    <3>2. status'[s] \notin {"APPROVED", "REJECTED"}
      BY <1>1
    <3> QED
      BY <1>1, <1>4, <3>1, <3>2 DEF With
  <2>2. ASSUME NEW v, Clean(v)'
        PROVE  Clean(v)
    BY <1>1, <1>4, <2>2 DEF Clean
  <2> QED
    BY <1>1, <2>1, <2>2, CreditsMean
<1>10. DuplicatesSuspected'
  <2>1. \A t \in Rows : \A x \in Signal :
          Agree(s, t, x) => found[s] # None \/ {s, t} \in overlapped
    <3>1. \A i \in 1..Len(Signals) : Passed(s, i)
      BY <1>1 DEF Passed
    <3>2. \A t \in Rows : t # s
      BY <1>1
    <3> QED
      BY <1>3, <3>1, <3>2, SignalsNumbered DEF Holds, ScanKept
  <2>2. \A t \in Rows : t # s /\ t \in Submits /\ {s, t} = {t, s}
    BY <1>1, <1>2
  <2> SUFFICES ASSUME NEW p \in Rows', NEW q \in Rows', p # q, NEW x \in Signal,
                      Agree(p, q, x)
               PROVE  duplicate'[p] # None \/ duplicate'[q] # None \/ {p, q} \in overlapped
    BY <1>1 DEF DuplicatesSuspected, Agree
  <2>3. CASE p = s
    BY <2>1, <2>3, <1>1, <1>2
  <2>4. CASE q = s
    <3>1. Agree(q, p, x)
      BY DEF Agree
    <3> QED
      BY <2>1, <2>2, <2>4, <3>1, <1>1, <1>2
  <2>5. CASE p # s /\ q # s
    BY <2>5, <1>1, <1>2 DEF DuplicatesSuspected, Agree
  <2> QED
    BY <2>3, <2>4, <2>5
<1>11. RowsInOrder'
  <2>1. \A t \in Submits : t \in Rows' <=> pc'[t] = "done"
    BY <1>1, <1>2, KindsApart DEF RowsInOrder
  <2>2. found[s] # None => found[s].a \in Rows /\ found[s].a # s
    BY <1>3 DEF Holds, ScanKept
  <2>3. \A t \in Submits : duplicate'[t] # None => duplicate'[t].a \in Rows' /\ duplicate'[t].a # t
    BY <1>1, <1>2, <2>2 DEF RowsInOrder
  <2> QED
    BY <1>2, <2>1, <2>3 DEF RowsInOrder
<1>12. DecisionsInOrder'
  BY <1>1, Typed, KindsApart DEF DecisionsInOrder
<1>13. HoldsInOrder'
  <2> SUFFICES ASSUME NEW q \in Requests PROVE Holds(q)'
    BY DEF HoldsInOrder
  <2>1. CASE q = s
    BY <2>1, <1>1, RestHolds
  <2>2. CASE q # s
    <3>1. /\ pc'[q] = pc[q] /\ order'[q] = order[q] /\ seen'[q] = seen[q]
          /\ found'[q] = found[q] /\ counted'[q] = counted[q] /\ (q \in InFlight' <=> q \in InFlight)
      BY <2>2, <1>1
    <3>2. Holds(q)
      BY DEF HoldsInOrder
    <3>3. \A t : Overtaken(q, t)' <=> Overtaken(q, t)
      BY <1>1 DEF Overtaken
    <3>4. LoadsKept(q)'
      BY <1>1, <1>2, <3>1, <3>2, <3>3 DEF Holds, LoadsKept
    <3>5. OrderKept(q)'
      <4>1. \A b \in Rows : duplicate'[b] = duplicate[b]
        BY <1>1, <1>2
      <4> QED
        BY <1>2, <3>1, <3>2, <4>1 DEF Holds, OrderKept
    <3>6. ScanKept(q)'
      <4> SUFFICES ASSUME q \in Submits PROVE ScanKept(q)'
        BY DEF ScanKept
      <4>1. ScanKept(q)
        BY <3>2 DEF Holds
      <4>2. \A i \in 1..Len(Signals) : Passed(q, i)' <=> Passed(q, i)
        BY <3>1 DEF Passed
      <4>3. \A x : \A t \in Rows : Agree(q, t, x)' <=> Agree(q, t, x)
        BY <1>1 DEF Agree
      <4>4. ASSUME NEW i \in 1..Len(Signals), Passed(q, i)
            PROVE  q \in InFlight
        <5>1. \A k \in i+1..Len(Signals) : k \in 1..Len(Signals)
          BY SignalsNumbered
        <5>2. \A k \in i+1..Len(Signals) : ScanStep[k] \notin {"new", "done"}
          BY <5>1, ScanSteps
        <5> QED
          BY <4>4, <5>2 DEF Passed, InFlight
      <4>5. ASSUME found[q] = None, NEW i \in 1..Len(Signals), Passed(q, i), NEW t \in Rows',
                   t # q, Agree(q, t, Signals[i])'
            PROVE  {q, t} \in overlapped
        <5>1. CASE t = s
          BY <5>1, <4>4, <4>5, <2>2, <1>6
        <5>2. CASE t # s
          BY <5>2, <4>1, <4>3, <4>5, <1>2 DEF ScanKept
        <5> QED
          BY <5>1, <5>2
      <4> QED
        BY <1>1, <1>2, <3>1, <4>1, <4>2, <4>5 DEF ScanKept
    <3>7. TotalKept(q)'
      <4> SUFFICES ASSUME q \in Submits, pc[q] = "commit", by[q] \in Volunteers
                   PROVE  /\ counted[q].total <= Cardinality(CollectedBy(by[q])')
                          /\ Cardinality(SoloApart(by[q], q)') <= counted[q].total
        BY <1>1, <3>1 DEF TotalKept
      <4> DEFINE v == by[q]
      <4>1. counted[q].total <= Cardinality(CollectedBy(v)) /\ Cardinality(SoloApart(v, q)) <= counted[q].total
        BY <3>2 DEF Holds, TotalKept
      <4>2. {q, s} \in overlapped
        BY <1>6, <2>2 DEF InFlight
      <4>3. CollectedBy(v) \subseteq CollectedBy(v)' /\ CollectedBy(v)' \subseteq CollectedBy(v) \cup {s}
        BY <1>1, <1>2 DEF CollectedBy
      <4>4. SoloApart(v, q)' \subseteq SoloApart(v, q)
        BY <1>1, <4>2, <4>3 DEF SoloApart, Solo
      <4>5. IsFiniteSet(CollectedBy(v)) /\ IsFiniteSet(CollectedBy(v)') /\ IsFiniteSet(SoloApart(v, q))
        <5>1. IsFiniteSet(CollectedBy(v)) /\ IsFiniteSet(CollectedBy(v)')
          BY <1>2, FS_Subset DEF CollectedBy
        <5> QED
          BY <5>1, FS_Subset DEF SoloApart, Solo
      <4>6. /\ Cardinality(CollectedBy(v)) <= Cardinality(CollectedBy(v)')
            /\ Cardinality(SoloApart(v, q)') <= Cardinality(SoloApart(v, q))
            /\ IsFiniteSet(SoloApart(v, q)')
        BY <4>3, <4>4, <4>5, FS_Subset
      <4>7. /\ Cardinality(CollectedBy(v)) \in Nat /\ Cardinality(CollectedBy(v)') \in Nat
            /\ Cardinality(SoloApart(v, q)) \in Nat /\ Cardinality(SoloApart(v, q)') \in Nat
            /\ counted[q].total \in Nat
        BY <4>5, <4>6, FS_CardinalityType, Typed, Fields
      <4> QED
        BY <4>1, <4>6, <4>7, <1>1
    <3>8. CreditKept(q)'
      <4>1. \A v : Crossed(q, v) => Crossed(q, v)'
        BY <1>4, <3>3 DEF Crossed
      <4>2. CreditKept(q)
        BY <3>2 DEF Holds
      <4> QED
        BY <1>1, <3>1, <4>1, <4>2 DEF CreditKept
    <3> QED
      BY <3>4, <3>5, <3>6, <3>7, <3>8 DEF Holds
  <2> QED
    BY <2>1, <2>2
<1> QED
  BY <1>1, <1>7, <1>8, <1>9, <1>10, <1>11, <1>12, <1>13

-----------------------------------------------------------------------------
(***************************************************************************)
(* A decision on the submissions of D is committed.                        *)
(***************************************************************************)
Committed(r, D) ==
  /\ r \in InFlight /\ r \in Decisions /\ D \subseteq Rows
  /\ \A s \in Submits : decided'[s] = IF s \in D THEN decided[s] \cup {r} ELSE decided[s]
  /\ \A s \in Submits \ D : status'[s] = status[s]
  /\ \A s \in D : status'[s] = status[s] \/ status'[s] \notin {"NONE", "DUPLICATE"}
  /\ \A s \in Submits :
       /\ duplicate'[s] # None <=> duplicate[s] # None
       /\ duplicate[s] # None => duplicate'[s].a = duplicate[s].a
  /\ facts' = facts /\ by' = by /\ overlapped' = overlapped
  /\ \A v \in Volunteers : profile'[v].total = profile[v].total
  /\ \A v \in Volunteers : profile'[v] = profile[v] \/ \E s \in D : by[s] = v
  /\ pc'[r] = "done" /\ InFlight' = InFlight \ {r} /\ seen'[r] = Unseen /\ found'[r] = None
  /\ \A q \in Requests \ {r} : /\ pc'[q] = pc[q] /\ order'[q] = order[q] /\ seen'[q] = seen[q]
                               /\ found'[q] = found[q] /\ counted'[q] = counted[q]
  /\ FlightsKnown' /\ TypeOK'

LEMMA CommittedSame ==
  ASSUME IInv, NEW r, NEW D, Committed(r, D)
  PROVE  /\ r \in Requests /\ r \notin Submits /\ D \subseteq Submits /\ Rows' = Rows
         /\ \A v : CollectedBy(v)' = CollectedBy(v) /\ Solo(v)' = Solo(v)
         /\ \A v : \A s : SoloApart(v, s)' = SoloApart(v, s)
<1> USE DEF Committed
<1>1. r \in Requests /\ r \notin Submits /\ D \subseteq Submits
  BY KindsApart, Typed DEF IInv
<1>2. Rows' = Rows
  BY <1>1 DEF Rows
<1>3. \A v : CollectedBy(v)' = CollectedBy(v)
  BY <1>2 DEF CollectedBy
<1>4. \A v : Solo(v)' = Solo(v)
  BY <1>3 DEF Solo
<1>5. \A v : \A s : SoloApart(v, s)' = SoloApart(v, s)
  BY <1>4 DEF SoloApart
<1> QED
  BY <1>1, <1>2, <1>3, <1>4, <1>5

\* The decision overtakes the other decisions in flight.
LEMMA CommittedOvertakes ==
  ASSUME IInv, NEW r, NEW D, Committed(r, D), NEW q \in Requests \ {r}, NEW t \in Submits
  PROVE  /\ Overtaken(q, t) => Overtaken(q, t)'
         /\ t \in D /\ q \in InFlight /\ q \notin Submits => Overtaken(q, t)'
<1>1. overlapped' = overlapped /\ decided'[t] = IF t \in D THEN decided[t] \cup {r} ELSE decided[t]
  BY DEF Committed
<1>2. r \in InFlight
  BY DEF Committed
<1>3. r \notin Submits
  BY CommittedSame
<1>4. q \in InFlight /\ q \notin Submits => {r, q} \in overlapped
  BY <1>2, <1>3 DEF IInv, FlightsKnown
<1> QED
  BY <1>1, <1>4 DEF Overtaken

LEMMA CommittedOthers ==
  ASSUME IInv, NEW r, NEW D, Committed(r, D), NEW q \in Requests \ {r}
  PROVE  Holds(q)'
<1>1. /\ pc'[q] = pc[q] /\ order'[q] = order[q] /\ seen'[q] = seen[q]
      /\ found'[q] = found[q] /\ counted'[q] = counted[q] /\ (q \in InFlight' <=> q \in InFlight)
      /\ facts' = facts /\ by' = by /\ overlapped' = overlapped
  BY DEF Committed
<1>2. Holds(q) /\ TypeOK
  BY DEF IInv, HoldsInOrder
<1>3. /\ Rows' = Rows /\ Rows \subseteq Submits /\ D \subseteq Rows
      /\ \A v : CollectedBy(v)' = CollectedBy(v) /\ Solo(v)' = Solo(v)
      /\ \A v : \A s : SoloApart(v, s)' = SoloApart(v, s)
  <2>1. D \subseteq Rows
    BY DEF Committed
  <2> QED
    BY <1>2, <2>1, CommittedSame, Typed
<1>4. \A t \in Submits : /\ Overtaken(q, t) => Overtaken(q, t)'
                         /\ t \in D /\ q \in InFlight /\ q \notin Submits => Overtaken(q, t)'
  BY CommittedOvertakes
<1>5. LoadsKept(q)'
  <2> SUFFICES ASSUME NEW t \in Submits, seen[q][t] # "NONE"
               PROVE  /\ q \in InFlight' /\ q \notin Submits /\ t \in Rows'
                      /\ seen[q][t] # "DUPLICATE" => status'[t] # "DUPLICATE"
                      /\ seen[q][t] = status'[t] \/ Overtaken(q, t)'
    BY <1>1 DEF LoadsKept
  <2>1. /\ q \in InFlight /\ q \notin Submits /\ t \in Rows
        /\ seen[q][t] # "DUPLICATE" => status[t] # "DUPLICATE"
        /\ seen[q][t] = status[t] \/ Overtaken(q, t)
    BY <1>2 DEF Holds, LoadsKept
  <2>2. CASE t \in D
    <3>1. status'[t] = status[t] \/ status'[t] # "DUPLICATE"
      BY <2>2 DEF Committed
    <3> QED
      BY <1>1, <1>3, <1>4, <2>1, <2>2, <3>1
  <2>3. CASE t \notin D
    <3>1. status'[t] = status[t]
      BY <2>3 DEF Committed
    <3> QED
      BY <1>1, <1>3, <1>4, <2>1, <3>1
  <2> QED
    BY <2>2, <2>3
<1>6. OrderKept(q)'
  <2>1. \A b \in Rows : duplicate'[b] # None <=> duplicate[b] # None
    BY <1>3 DEF Committed
  <2> QED
    BY <1>1, <1>2, <1>3, <2>1 DEF Holds, OrderKept
<1>7. ScanKept(q)'
  <2>1. \A i : Passed(q, i)' <=> Passed(q, i)
    BY <1>1 DEF Passed
  <2>2. \A t : \A x : Agree(q, t, x)' <=> Agree(q, t, x)
    BY <1>1 DEF Agree
  <2> QED
    BY <1>1, <1>2, <1>3, <2>1, <2>2 DEF Holds, ScanKept
<1>8. TotalKept(q)'
  <2>1. CollectedBy(by[q])' = CollectedBy(by[q]) /\ SoloApart(by[q], q)' = SoloApart(by[q], q)
    BY <1>1, <1>3
  <2> QED
    BY <1>1, <1>2, <2>1 DEF Holds, TotalKept
<1>9. CreditKept(q)'
  <2> SUFFICES ASSUME q \in Reviews, pc[q] = "commit"
               PROVE  \A s \in order[q].subs : by[s] \in Volunteers =>
                        \/ /\ counted[q].approved = profile'[by[s]].approved
                           /\ counted[q].rejected = profile'[by[s]].rejected
                        \/ Crossed(q, by[s])'
    BY <1>1 DEF CreditKept
  <2>1. q \in InFlight /\ q \notin Submits
    BY KindsApart DEF InFlight
  <2>2. \A v : \A t \in CollectedBy(v) : t \in Submits
    BY <1>3 DEF CollectedBy
  <2>3. \A v : Crossed(q, v) => Crossed(q, v)'
    BY <1>3, <1>4, <2>2 DEF Crossed
  <2>4. ASSUME NEW v, NEW t \in D, by[t] = v
        PROVE  Crossed(q, v)'
    <3>1. t \in CollectedBy(v)
      BY <2>4, <1>3 DEF CollectedBy
    <3> QED
      BY <3>1, <1>3, <1>4, <2>1, <2>2 DEF Crossed
  <2>5. \A v \in Volunteers : profile'[v] = profile[v] \/ Crossed(q, v)'
    BY <2>4 DEF Committed
  <2>6. \A s \in order[q].subs : by[s] \in Volunteers =>
          \/ /\ counted[q].approved = profile[by[s]].approved
             /\ counted[q].rejected = profile[by[s]].rejected
          \/ Crossed(q, by[s])
    BY <1>2 DEF Holds, CreditKept
  <2> QED
    BY <1>1, <2>3, <2>5, <2>6
<1> QED
  BY <1>5, <1>6, <1>7, <1>8, <1>9 DEF Holds

LEMMA CommittedKeeps ==
  ASSUME IInv, NEW r, NEW D, Committed(r, D), ResolvedLeavesQueue', CreditsMatchStatus'
  PROVE  IInv'
<1> USE DEF IInv
<1>1. /\ r \in Requests /\ r \notin Submits /\ D \subseteq Submits /\ Rows' = Rows
      /\ \A v : CollectedBy(v)' = CollectedBy(v) /\ Solo(v)' = Solo(v)
  BY CommittedSame
<1>2. CollectionCounted'
  BY <1>1, TotalsMean DEF Committed
<1>3. DuplicatesSuspected'
  <2>1. Rows \subseteq Submits
    BY Typed
  <2> QED
    BY <1>1, <2>1 DEF DuplicatesSuspected, Committed
<1>4. RowsInOrder'
  <2>1. \A s \in Submits : s \in Requests \ {r}
    BY <1>1, KindsApart
  <2>2. \A s \in Submits : pc'[s] = pc[s]
    BY <2>1 DEF Committed
  <2> QED
    BY <1>1, <2>2 DEF RowsInOrder, Committed
<1>5. DecisionsInOrder'
  <2> SUFFICES ASSUME NEW s \in Submits
               PROVE  /\ IsFiniteSet(decided'[s]) /\ \A q \in decided'[s] : pc'[q] = "done"
                      /\ decided'[s] = {} => status'[s] \in {"NONE", "SUBMITTED", "DUPLICATE"}
    BY DEF DecisionsInOrder
  <2>1. decided[s] \subseteq Requests /\ IsFiniteSet(decided[s]) /\ \A q \in decided[s] : pc[q] = "done"
    BY Typed, KindsApart DEF DecisionsInOrder
  <2>2. IsFiniteSet(decided[s] \cup {r})
    BY <2>1, FS_AddElement
  <2>3. decided'[s] = IF s \in D THEN decided[s] \cup {r} ELSE decided[s]
    BY DEF Committed
  <2>4. \A q \in Requests : pc[q] = "done" \/ q = r => pc'[q] = "done"
    BY DEF Committed
  <2>5. decided'[s] = {} => decided[s] = {} /\ status'[s] = status[s]
    BY <2>3 DEF Committed
  <2>6. IsFiniteSet(decided'[s])
    BY <2>1, <2>2, <2>3
  <2>7. \A q \in decided'[s] : pc'[q] = "done"
    BY <1>1, <2>1, <2>3, <2>4
  <2> QED
    BY <2>5, <2>6, <2>7 DEF DecisionsInOrder
<1>6. HoldsInOrder'
  <2>1. Holds(r)'
    BY <1>1, RestHolds DEF Committed
  <2> QED
    BY <2>1, CommittedOthers DEF HoldsInOrder
<1> QED
  BY <1>2, <1>3, <1>4, <1>5, <1>6 DEF Committed

\* The credits of a volunteer with no submission in D are left alone, and so is
\* the condition under which they say something.
LEMMA CommittedElsewhere ==
  ASSUME IInv, NEW r, NEW D, Committed(r, D), NEW v \in Volunteers, \A s \in D : by[s] # v
  PROVE  /\ Clean(v)' => Clean(v)
         /\ With(v, "APPROVED")' = With(v, "APPROVED") /\ With(v, "REJECTED")' = With(v, "REJECTED")
         /\ profile'[v] = profile[v]
<1>1. CollectedBy(v)' = CollectedBy(v) /\ D \subseteq Submits
  BY CommittedSame
<1>2. \A s \in CollectedBy(v) : s \in Submits \ D
  BY Typed DEF CollectedBy, IInv
<1>3. /\ \A s \in CollectedBy(v) : decided'[s] = decided[s] /\ status'[s] = status[s]
      /\ overlapped' = overlapped /\ profile'[v] = profile[v]
  BY <1>2 DEF Committed
<1> QED
  BY <1>1, <1>3 DEF Clean, With

\* A decision that is no review of its own ends what the credits say of those
\* whose submissions it decides.
LEMMA OtherCredits ==
  ASSUME IInv, NEW r, NEW D, Committed(r, D), r \notin Reviews
  PROVE  CreditsMatchStatus'
<1>1. D \subseteq Submits /\ D \subseteq Rows /\ by' = by /\ \A v : CollectedBy(v)' = CollectedBy(v)
  <2>1. D \subseteq Rows /\ by' = by
    BY DEF Committed
  <2> QED
    BY <2>1, CommittedSame
<1>2. ASSUME NEW v \in Volunteers, Clean(v)'
      PROVE  \A s \in D : by[s] # v
  <2> SUFFICES ASSUME NEW s \in D, by[s] = v PROVE FALSE
    OBVIOUS
  <2>1. s \in CollectedBy(v)'
    BY <1>1 DEF CollectedBy
  <2>2. r \in decided'[s]
    BY <1>1 DEF Committed
  <2> QED
    BY <1>2, <2>1, <2>2 DEF Clean
<1>3. ASSUME NEW v \in Volunteers, Clean(v)'
      PROVE  /\ profile'[v].approved = Cardinality(With(v, "APPROVED")')
             /\ profile'[v].rejected = Cardinality(With(v, "REJECTED")')
  <2>1. /\ Clean(v)
        /\ With(v, "APPROVED")' = With(v, "APPROVED") /\ With(v, "REJECTED")' = With(v, "REJECTED")
        /\ profile'[v] = profile[v]
    BY <1>2, <1>3, CommittedElsewhere
  <2> QED
    BY <2>1, CreditsMean DEF IInv
<1> QED
  BY <1>3, CreditsMean

\* What a review or a bulk review makes of the statuses.
LEMMA DecideCommitted ==
  ASSUME IInv, NEW r \in Reviews \cup Bulks, pc[r] = "commit", Decide(r), End(r, "done"),
         flagged' = flagged, facts' = facts, by' = by, duplicate' = duplicate, overlapped' = overlapped,
         profile' \in [Volunteers -> Counters],
         \A v \in Volunteers : /\ profile'[v].total = profile[v].total
                               /\ profile'[v] = profile[v] \/ \E s \in order[r].subs : by[s] = v
  PROVE  Committed(r, order[r].subs) /\ ResolvedLeavesQueue'
<1> USE DEF IInv
<1> DEFINE subs == order[r].subs
           new  == order[r].action
<1>1. r \in InFlight /\ r \in Decisions /\ r \in Requests
  BY KindsApart DEF InFlight
<1>2. /\ pc' \in [Requests -> Step] /\ pc'[r] = "done"
      /\ \A q \in Requests \ {r} : /\ pc'[q] = pc[q] /\ order'[q] = order[q] /\ seen'[q] = seen[q]
                                   /\ found'[q] = found[q] /\ counted'[q] = counted[q]
      /\ seen'[r] = Unseen /\ found'[r] = None
      /\ order' \in [Requests -> Order] /\ seen' \in [Requests -> [Submits -> Status \cup {"NONE"}]]
      /\ found' \in [Requests -> Match \cup {None}] /\ counted' \in [Requests -> Counters]
      /\ InFlight' = InFlight \ {r} /\ FlightsKnown'
  BY <1>1, EndEffect
<1>3. /\ new \in {"APPROVED", "REJECTED"} /\ subs \subseteq Submits
      /\ \A s \in subs : seen[r][s] \in Status /\ seen[r][s] # "NONE"
  <2>1. new \in {"APPROVED", "REJECTED"} /\ \A s \in subs : seen[r][s] # "NONE"
    BY <1>1 DEF HoldsInOrder, Holds, OrderKept
  <2>2. subs \subseteq Submits
    BY <1>1, Typed, Fields
  <2>3. \A s \in Submits : seen[r][s] \in Status \cup {"NONE"}
    BY <1>1, Typed
  <2> QED
    BY <2>1, <2>2, <2>3
<1>4. subs \subseteq Rows
  BY <1>1, <1>3 DEF HoldsInOrder, Holds, LoadsKept
<1>5. /\ status' = [s \in Submits |-> IF s \in subs THEN Written(r, s, new) ELSE status[s]]
      /\ reviews' = reviews \cup {[of |-> s, by |-> r, previous |-> seen[r][s], new |-> new] : s \in subs}
      /\ decided' = [s \in Submits |-> IF s \in subs THEN decided[s] \cup {r} ELSE decided[s]]
  BY DEF Decide
<1> HIDE DEF subs, new
<1>6. reviews' \subseteq Review
  <2>1. \A s \in subs : [of |-> s, by |-> r, previous |-> seen[r][s], new |-> new] \in Review
    BY <1>3 DEF Review, Status
  <2> QED
    BY <1>5, <2>1, Typed
<1>7. /\ status' \in [Submits -> Status \cup {"NONE"}]
      /\ \A s \in Submits \ subs : status'[s] = status[s]
      /\ \A s \in subs : status'[s] = status[s] \/ status'[s] \notin {"NONE", "DUPLICATE"}
  <2>1. \A s \in subs : Written(r, s, new) = status[s] \/ Written(r, s, new) = new
    BY DEF Written
  <2>2. \A s \in subs : Written(r, s, new) \in Status \cup {"NONE"}
    BY <1>3, <2>1, Typed DEF Status
  <2>3. status' \in [Submits -> Status \cup {"NONE"}]
    BY <1>5, <2>2, Typed
  <2>4. \A s \in Submits \ subs : status'[s] = status[s]
    BY <1>5
  <2> QED
    BY <1>3, <1>5, <2>1, <2>3, <2>4
<1>8. /\ decided' \in [Submits -> SUBSET Decisions]
      /\ \A s \in Submits : decided'[s] = IF s \in subs THEN decided[s] \cup {r} ELSE decided[s]
  BY <1>1, <1>5, Typed
<1>9. TypeOK'
  BY <1>2, <1>6, <1>7, <1>8, Typed DEF TypeOK
<1>10. Committed(r, subs)
  <2>1. \A v \in Volunteers : profile'[v] = profile[v] \/ \E s \in subs : by[s] = v
    BY DEF subs
  <2> QED
    BY <1>1, <1>2, <1>4, <1>7, <1>8, <1>9, <2>1 DEF Committed
<1>11. ResolvedLeavesQueue'
  <2>1. \A s \in Submits : status'[s] = "DUPLICATE" => status[s] = "DUPLICATE"
    BY <1>7
  <2>2. Rows' = Rows /\ Rows \subseteq Submits
    BY <1>10, CommittedSame, Typed
  <2> QED
    BY <2>1, <2>2 DEF ResolvedLeavesQueue
<1> QED
  BY <1>10, <1>11 DEF subs

LEMMA BulkCommitKeeps ==
  ASSUME IInv, NEW r \in Bulks, BulkCommit(r)
  PROVE  IInv'
<1>1. /\ pc[r] = "commit" /\ Decide(r) /\ End(r, "done") /\ flagged' = flagged /\ facts' = facts
      /\ by' = by /\ duplicate' = duplicate /\ overlapped' = overlapped /\ profile' = profile
      /\ r \notin Reviews
  BY KindsApart DEF BulkCommit
<1>2. profile' \in [Volunteers -> Counters]
  BY <1>1, Typed DEF IInv
<1>3. Committed(r, order[r].subs) /\ ResolvedLeavesQueue'
  BY <1>1, <1>2, DecideCommitted
<1> QED
  BY <1>1, <1>3, OtherCredits, CommittedKeeps

\* A set with at most one element to which one is added was empty.
LEMMA OneAdded ==
  ASSUME NEW S, IsFiniteSet(S), NEW x, x \notin S, Cardinality(S \cup {x}) <= 1
  PROVE  S = {} /\ Cardinality(S) = 0
<1>1. Cardinality(S) \in Nat /\ Cardinality(S \cup {x}) = Cardinality(S) + 1
  BY FS_AddElement, FS_CardinalityType
<1>2. Cardinality(S) = 0
  BY <1>1
<1> QED
  BY <1>2, FS_EmptySet

\* The review of one submission.
LEMMA ReviewCommitEffect ==
  ASSUME IInv, NEW r \in Reviews, ReviewCommit(r)
  PROVE  \E s \in Submits :
           /\ order[r].subs = {s} /\ Committed(r, {s}) /\ ResolvedLeavesQueue'
           /\ status'[s] = Written(r, s, order[r].action) /\ order[r].action \in {"APPROVED", "REJECTED"}
           /\ seen[r][s] # "NONE"
           /\ by[s] \in Volunteers => profile'[by[s]] = Credited(profile[by[s]], r, order[r].action)
<1> USE DEF IInv
<1>1. /\ pc[r] = "commit" /\ Decide(r) /\ End(r, "done") /\ flagged' = flagged /\ facts' = facts
      /\ by' = by /\ duplicate' = duplicate /\ overlapped' = overlapped
      /\ profile' = [v \in Volunteers |->
                       IF \E s \in order[r].subs : by[s] = v
                         THEN Credited(profile[v], r, order[r].action) ELSE profile[v]]
      /\ r \in Requests /\ r \in InFlight
  BY KindsApart DEF ReviewCommit, InFlight
<1>2. OrderKept(r)
  BY <1>1 DEF HoldsInOrder, Holds
<1>3. PICK s \in Submits : order[r].subs = {s}
  BY <1>1, <1>2 DEF OrderKept
<1>4. order[r].action \in {"APPROVED", "REJECTED"} /\ seen[r][s] # "NONE"
  BY <1>1, <1>2, <1>3 DEF OrderKept
<1>5. counted[r].approved + 1 \in Nat /\ counted[r].rejected + 1 \in Nat
  BY <1>1, Typed, Fields
<1>6. \A c \in Counters : Credited(c, r, order[r].action) \in Counters
                          /\ Credited(c, r, order[r].action).total = c.total
  BY <1>5 DEF Credited, Counters
<1>7. /\ profile' \in [Volunteers -> Counters]
      /\ \A v \in Volunteers : /\ profile'[v].total = profile[v].total
                               /\ profile'[v] = profile[v] \/ \E t \in order[r].subs : by[t] = v
  BY <1>1, <1>6, Typed
<1>8. Committed(r, {s}) /\ ResolvedLeavesQueue'
  <2>1. Committed(r, order[r].subs) /\ ResolvedLeavesQueue'
    BY <1>1, <1>7, DecideCommitted
  <2> QED
    BY <1>3, <2>1
<1>9. status'[s] = Written(r, s, order[r].action)
  BY <1>1, <1>3 DEF Decide
<1>10. by[s] \in Volunteers => profile'[by[s]] = Credited(profile[by[s]], r, order[r].action)
  BY <1>1, <1>3
<1> QED
  BY <1>3, <1>4, <1>8, <1>9, <1>10

LEMMA ReviewCommitKeeps ==
  ASSUME IInv, NEW r \in Reviews, ReviewCommit(r)
  PROVE  IInv'
<1> USE DEF IInv
<1>1. PICK s \in Submits :
           /\ order[r].subs = {s} /\ Committed(r, {s}) /\ ResolvedLeavesQueue'
           /\ status'[s] = Written(r, s, order[r].action) /\ order[r].action \in {"APPROVED", "REJECTED"}
           /\ seen[r][s] # "NONE"
           /\ by[s] \in Volunteers => profile'[by[s]] = Credited(profile[by[s]], r, order[r].action)
  BY ReviewCommitEffect
<1> PICK new \in {"APPROVED", "REJECTED"} : new = order[r].action
  BY <1>1
<1>2. /\ r \in Requests /\ pc[r] = "commit" /\ Holds(r) /\ by' = by /\ overlapped' = overlapped
      /\ s \in Rows /\ \A v : CollectedBy(v)' = CollectedBy(v)
      /\ \A t \in Submits : decided'[t] = IF t = s THEN decided[t] \cup {r} ELSE decided[t]
      /\ \A t \in Submits \ {s} : status'[t] = status[t]
  <2>1. r \in Requests /\ pc[r] = "commit" /\ \A v : CollectedBy(v)' = CollectedBy(v)
    BY <1>1, CommittedSame, KindsApart DEF ReviewCommit
  <2>2. Holds(r)
    BY <2>1 DEF HoldsInOrder
  <2> QED
    BY <1>1, <2>1, <2>2 DEF Committed
<1>3. CreditsMatchStatus'
  <2> SUFFICES ASSUME NEW v \in Volunteers, Clean(v)'
               PROVE  /\ profile'[v].approved = Cardinality(With(v, "APPROVED")')
                      /\ profile'[v].rejected = Cardinality(With(v, "REJECTED")')
    BY CreditsMean
  <2>1. CASE by[s] # v
    <3>1. /\ Clean(v)
          /\ With(v, "APPROVED")' = With(v, "APPROVED") /\ With(v, "REJECTED")' = With(v, "REJECTED")
          /\ profile'[v] = profile[v]
      BY <1>1, <2>1, CommittedElsewhere
    <3> QED
      BY <3>1, CreditsMean
  <2>2. CASE by[s] = v
    <3>1. /\ s \in CollectedBy(v) /\ \A t \in CollectedBy(v) : t \in Submits
          /\ \A t \in CollectedBy(v) : decided'[t] \subseteq Reviews /\ Cardinality(decided'[t]) <= 1
          /\ \A t, w \in CollectedBy(v) : \A p \in decided'[t], q \in decided'[w] : {p, q} \notin overlapped
      <4>1. s \in CollectedBy(v) /\ \A t \in CollectedBy(v) : t \in Submits
        BY <1>2, <2>2, Typed DEF CollectedBy
      <4>2. \A t \in CollectedBy(v)' : decided'[t] \subseteq Reviews /\ Cardinality(decided'[t]) <= 1
        BY DEF Clean
      <4>3. \A t, w \in CollectedBy(v)' : \A p \in decided'[t], q \in decided'[w] : {p, q} \notin overlapped'
        BY DEF Clean
      <4> QED
        BY <1>2, <4>1, <4>2, <4>3
    <3>2. decided[s] = {} /\ Cardinality(decided[s]) = 0
      <4>1. IsFiniteSet(decided[s]) /\ r \notin decided[s]
        BY <1>2 DEF DecisionsInOrder
      <4>2. Cardinality(decided[s] \cup {r}) <= 1
        BY <1>2, <3>1
      <4> QED
        BY <4>1, <4>2, OneAdded
    <3>3. Clean(v)
      <4>1. \A t \in CollectedBy(v) : decided[t] \subseteq decided'[t]
        BY <1>2, <3>1
      <4>2. \A t \in CollectedBy(v) : decided[t] \subseteq Reviews /\ Cardinality(decided[t]) <= 1
        <5> TAKE t \in CollectedBy(v)
        <5>1. CASE t = s
          BY <5>1, <3>2
        <5>2. CASE t # s
          BY <5>2, <1>2, <3>1
        <5> QED
          BY <5>1, <5>2
      <4> QED
        BY <3>1, <4>1, <4>2 DEF Clean
    <3>4. \A t \in CollectedBy(v) : ~Overtaken(r, t)
      <4> SUFFICES ASSUME NEW t \in CollectedBy(v), NEW q \in decided[t], {q, r} \in overlapped
                   PROVE  FALSE
        BY DEF Overtaken
      <4>1. q \in decided'[t] /\ r \in decided'[s]
        BY <1>2, <3>1
      <4> QED
        BY <3>1, <4>1
    <3>5. seen[r][s] = status[s] /\ status[s] \notin {"APPROVED", "REJECTED"}
      <4>1. seen[r][s] = status[s]
        BY <1>1, <1>2, <3>1, <3>4 DEF Holds, LoadsKept
      <4> QED
        BY <4>1, <3>2 DEF DecisionsInOrder
    <3>6. status'[s] = new
      BY <1>1, <3>5 DEF Written
    <3>7. counted[r].approved = profile[v].approved /\ counted[r].rejected = profile[v].rejected
      BY <1>1, <1>2, <2>2, <3>4 DEF Holds, CreditKept, Crossed
    <3>8. profile'[v] = Credited(profile[v], r, new)
      BY <1>1, <2>2
    <3>9. /\ profile[v].approved = Cardinality(With(v, "APPROVED"))
          /\ profile[v].rejected = Cardinality(With(v, "REJECTED"))
      BY <3>3, CreditsMean
    <3>10. \A x : x # new => With(v, x)' = With(v, x) \/ x = status[s]
      BY <1>2, <3>1, <3>6 DEF With
    <3>11. With(v, new)' = With(v, new) \cup {s} /\ s \notin With(v, new)
      <4>1. \A t \in CollectedBy(v) : status'[t] = IF t = s THEN new ELSE status[t]
        BY <1>2, <3>1, <3>6
      <4>2. status[s] # new
        BY <3>5
      <4> QED
        BY <1>2, <3>1, <4>1, <4>2 DEF With
    <3>12. IsFiniteSet(With(v, new))
      <4>1. With(v, new) \subseteq CollectedBy(v) /\ IsFiniteSet(CollectedBy(v))
        BY Finite DEF With, RowsInOrder
      <4> QED
        BY <4>1, FS_Subset
    <3>13. Cardinality(With(v, new)') = Cardinality(With(v, new)) + 1
      BY <3>11, <3>12, FS_AddElement
    <3>14. profile[v] \in [{"total", "duplicates", "approved", "rejected"} -> Nat]
      BY Typed DEF Counters
    <3>15. CASE new = "APPROVED"
      <4>1. With(v, "REJECTED")' = With(v, "REJECTED")
        BY <3>5, <3>10, <3>15
      <4>2. profile'[v] = [profile[v] EXCEPT !.approved = counted[r].approved + 1]
        BY <3>8, <3>15 DEF Credited
      <4>3. profile'[v].approved = profile[v].approved + 1 /\ profile'[v].rejected = profile[v].rejected
        BY <3>7, <3>14, <4>2
      <4> QED
        BY <3>9, <3>13, <3>15, <4>1, <4>3
    <3>16. CASE new = "REJECTED"
      <4>1. With(v, "APPROVED")' = With(v, "APPROVED")
        BY <3>5, <3>10, <3>16
      <4>2. profile'[v] = [profile[v] EXCEPT !.rejected = counted[r].rejected + 1]
        BY <3>8, <3>16 DEF Credited
      <4>3. profile'[v].rejected = profile[v].rejected + 1 /\ profile'[v].approved = profile[v].approved
        BY <3>7, <3>14, <4>2
      <4> QED
        BY <3>9, <3>13, <3>16, <4>1, <4>3
    <3> QED
      BY <1>1, <3>15, <3>16
  <2> QED
    BY <2>1, <2>2
<1> QED
  BY <1>1, <1>3, CommittedKeeps

\* What a resolution goes by at its commit: the pair a, b, both of them loaded.
LEMMA ResolveGoesBy ==
  ASSUME IInv, NEW d \in Resolves, pc[d] = "commit"
  PROVE  \E b \in Rows :
           /\ order[d].subs = {b} /\ found[d].a # b /\ duplicate[b] \in Match /\ found[d].a \in Rows
           /\ found[d] \in Match /\ order[d].action \in Resolution
           /\ \A x \in {found[d].a, b} :
                /\ seen[d][x] # "DUPLICATE" => status[x] # "DUPLICATE"
                /\ seen[d][x] = status[x] \/ Overtaken(d, x)
<1> USE DEF IInv
<1>1. d \in InFlight /\ d \in Requests /\ LoadsKept(d) /\ OrderKept(d)
  BY KindsApart DEF InFlight, HoldsInOrder, Holds
<1>2. /\ order[d].action \in Resolution /\ found[d] # None /\ found[d].a \in Rows
      /\ \E b \in Rows : order[d].subs = {b} /\ found[d].a # b /\ duplicate[b] # None
      /\ seen[d][found[d].a] # "NONE" /\ \A b \in order[d].subs : seen[d][b] # "NONE"
  BY <1>1 DEF OrderKept
<1>3. PICK b \in Rows : order[d].subs = {b} /\ found[d].a # b /\ duplicate[b] # None
  BY <1>2
<1>4. b \in Submits /\ found[d].a \in Submits
  BY <1>2, Typed
<1>5. duplicate[b] \in Match /\ found[d] \in Match
  BY <1>1, <1>2, <1>3, <1>4, Typed
<1>6. \A x \in {found[d].a, b} : /\ seen[d][x] # "DUPLICATE" => status[x] # "DUPLICATE"
                                 /\ seen[d][x] = status[x] \/ Overtaken(d, x)
  BY <1>1, <1>2, <1>3, <1>4 DEF LoadsKept
<1> QED
  BY <1>2, <1>3, <1>5, <1>6

\* The statuses that a resolution sets: of the pair at most, and a merge sets
\* one of them to approved and the other to rejected.
LEMMA ResolvedSets ==
  ASSUME NEW d \in Resolves, NEW a, NEW b, a # b, order[d].action \in Resolution
  PROVE  /\ DOMAIN Resolved(d, a, b) \subseteq {a, b}
         /\ \A x \in DOMAIN Resolved(d, a, b) :
              Resolved(d, a, b)[x] \in {"APPROVED", "REJECTED", "UNDER_REVIEW"}
         /\ order[d].action = "MERGED" =>
              /\ DOMAIN Resolved(d, a, b) = {a, b}
              /\ {Resolved(d, a, b)[a], Resolved(d, a, b)[b]} = {"APPROVED", "REJECTED"}
         /\ order[d].action = "REJECTED" => b \in DOMAIN Resolved(d, a, b)
         /\ order[d].action = "KEPT_SEPARATE" =>
              (b \in DOMAIN Resolved(d, a, b) <=> seen[d][b] = "DUPLICATE")
         /\ order[d].action = "POSSIBLE_DUPLICATE" => DOMAIN Resolved(d, a, b) = {}
<1>1. CASE order[d].action = "MERGED"
  <2> DEFINE kept == IF order[d].primary = a THEN a ELSE b
  <2>1. Resolved(d, a, b) = [s \in {a, b} |-> IF s = kept THEN "APPROVED" ELSE "REJECTED"]
    BY <1>1 DEF Resolved
  <2> QED
    BY <1>1, <2>1
<1>2. CASE order[d].action = "KEPT_SEPARATE"
  <2>1. Resolved(d, a, b) = [s \in {x \in {b} : seen[d][x] = "DUPLICATE"} |-> "UNDER_REVIEW"]
    BY <1>2 DEF Resolved
  <2> QED
    BY <1>2, <2>1
<1>3. CASE order[d].action = "REJECTED"
  <2>1. Resolved(d, a, b) = [s \in {b} |-> "REJECTED"]
    BY <1>3 DEF Resolved
  <2> QED
    BY <1>3, <2>1
<1>4. CASE order[d].action = "POSSIBLE_DUPLICATE"
  <2>1. Resolved(d, a, b) = [s \in {} |-> "NONE"]
    BY <1>4 DEF Resolved
  <2> QED
    BY <1>4, <2>1
<1> QED
  BY <1>1, <1>2, <1>3, <1>4 DEF Resolution

LEMMA ResolveCommitKeeps ==
  ASSUME IInv, NEW d \in Resolves, ResolveCommit(d)
  PROVE  IInv'
<1> USE DEF IInv
<1>1. d \in Requests /\ d \in Decisions /\ d \in InFlight /\ pc[d] = "commit" /\ d \notin Reviews
  BY KindsApart DEF ResolveCommit, InFlight
<1>2. PICK b \in Rows :
           /\ order[d].subs = {b} /\ found[d].a # b /\ duplicate[b] \in Match /\ found[d].a \in Rows
           /\ found[d] \in Match /\ order[d].action \in Resolution
           /\ \A x \in {found[d].a, b} :
                /\ seen[d][x] # "DUPLICATE" => status[x] # "DUPLICATE"
                /\ seen[d][x] = status[x] \/ Overtaken(d, x)
  BY <1>1, ResolveGoesBy
<1> DEFINE a == found[d].a
           set == Resolved(d, found[d].a, b)
           action == order[d].action
           kept == IF action = found[d].resolution THEN duplicate[b].resolution ELSE action
<1>3. /\ status' = [s \in Submits |-> IF s \in DOMAIN set THEN Written(d, s, set[s]) ELSE status[s]]
      /\ flagged' = [flagged EXCEPT ![b] = flagged[b] /\ ~(action = "KEPT_SEPARATE" /\ b \in DOMAIN set)]
      /\ duplicate' = [duplicate EXCEPT ![b].resolution = kept]
      /\ decided' = [s \in Submits |-> IF s \in DOMAIN set THEN decided[s] \cup {d} ELSE decided[s]]
      /\ End(d, "done")
      /\ facts' = facts /\ by' = by /\ profile' = profile /\ reviews' = reviews /\ overlapped' = overlapped
  BY <1>2 DEF ResolveCommit
<1>4. /\ pc' \in [Requests -> Step] /\ pc'[d] = "done"
      /\ \A q \in Requests \ {d} : /\ pc'[q] = pc[q] /\ order'[q] = order[q] /\ seen'[q] = seen[q]
                                   /\ found'[q] = found[q] /\ counted'[q] = counted[q]
      /\ seen'[d] = Unseen /\ found'[d] = None
      /\ order' \in [Requests -> Order] /\ seen' \in [Requests -> [Submits -> Status \cup {"NONE"}]]
      /\ found' \in [Requests -> Match \cup {None}] /\ counted' \in [Requests -> Counters]
      /\ InFlight' = InFlight \ {d} /\ FlightsKnown'
  BY <1>1, <1>3, EndEffect
<1>5. b \in Submits /\ a \in Submits /\ Rows \subseteq Submits
  BY <1>2, Typed
<1>6. /\ DOMAIN set \subseteq {a, b}
      /\ \A x \in DOMAIN set : set[x] \in {"APPROVED", "REJECTED", "UNDER_REVIEW"}
      /\ action = "MERGED" => DOMAIN set = {a, b}
      /\ action = "REJECTED" => b \in DOMAIN set
      /\ action = "KEPT_SEPARATE" => (b \in DOMAIN set <=> seen[d][b] = "DUPLICATE")
      /\ action = "POSSIBLE_DUPLICATE" => DOMAIN set = {}
  <2> HIDE DEF a, action
  <2>1. a # b /\ order[d].action \in Resolution /\ action = order[d].action /\ set = Resolved(d, a, b)
    BY <1>2 DEF a, action
  <2> HIDE DEF set
  <2> QED
    BY <2>1, ResolvedSets
<1> HIDE DEF set
<1>7. /\ DOMAIN set \subseteq Rows /\ DOMAIN set \subseteq Submits
      /\ \A x \in DOMAIN set : Written(d, x, set[x]) = status[x] \/ Written(d, x, set[x]) = set[x]
  BY <1>2, <1>5, <1>6 DEF Written
<1>8. /\ status' \in [Submits -> Status \cup {"NONE"}]
      /\ \A s \in Submits \ DOMAIN set : status'[s] = status[s]
      /\ \A s \in DOMAIN set : status'[s] = status[s] \/ status'[s] \notin {"NONE", "DUPLICATE"}
  <2>1. \A s \in DOMAIN set : Written(d, s, set[s]) \in Status \cup {"NONE"}
    BY <1>6, <1>7, Typed DEF Status
  <2>2. \A s \in DOMAIN set : Written(d, s, set[s]) = status[s] \/ Written(d, s, set[s]) \notin {"NONE", "DUPLICATE"}
    BY <1>6, <1>7
  <2> QED
    BY <1>3, <1>7, <2>1, <2>2, Typed
<1>9. /\ duplicate' \in [Submits -> Match \cup {None}]
      /\ duplicate'[b] \in Match /\ duplicate'[b].a = duplicate[b].a /\ duplicate'[b].resolution = kept
      /\ \A s \in Submits \ {b} : duplicate'[s] = duplicate[s]
  <2>1. kept \in Resolution
    BY <1>2, Fields
  <2>2. /\ [duplicate[b] EXCEPT !.resolution = kept] \in Match
        /\ [duplicate[b] EXCEPT !.resolution = kept].a = duplicate[b].a
        /\ [duplicate[b] EXCEPT !.resolution = kept].resolution = kept
    BY <1>2, <2>1 DEF Match
  <2> HIDE DEF kept
  <2>3. duplicate' = [duplicate EXCEPT ![b] = [duplicate[b] EXCEPT !.resolution = kept]]
    BY <1>3
  <2> QED
    BY <1>5, <2>2, <2>3, Typed
<1>10. /\ decided' \in [Submits -> SUBSET Decisions]
       /\ \A s \in Submits : decided'[s] = IF s \in DOMAIN set THEN decided[s] \cup {d} ELSE decided[s]
  BY <1>1, <1>3, Typed
<1>11. flagged' \in [Submits -> BOOLEAN]
  BY <1>3, Typed
<1>12. TypeOK'
  BY <1>3, <1>4, <1>8, <1>9, <1>10, <1>11, Typed DEF TypeOK
<1>13. Committed(d, DOMAIN set)
  <2>1. \A s \in Submits : /\ duplicate'[s] # None <=> duplicate[s] # None
                           /\ duplicate[s] # None => duplicate'[s].a = duplicate[s].a
    BY <1>2, <1>9, KindsApart
  <2> QED
    BY <1>1, <1>3, <1>4, <1>7, <1>8, <1>10, <1>12, <2>1 DEF Committed
<1>14. ResolvedLeavesQueue'
  <2>1. \A s \in Submits : status'[s] = "DUPLICATE" => status[s] = "DUPLICATE"
    BY <1>8
  <2>2. Rows' = Rows
    BY <1>13, CommittedSame
  <2>3. status'[b] = "DUPLICATE" => kept = "POSSIBLE_DUPLICATE"
    <3>1. CASE action = "POSSIBLE_DUPLICATE"
      <4>1. duplicate[b] # None
        BY <1>2, KindsApart
      <4>2. status[b] = "DUPLICATE" => duplicate[b].resolution = "POSSIBLE_DUPLICATE"
        BY <4>1 DEF ResolvedLeavesQueue
      <4> QED
        BY <3>1, <4>2, <1>5, <2>1
    <3>2. CASE action \in {"MERGED", "REJECTED"}
      <4>1. b \in DOMAIN set /\ status'[b] = Written(d, b, set[b]) /\ set[b] # "DUPLICATE"
        BY <3>2, <1>3, <1>5, <1>6
      <4>2. status'[b] # "DUPLICATE"
        BY <4>1, <1>2 DEF Written
      <4> QED
        BY <4>2
    <3>3. CASE action = "KEPT_SEPARATE"
      <4>1. CASE seen[d][b] = "DUPLICATE"
        <5>1. b \in DOMAIN set /\ status'[b] = Written(d, b, set[b])
              /\ set[b] \in {"APPROVED", "REJECTED", "UNDER_REVIEW"}
          BY <3>3, <4>1, <1>3, <1>5, <1>6
        <5> QED
          BY <4>1, <5>1 DEF Written
      <4>2. CASE seen[d][b] # "DUPLICATE"
        BY <4>2, <1>2, <2>1, <1>5
      <4> QED
        BY <4>1, <4>2
    <3> QED
      BY <3>1, <3>2, <3>3, <1>2 DEF Resolution
  <2> QED
    BY <1>5, <1>9, <2>1, <2>2, <2>3 DEF ResolvedLeavesQueue
<1>15. CreditsMatchStatus'
  BY <1>1, <1>13, OtherCredits
<1> QED
  BY <1>13, <1>14, <1>15, CommittedKeeps

-----------------------------------------------------------------------------
LEMMA InitHolds == Init => IInv
<1> SUFFICES ASSUME Init PROVE IInv
  OBVIOUS
<1> USE DEF Init
<1>1. TypeOK
  BY Fields DEF TypeOK, Step, Status
<1>2. Rows = {} /\ InFlight = {} /\ IsFiniteSet({}) /\ Cardinality({}) = 0
  BY FS_EmptySet DEF Rows, InFlight
<1>3. \A v : CollectedBy(v) = {} /\ Solo(v) = {}
  BY <1>2 DEF CollectedBy, Solo
<1>4. \A v : With(v, "APPROVED") = {} /\ With(v, "REJECTED") = {}
  BY <1>3 DEF With
<1>5. ResolvedLeavesQueue /\ DuplicatesSuspected /\ FlightsKnown
  BY <1>2 DEF ResolvedLeavesQueue, DuplicatesSuspected, FlightsKnown
<1>6. CollectionCounted
  <2>1. \A v \in Volunteers : profile[v].total = 0
    BY DEF Zero
  <2>2. \A v : Cardinality(Solo(v)) = 0 /\ Cardinality(CollectedBy(v)) = 0
    BY <1>2, <1>3
  <2> QED
    BY <2>1, <2>2, TotalsMean
<1>7. CreditsMatchStatus
  BY <1>2, <1>4, CreditsMean DEF Zero
<1>8. RowsInOrder
  BY <1>2, KindsApart DEF RowsInOrder
<1>9. DecisionsInOrder
  BY <1>2 DEF DecisionsInOrder
<1>10. HoldsInOrder
  <2> SUFFICES ASSUME NEW r \in Requests PROVE Holds(r)
    BY DEF HoldsInOrder
  <2>1. LoadsKept(r)
    BY DEF LoadsKept, Unseen
  <2>2. OrderKept(r)
    BY <1>2 DEF OrderKept
  <2>3. ScanKept(r)
    <3>1. \A i \in 1..Len(Signals) : \A k \in i+1..Len(Signals) : k \in 1..Len(Signals)
      BY SignalsNumbered
    <3>2. \A i \in 1..Len(Signals) : ~Passed(r, i)
      BY <3>1, ScanSteps DEF Passed
    <3> QED
      BY <3>2 DEF ScanKept
  <2>4. TotalKept(r) /\ CreditKept(r)
    BY DEF TotalKept, CreditKept
  <2> QED
    BY <2>1, <2>2, <2>3, <2>4 DEF Holds
<1> QED
  BY <1>1, <1>5, <1>6, <1>7, <1>8, <1>9, <1>10 DEF IInv

LEMMA StutterKeeps ==
  ASSUME IInv, UNCHANGED vars
  PROVE  IInv'
<1>1. /\ status' = status /\ flagged' = flagged /\ facts' = facts /\ by' = by /\ duplicate' = duplicate
      /\ profile' = profile /\ reviews' = reviews /\ pc' = pc /\ order' = order /\ seen' = seen
      /\ found' = found /\ counted' = counted /\ decided' = decided /\ overlapped' = overlapped
  BY DEF vars, rows, locals, history
<1>2. Rows' = Rows /\ InFlight' = InFlight
  BY <1>1 DEF Rows, InFlight
<1>3. \A v : CollectedBy(v)' = CollectedBy(v) /\ Solo(v)' = Solo(v)
  <2>1. \A v : CollectedBy(v)' = CollectedBy(v)
    BY <1>1, <1>2 DEF CollectedBy
  <2> QED
    BY <1>1, <2>1 DEF Solo
<1>4. TypeOK' /\ ResolvedLeavesQueue' /\ DuplicatesSuspected' /\ FlightsKnown' /\ RowsInOrder'
  BY <1>1, <1>2
     DEF IInv, TypeOK, ResolvedLeavesQueue, DuplicatesSuspected, FlightsKnown, RowsInOrder
<1>5. DecisionsInOrder'
  BY <1>1 DEF IInv, DecisionsInOrder
<1>6. CollectionCounted'
  BY <1>1, <1>3, TotalsMean DEF IInv
<1>7. CreditsMatchStatus'
  <2>1. \A v : (Clean(v)' <=> Clean(v)) /\ \A x : With(v, x)' = With(v, x)
    BY <1>1, <1>3 DEF Clean, With
  <2> QED
    BY <1>1, <2>1, CreditsMean DEF IInv
<1>8. HoldsInOrder'
  <2> SUFFICES ASSUME NEW r \in Requests PROVE Holds(r)'
    BY DEF HoldsInOrder
  <2>1. Holds(r)
    BY DEF IInv, HoldsInOrder
  <2>2. \A t : Overtaken(r, t)' <=> Overtaken(r, t)
    BY <1>1 DEF Overtaken
  <2>3. \A v : Crossed(r, v)' <=> Crossed(r, v)
    BY <1>3, <2>2 DEF Crossed
  <2>4. LoadsKept(r)' /\ OrderKept(r)'
    BY <1>1, <1>2, <2>1, <2>2 DEF Holds, LoadsKept, OrderKept
  <2>5. ScanKept(r)'
    BY <1>1, <1>2, <2>1 DEF Holds, ScanKept, Passed, Agree
  <2>6. TotalKept(r)'
    <3>1. CollectedBy(by[r])' = CollectedBy(by[r]) /\ SoloApart(by[r], r)' = SoloApart(by[r], r)
      BY <1>1, <1>3 DEF SoloApart
    <3> QED
      BY <1>1, <2>1, <3>1 DEF Holds, TotalKept
  <2>7. CreditKept(r)'
    BY <1>1, <2>1, <2>3 DEF Holds, CreditKept
  <2> QED
    BY <2>4, <2>5, <2>6, <2>7 DEF Holds
<1> QED
  BY <1>4, <1>5, <1>6, <1>7, <1>8 DEF IInv

\* The invariant is inductive.
LEMMA NextKeeps == IInv /\ [Next]_vars => IInv'
<1> SUFFICES ASSUME IInv, [Next]_vars PROVE IInv'
  OBVIOUS
<1>1. CASE Arrive
  <2>1. ASSUME NEW s \in Submits, NEW u \in Users, NEW f \in Facts, Submit(s, u, f) PROVE IInv'
    BY <2>1, SubmitKeeps
  <2>2. ASSUME NEW r \in Reviews, NEW s \in Rows, NEW action \in ReviewAction, ReviewRead(r, s, action)
        PROVE  IInv'
    BY <2>2, ReviewReadKeeps
  <2>3. ASSUME NEW r \in Bulks, NEW subs \in SUBSET Rows \ {{}}, NEW action \in ReviewAction,
               BulkRead(r, subs, action)
        PROVE  IInv'
    BY <2>3, BulkReadKeeps
  <2>4. ASSUME NEW d \in Resolves, NEW b \in Rows, NEW action \in Resolution, NEW p \in Rows,
               ResolveRead(d, b, action, p)
        PROVE  IInv'
    BY <2>4, ResolveReadKeeps
  <2> QED
    BY <1>1, <2>1, <2>2, <2>3, <2>4 DEF Arrive
<1>2. CASE Serve
  <2>1. ASSUME NEW s \in Submits, NEW i \in 1..Len(Signals), Scan(s, i) PROVE IInv'
    BY <2>1, ScanKeeps
  <2>2. ASSUME NEW s \in Submits, SubmitProfile(s) \/ SubmitCommit(s) PROVE IInv'
    BY <2>2, SubmitProfileKeeps, SubmitCommitKeeps
  <2>3. ASSUME NEW r \in Reviews, ReviewProfile(r) \/ ReviewCommit(r) PROVE IInv'
    BY <2>3, ReviewProfileKeeps, ReviewCommitKeeps
  <2>4. ASSUME NEW r \in Bulks, BulkCommit(r) PROVE IInv'
    BY <2>4, BulkCommitKeeps
  <2>5. ASSUME NEW d \in Resolves, ResolveReadA(d) \/ ResolveReadB(d) \/ ResolveCommit(d) PROVE IInv'
    BY <2>5, ResolveReadAKeeps, ResolveReadBKeeps, ResolveCommitKeeps
  <2> QED
    BY <1>2, <2>1, <2>2, <2>3, <2>4, <2>5 DEF Serve
<1>3. CASE \E r \in Requests : Abort(r)
  BY <1>3, AbortKeeps
<1>4. CASE Idle
  BY <1>4, StutterKeeps DEF Idle
<1>5. CASE UNCHANGED vars
  BY <1>5, StutterKeeps
<1> QED
  BY <1>1, <1>2, <1>3, <1>4, <1>5 DEF Next

LEMMA Inductive == Spec => []IInv
BY InitHolds, NextKeeps, PTL DEF Spec

-----------------------------------------------------------------------------
\* The tables are well formed, and a suspected duplicate that was resolved does
\* not come back to the queue of duplicates, however submissions, reviews and
\* resolutions overlap (data_collection_service.py,
\* duplicate_detection_service.py).
THEOREM TablesStayConsistent == Spec => []Consistent
<1>1. IInv => Consistent
  BY DEF IInv, Consistent
<1> QED
  BY <1>1, Inductive, PTL

\* The counters of a volunteer agree with the rows they count, but for what
\* requests that were served together did to them: each loads a counter and
\* writes it back with one more.
THEOREM CountersStayInAgreement == Spec => []CountersAgree
<1>1. IInv => CountersAgree
  BY DEF IInv, CountersAgree
<1> QED
  BY <1>1, Inductive, PTL

\* Of two submissions that agree in a signal one is suspected, unless they were
\* served together (scan_and_flag_duplicates).
THEOREM DuplicatesStaySuspected == Spec => []DuplicatesSuspected
<1>1. IInv => DuplicatesSuspected
  BY DEF IInv
<1> QED
  BY <1>1, Inductive, PTL

-----------------------------------------------------------------------------
\* A request that comes in, goes on or ends leaves the others where they are.
LEMMA Moves ==
  ASSUME TypeOK, NEW r \in Requests, NEW step, Begin(r, step) \/ Goto(r, step) \/ End(r, step)
  PROVE  /\ pc'[r] = step /\ \A q \in Requests \ {r} : pc'[q] = pc[q]
         /\ Begin(r, step) => pc[r] = "new"
<1>1. pc' = [pc EXCEPT ![r] = step] /\ pc \in [Requests -> Step]
  BY Typed DEF Begin, Goto, End
<1> QED
  BY <1>1 DEF Begin

\* Only its commit brings a resolution from the commit to the end.
LEMMA CommitsAlone ==
  ASSUME IInv, [Next]_vars, NEW d \in Resolves, pc[d] = "commit", pc'[d] = "done"
  PROVE  ResolveCommit(d)
<1> USE DEF IInv
<1>1. d \in Requests /\ d \notin Submits /\ d \notin Reviews /\ d \notin Bulks
  BY KindsApart
<1>2. ASSUME NEW r \in Requests, NEW step, Begin(r, step)
      PROVE  FALSE
  BY <1>1, <1>2, Moves
<1>3. ASSUME NEW r \in Requests \ {d}, NEW step, Goto(r, step) \/ End(r, step)
      PROVE  FALSE
  BY <1>1, <1>3, Moves
<1>4. CASE Arrive
  <2>1. \E r \in Requests : \E step : Begin(r, step)
    BY <1>4, KindsApart DEF Arrive, Submit, ReviewRead, BulkRead, LoadSubmissions, ResolveRead
  <2> QED
    BY <2>1, <1>2
<1>5. CASE Serve
  <2>1. ASSUME NEW s \in Submits, NEW i \in 1..Len(Signals), Scan(s, i) PROVE FALSE
    <3>1. s \in Requests \ {d} /\ \E step : Goto(s, step)
      BY <2>1, <1>1, KindsApart DEF Scan
    <3> QED
      BY <3>1, <1>3
  <2>2. ASSUME NEW s \in Submits, SubmitProfile(s) \/ SubmitCommit(s) PROVE FALSE
    <3>1. s \in Requests \ {d} /\ (Goto(s, "commit") \/ End(s, "done"))
      BY <2>2, <1>1, KindsApart DEF SubmitProfile, LoadProfile, SubmitCommit
    <3> QED
      BY <3>1, <1>3
  <2>3. ASSUME NEW r \in Reviews, ReviewProfile(r) \/ ReviewCommit(r) PROVE FALSE
    <3>1. r \in Requests \ {d} /\ (Goto(r, "commit") \/ End(r, "done"))
      BY <2>3, <1>1, KindsApart DEF ReviewProfile, LoadProfile, ReviewCommit
    <3> QED
      BY <3>1, <1>3
  <2>4. ASSUME NEW r \in Bulks, BulkCommit(r) PROVE FALSE
    <3>1. r \in Requests \ {d} /\ End(r, "done")
      BY <2>4, <1>1, KindsApart DEF BulkCommit
    <3> QED
      BY <3>1, <1>3
  <2>5. ASSUME NEW q \in Resolves, ResolveReadA(q) \/ ResolveReadB(q) PROVE FALSE
    <3>1. q \in Requests \ {d} /\ \E step : Goto(q, step)
      BY <2>5, KindsApart DEF ResolveReadA, ResolveReadB, LoadRecord
    <3> QED
      BY <3>1, <1>3
  <2>6. ASSUME NEW q \in Resolves, ResolveCommit(q), q # d PROVE FALSE
    <3>1. q \in Requests \ {d} /\ End(q, "done")
      BY <2>6, KindsApart DEF ResolveCommit
    <3> QED
      BY <3>1, <1>3
  <2> QED
    BY <1>5, <2>1, <2>2, <2>3, <2>4, <2>5, <2>6 DEF Serve
<1>6. ASSUME NEW r \in Requests, Abort(r) PROVE FALSE
  <2>1. CASE r = d
    <3>1. pc'[d] = "new"
      BY <1>6, <2>1, Moves DEF Abort
    <3> QED
      BY <3>1
  <2>2. CASE r # d
    BY <1>3, <1>6, <2>2 DEF Abort
  <2> QED
    BY <2>1, <2>2
<1>7. ~UNCHANGED vars
  BY DEF vars
<1> QED
  BY <1>4, <1>5, <1>6, <1>7 DEF Next, Idle

\* What a merge leaves.
LEMMA MergeLeaves ==
  ASSUME IInv, NEW d \in Resolves, NEW b \in Submits, ResolveCommit(d),
         order[d].action = "MERGED", b \in order[d].subs
  PROVE  \/ {status'[found[d].a], status'[b]} = {"APPROVED", "REJECTED"}
         \/ Overtaken(d, found[d].a) \/ Overtaken(d, b)
<1>1. pc[d] = "commit"
  BY DEF ResolveCommit
<1>2. PICK c \in Rows :
           /\ order[d].subs = {c} /\ found[d].a # c /\ duplicate[c] \in Match /\ found[d].a \in Rows
           /\ found[d] \in Match /\ order[d].action \in Resolution
           /\ \A x \in {found[d].a, c} :
                /\ seen[d][x] # "DUPLICATE" => status[x] # "DUPLICATE"
                /\ seen[d][x] = status[x] \/ Overtaken(d, x)
  BY <1>1, ResolveGoesBy
<1> DEFINE a == found[d].a
           set == Resolved(d, a, b)
<1>3. b = c /\ a # b /\ a \in Submits /\ order[d].action \in Resolution
  BY <1>2, Typed DEF IInv
<1>4. status' = [s \in Submits |-> IF s \in DOMAIN set THEN Written(d, s, set[s]) ELSE status[s]]
  BY <1>2, <1>3 DEF ResolveCommit
<1>5. DOMAIN set = {a, b} /\ {set[a], set[b]} = {"APPROVED", "REJECTED"}
  <2> HIDE DEF a
  <2>1. a # b /\ order[d].action \in Resolution /\ order[d].action = "MERGED" /\ set = Resolved(d, a, b)
    BY <1>3
  <2> HIDE DEF set
  <2> QED
    BY <2>1, ResolvedSets
<1> HIDE DEF set
<1>6. status'[a] = Written(d, a, set[a]) /\ status'[b] = Written(d, b, set[b])
  BY <1>3, <1>4, <1>5
<1>7. \A x \in {a, b} : Written(d, x, set[x]) = set[x] \/ Overtaken(d, x)
  BY <1>2, <1>3 DEF Written
<1> QED
  BY <1>5, <1>6, <1>7

\* A merge leaves one submission of the pair approved and the other rejected,
\* unless a decision on one of them overtook it: the flush leaves out a status
\* that the merge found as it wants it (resolve_duplicate).
THEOREM MergesLeaveOneApproved == Spec => MergeLeavesOneApproved
<1>1. ASSUME IInv, [Next]_vars, NEW d \in Resolves, NEW b \in Submits,
             pc[d] = "commit", pc'[d] = "done", order[d].action = "MERGED", b \in order[d].subs
      PROVE  \/ {status'[found[d].a], status'[b]} = {"APPROVED", "REJECTED"}
             \/ Overtaken(d, found[d].a) \/ Overtaken(d, b)
  <2>1. ResolveCommit(d)
    BY <1>1, CommitsAlone
  <2> QED
    BY <1>1, <2>1, MergeLeaves
<1>2. IInv /\ [Next]_vars =>
        [\A d \in Resolves, b \in Submits :
           /\ pc[d] = "commit" /\ pc'[d] = "done"
           /\ order[d].action = "MERGED" /\ b \in order[d].subs
           => LET a == found[d].a
              IN  {status'[a], status'[b]} = {"APPROVED", "REJECTED"} \/ Overtaken(d, a) \/ Overtaken(d, b)]_vars
  BY <1>1
<1> QED
  BY <1>2, Inductive, PTL DEF Spec, MergeLeavesOneApproved

\* The log of a review tells the status that it replaces, unless another
\* decision overtook the review (review_submission, bulk_review_submissions).
THEOREM ReviewsTellWhatTheyReplace == Spec => ReviewsTellPrevious
<1>1. ASSUME IInv, NEW r \in Reviews \cup Bulks, pc[r] = "commit", Decide(r), NEW x \in reviews' \ reviews
      PROVE  x.previous = status[x.of] \/ Overtaken(x.by, x.of)
  <2> USE DEF IInv
  <2>1. PICK s \in order[r].subs :
          x = [of |-> s, by |-> r, previous |-> seen[r][s], new |-> order[r].action]
    BY <1>1 DEF Decide
  <2>2. r \in Requests /\ r \in InFlight
    BY <1>1, KindsApart DEF InFlight
  <2>3. s \in Submits
    BY <1>1, <2>1, <2>2, Typed, Fields
  <2>4. seen[r][s] # "NONE"
    BY <1>1, <2>1, <2>2 DEF HoldsInOrder, Holds, OrderKept
  <2>5. seen[r][s] = status[s] \/ Overtaken(r, s)
    BY <1>1, <2>2, <2>3, <2>4 DEF HoldsInOrder, Holds, LoadsKept
  <2> QED
    BY <2>1, <2>5
<1>2. ASSUME [Next]_vars
      PROVE  \/ \E r \in Reviews : ReviewCommit(r)
             \/ \E r \in Bulks : BulkCommit(r)
             \/ reviews' = reviews
  <2>1. CASE Arrive
    BY <2>1 DEF Arrive, Submit, ReviewRead, BulkRead, LoadSubmissions, ResolveRead
  <2>2. CASE Serve
    BY <2>2 DEF Serve, Scan, SubmitProfile, LoadProfile, SubmitCommit, ReviewProfile, ResolveReadA,
                ResolveReadB, LoadRecord, ResolveCommit
  <2>3. CASE \E r \in Requests : Abort(r)
    BY <2>3 DEF Abort
  <2>4. CASE UNCHANGED vars
    BY <2>4 DEF vars
  <2> QED
    BY <1>2, <2>1, <2>2, <2>3, <2>4 DEF Next, Idle
<1>3. ASSUME IInv, [Next]_vars, NEW x \in reviews' \ reviews
      PROVE  x.previous = status[x.of] \/ Overtaken(x.by, x.of)
  BY <1>1, <1>2, <1>3 DEF ReviewCommit, BulkCommit
<1>4. IInv /\ [Next]_vars =>
        [\A x \in reviews' \ reviews : x.previous = status[x.of] \/ Overtaken(x.by, x.of)]_vars
  BY <1>3
<1> QED
  BY <1>4, Inductive, PTL DEF Spec, ReviewsTellPrevious
=============================================================================
