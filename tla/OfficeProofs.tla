----------------------------- MODULE OfficeProofs -----------------------------
(***************************************************************************)
(* What is proved of the parts of the back office holds of the office that *)
(* they make up: of its limit on requests, its ceiling on expenses, its    *)
(* messages to voters, its desk and its guards.  The invariant of a part   *)
(* is inductive for the steps of that part, and the steps of the others    *)
(* leave its variables alone.                                              *)
(***************************************************************************)
EXTENDS Office, FiniteSetTheorems, SequenceTheorems, TLAPS

-----------------------------------------------------------------------------
(***************************************************************************)
(* The limit holds in every window, for any number of workers and calls,   *)
(* any limit and any length of the window.                                 *)
(***************************************************************************)
\* An instance has a cardinality of its own, with the same definition.
LEMMA SameLimiterCardinality == \A S : RateLimiter!Cardinality(S) = Cardinality(S)
BY Zenon DEF RateLimiter!Cardinality, Cardinality

Entry(x) == [call |-> x.call, at |-> x.at]

\* What a store may forget: only entries that are a whole window older than one
\* that it still has.
KnownTo(x, entries) ==
  \/ Entry(x) \in entries
  \/ \E y \in entries : x.at + Window <= y.at

\* A call that passed is in the window of its store, or so old that no call
\* that the store counts in order shares a window with it.
Remembered == \A x \in accepted : KnownTo(x, window[x.in])

Counted == IsFiniteSet(accepted) /\ \A s \in RateLimiter!Stores : IsFiniteSet(window[s])

\* The inductive invariant.
LimiterInv == RateLimiter!TypeOK /\ Counted /\ Remembered /\ RateLimiter!WithinLimit

\* The window of s after a call at time t.
Cut(s, c, t) == RateLimiter!Kept(s, t) \cup {[call |-> c, at |-> t]}

\* Cutting a window forgets only what the new entry makes too old.
LEMMA CutRemembers ==
  ASSUME RateLimiter!RateLimiterAssumption, LimiterInv,
         NEW s \in RateLimiter!Stores, NEW c \in Calls, NEW t \in 0..MaxTime,
         NEW x \in [call : Calls, at : 0..MaxTime, in : RateLimiter!Stores], KnownTo(x, window[s])
  PROVE  KnownTo(x, Cut(s, c, t))
<1> DEFINE new == [call |-> c, at |-> t]
<1>1. /\ window[s] \subseteq [call : Calls, at : 0..MaxTime]
      /\ Window \in Nat /\ MaxTime \in Nat /\ x.at \in Nat /\ t \in Nat
  BY DEF LimiterInv, RateLimiter!TypeOK, RateLimiter!RateLimiterAssumption
<1>2. new \in Cut(s, c, t) /\ new.at = t
  BY DEF Cut
<1>3. CASE x.at + Window <= t
  BY <1>2, <1>3 DEF KnownTo
<1>4. CASE x.at + Window > t /\ Entry(x) \in window[s]
  BY <1>1, <1>4 DEF KnownTo, Cut, RateLimiter!Kept, Entry
<1>5. ASSUME x.at + Window > t, NEW y \in window[s], x.at + Window <= y.at
      PROVE  KnownTo(x, Cut(s, c, t))
  <2>1. y.at \in Nat
    BY <1>1
  <2>2. y \in Cut(s, c, t)
    BY <1>1, <1>5, <2>1 DEF Cut, RateLimiter!Kept
  <2> QED
    BY <1>5, <2>2 DEF KnownTo
<1>6. x.at + Window <= t \/ x.at + Window > t
  BY <1>1
<1> QED
  BY <1>3, <1>4, <1>5, <1>6 DEF KnownTo

\* A window that is cut has its type and stays finite.
LEMMA CutWellFormed ==
  ASSUME RateLimiter!RateLimiterAssumption, LimiterInv, NEW s \in RateLimiter!Stores, NEW c \in Calls,
    NEW t \in 0..MaxTime
  PROVE  /\ Cut(s, c, t) \in SUBSET [call : Calls, at : 0..MaxTime]
         /\ IsFiniteSet(Cut(s, c, t))
<1>1. RateLimiter!Kept(s, t) \in SUBSET window[s]
  BY DEF RateLimiter!Kept
<1>2. IsFiniteSet(window[s])
  BY DEF LimiterInv, Counted
<1>3. IsFiniteSet(RateLimiter!Kept(s, t))
  BY <1>1, <1>2, FS_Subset
<1>4. window[s] \subseteq [call : Calls, at : 0..MaxTime]
  BY DEF LimiterInv, RateLimiter!TypeOK
<1>5. IsFiniteSet(Cut(s, c, t))
  BY <1>3, FS_AddElement DEF Cut
<1>6. [call |-> c, at |-> t] \in [call : Calls, at : 0..MaxTime]
  OBVIOUS
<1> QED
  BY <1>1, <1>4, <1>5, <1>6 DEF Cut

\* The calls that s let pass from t on for the length of a window, in order.
Passed(s, t) == {x \in accepted : x.in = s /\ x.call \notin late /\ t <= x.at /\ x.at < t + Window}

\* A store that counts a call in order finds all that shares a window with it.
LEMMA CountKeepsLimit ==
  ASSUME RateLimiter!RateLimiterAssumption, LimiterInv, NEW s \in RateLimiter!Stores, NEW c \in Calls,
    RateLimiter!Count(c, s, at[c])
  PROVE  RateLimiter!WithinLimit'
<1> DEFINE T == at[c]
           new == [call |-> c, at |-> T, in |-> s]
<1>1. /\ Window \in Nat /\ MaxTime \in Nat /\ Limit \in Nat /\ T \in 0..MaxTime
      /\ accepted \subseteq [call : Calls, at : 0..MaxTime, in : RateLimiter!Stores]
      /\ window[s] \subseteq [call : Calls, at : 0..MaxTime]
  BY DEF LimiterInv, RateLimiter!TypeOK, RateLimiter!RateLimiterAssumption
<1>2. /\ Cut(s, c, T) \in SUBSET [call : Calls, at : 0..MaxTime]
      /\ IsFiniteSet(Cut(s, c, T))
  BY <1>1, CutWellFormed
<1>3. /\ accepted' = IF Cardinality(Cut(s, c, T)) <= Limit THEN accepted \cup {new} ELSE accepted
      /\ late' = IF \E x \in window[s] : x.at > T THEN late \cup {c} ELSE late
  BY SameLimiterCardinality DEF RateLimiter!Count, Cut
<1> SUFFICES ASSUME NEW q \in RateLimiter!Stores, NEW t \in 0..MaxTime
             PROVE  Cardinality(Passed(q, t)') <= Limit
  BY SameLimiterCardinality DEF RateLimiter!WithinLimit, Passed
<1>4. Cardinality(Passed(q, t)) <= Limit /\ t \in Nat
  BY SameLimiterCardinality, <1>1 DEF LimiterInv, RateLimiter!WithinLimit, Passed
<1>5. IsFiniteSet(Passed(q, t))
  <2>1. Passed(q, t) \in SUBSET accepted
    BY DEF Passed
  <2> QED
    BY <2>1, FS_Subset DEF LimiterInv, Counted
<1>6. CASE Passed(q, t)' \subseteq Passed(q, t)
  <2>1. IsFiniteSet(Passed(q, t)') /\ Cardinality(Passed(q, t)') <= Cardinality(Passed(q, t))
    BY <1>5, <1>6, FS_Subset
  <2>2. Cardinality(Passed(q, t)') \in Nat /\ Cardinality(Passed(q, t)) \in Nat
    BY <1>5, <2>1, FS_CardinalityType
  <2> QED
    BY <1>1, <1>4, <2>1, <2>2
<1>7. CASE ~(Passed(q, t)' \subseteq Passed(q, t))
  <2>1. PICK x \in Passed(q, t)' : x \notin Passed(q, t)
    BY <1>7
  <2>2. /\ x = new /\ Cardinality(Cut(s, c, T)) <= Limit /\ q = s
        /\ t <= T /\ T < t + Window /\ c \notin late'
    BY <1>3, <2>1 DEF Passed
  <2>3. \A e \in window[s] : e.at <= T
    BY <1>1, <1>3, <2>2
  <2>4. ASSUME NEW y \in Passed(q, t)' PROVE Entry(y) \in Cut(s, c, T) /\ y.in = s
    <3>1. CASE y = new
      BY <2>2, <3>1 DEF Entry, Cut
    <3>2. CASE y \in accepted
      <4>1. y.at \in Nat /\ y.in = s /\ t <= y.at
        BY <1>1, <2>2, <3>2 DEF Passed
      <4>2. y.at + Window > T
        BY <1>1, <1>4, <2>2, <4>1
      <4>3. Entry(y) \in window[s]
        <5>1. KnownTo(y, window[s])
          BY <3>2, <4>1 DEF LimiterInv, Remembered
        <5>2. \A e \in window[s] : e.at \in Nat /\ ~(y.at + Window <= e.at)
          BY <1>1, <2>3, <4>1, <4>2
        <5> QED
          BY <5>1, <5>2 DEF KnownTo
      <4> QED
        BY <4>1, <4>2, <4>3 DEF Cut, RateLimiter!Kept, Entry
    <3> QED
      BY <1>3, <3>1, <3>2 DEF Passed
  <2>5. \A y \in Passed(q, t)' : y \in [call : Calls, at : 0..MaxTime, in : RateLimiter!Stores]
    BY <1>1, <1>3 DEF Passed
  <2> DEFINE f == [y \in Passed(q, t)' |-> Entry(y)]
  <2>6. f \in Injection(Passed(q, t)', Cut(s, c, T))
    <3>1. f \in [Passed(q, t)' -> Cut(s, c, T)]
      BY <2>4
    <3>2. ASSUME NEW y \in Passed(q, t)', NEW z \in Passed(q, t)', Entry(y) = Entry(z)
          PROVE  y = z
      BY <2>4, <2>5, <3>2 DEF Entry
    <3> QED
      BY <3>1, <3>2 DEF Injection, IsInjective
  <2>7. /\ IsFiniteSet(Passed(q, t)')
        /\ Cardinality(Passed(q, t)') <= Cardinality(Cut(s, c, T))
    BY <1>2, <2>6, FS_Injection
  <2>8. Cardinality(Passed(q, t)') \in Nat /\ Cardinality(Cut(s, c, T)) \in Nat
    BY <1>2, <2>7, FS_CardinalityType
  <2> QED
    BY <1>1, <2>2, <2>7, <2>8
<1> QED
  BY <1>6, <1>7

\* A call that is counted.
LEMMA CountStep ==
  ASSUME RateLimiter!RateLimiterAssumption, LimiterInv, NEW s \in RateLimiter!Stores, NEW c \in Calls,
    RateLimiter!Count(c, s, at[c]),
         UNCHANGED <<now, by, at>>, callPc' = [callPc EXCEPT ![c] = "done"]
  PROVE  LimiterInv'
<1> DEFINE T == at[c]
           new == [call |-> c, at |-> T, in |-> s]
<1>1. /\ RateLimiter!TypeOK /\ T \in 0..MaxTime /\
           new \in [call : Calls, at : 0..MaxTime, in : RateLimiter!Stores]
  BY DEF LimiterInv, RateLimiter!TypeOK
<1>2. /\ Cut(s, c, T) \in SUBSET [call : Calls, at : 0..MaxTime]
      /\ IsFiniteSet(Cut(s, c, T))
  BY <1>1, CutWellFormed
<1>3. /\ window' = [window EXCEPT ![s] = Cut(s, c, T)]
      /\ accepted' = accepted \/ accepted' = accepted \cup {new}
      /\ late' \subseteq late \cup {c}
  BY SameLimiterCardinality DEF RateLimiter!Count, Cut
<1>4. RateLimiter!TypeOK'
  BY <1>1, <1>2, <1>3 DEF RateLimiter!TypeOK
<1>5. Counted'
  <2>1. IsFiniteSet(accepted')
    BY <1>3, FS_AddElement DEF LimiterInv, Counted
  <2> QED
    BY <1>1, <1>2, <1>3, <2>1 DEF LimiterInv, Counted, RateLimiter!TypeOK
<1>6. Remembered'
  <2> SUFFICES ASSUME NEW x \in accepted' PROVE KnownTo(x, window'[x.in])
    BY DEF Remembered, KnownTo
  <2>1. CASE x = new
    BY <1>1, <1>3, <2>1 DEF KnownTo, Entry, Cut, RateLimiter!TypeOK
  <2>2. CASE x \in accepted
    <3>1. x \in [call : Calls, at : 0..MaxTime, in : RateLimiter!Stores] /\ KnownTo(x, window[x.in])
      BY <1>1, <2>2 DEF RateLimiter!TypeOK, LimiterInv, Remembered
    <3>2. CASE x.in = s
      BY <1>1, <1>3, <3>1, <3>2, CutRemembers DEF RateLimiter!TypeOK
    <3>3. CASE x.in # s
      BY <1>1, <1>3, <3>1, <3>3 DEF RateLimiter!TypeOK
    <3> QED
      BY <3>2, <3>3
  <2> QED
    BY <1>3, <2>1, <2>2
<1> QED
  BY <1>4, <1>5, <1>6, CountKeepsLimit DEF LimiterInv

\* Every step preserves the invariant.
LEMMA LimiterStepKeeps ==
  ASSUME RateLimiter!RateLimiterAssumption, LimiterInv, [RateLimiter!Next]_RateLimiter!vars
  PROVE  LimiterInv'
<1> USE DEF LimiterInv
<1>1. CASE RateLimiter!Tick
  <2>1. RateLimiter!TypeOK'
    BY <1>1 DEF RateLimiter!Tick, RateLimiter!TypeOK, RateLimiter!RateLimiterAssumption
  <2> QED
    BY SameLimiterCardinality, <1>1, <2>1 DEF RateLimiter!Tick, Counted, Remembered, KnownTo, RateLimiter!WithinLimit
<1>2. ASSUME NEW c \in Calls, NEW w \in Workers, RateLimiter!Begin(c, w) PROVE LimiterInv'
  <2>1. RateLimiter!TypeOK'
    BY <1>2 DEF RateLimiter!Begin, RateLimiter!TypeOK, RateLimiter!Stores
  <2> QED
    BY SameLimiterCardinality, <1>2, <2>1 DEF RateLimiter!Begin, Counted, Remembered, KnownTo, RateLimiter!WithinLimit
<1>3. ASSUME NEW c \in Calls, RateLimiter!AskRedis(c) PROVE LimiterInv'
  BY <1>3, CountStep DEF RateLimiter!AskRedis, RateLimiter!Stores
<1>4. ASSUME NEW c \in Calls, RateLimiter!RedisFails(c) PROVE LimiterInv'
  <2>1. /\ window' = window \/ window' = [window EXCEPT ![Redis] = Cut(Redis, c, at[c])]
        /\ UNCHANGED <<accepted, late>> /\ Redis \in RateLimiter!Stores /\ at[c] \in 0..MaxTime
    BY <1>4 DEF RateLimiter!RedisFails, Cut, RateLimiter!Stores, RateLimiter!TypeOK
  <2>2. /\ Cut(Redis, c, at[c]) \in SUBSET [call : Calls, at : 0..MaxTime]
        /\ IsFiniteSet(Cut(Redis, c, at[c]))
    BY <2>1, CutWellFormed
  <2>3. RateLimiter!TypeOK'
    BY <1>4, <2>1, <2>2 DEF RateLimiter!RedisFails, RateLimiter!TypeOK
  <2>4. Counted'
    BY <2>1, <2>2 DEF Counted, RateLimiter!TypeOK
  <2>5. Remembered'
    <3> SUFFICES ASSUME NEW x \in accepted PROVE KnownTo(x, window'[x.in])
      BY <2>1 DEF Remembered, KnownTo
    <3>1. x \in [call : Calls, at : 0..MaxTime, in : RateLimiter!Stores] /\ KnownTo(x, window[x.in])
      BY DEF RateLimiter!TypeOK, Remembered
    <3>2. CASE window' = window
      BY <3>1, <3>2
    <3>3. CASE window' = [window EXCEPT ![Redis] = Cut(Redis, c, at[c])] /\ x.in = Redis
      BY <2>1, <3>1, <3>3, CutRemembers DEF RateLimiter!TypeOK
    <3>4. CASE window' = [window EXCEPT ![Redis] = Cut(Redis, c, at[c])] /\ x.in # Redis
      BY <3>1, <3>4 DEF RateLimiter!TypeOK
    <3> QED
      BY <2>1, <3>2, <3>3, <3>4
  <2> QED
    BY SameLimiterCardinality, <2>1, <2>3, <2>4, <2>5 DEF RateLimiter!WithinLimit
<1>5. ASSUME NEW c \in Calls, RateLimiter!AskOwn(c) PROVE LimiterInv'
  BY <1>5, CountStep DEF RateLimiter!AskOwn, RateLimiter!TypeOK
<1>6. ASSUME NEW w \in Workers, RateLimiter!Restart(w) PROVE LimiterInv'
  <2>1. /\ window' = [window EXCEPT ![w] = {}]
        /\ accepted' = {x \in accepted : x.in # w}
        /\ UNCHANGED <<now, callPc, by, at, late>>
    BY <1>6 DEF RateLimiter!Restart
  <2>2. RateLimiter!TypeOK'
    BY <2>1 DEF RateLimiter!TypeOK
  <2>3. Counted'
    <3>1. accepted' \in SUBSET accepted
      BY <2>1
    <3>2. IsFiniteSet(accepted')
      BY <3>1, FS_Subset DEF Counted
    <3> QED
      BY <2>1, <3>2, FS_EmptySet DEF Counted, RateLimiter!TypeOK
  <2>4. Remembered'
    BY <2>1 DEF Remembered, KnownTo, RateLimiter!TypeOK
  <2>5. RateLimiter!WithinLimit'
    <3> SUFFICES ASSUME NEW q \in RateLimiter!Stores, NEW t \in 0..MaxTime
                 PROVE  Cardinality(Passed(q, t)') <= Limit
      BY SameLimiterCardinality DEF RateLimiter!WithinLimit, Passed
    <3>1. Passed(q, t)' \in SUBSET Passed(q, t) /\ Passed(q, t) \in SUBSET accepted
      BY <2>1 DEF Passed
    <3>2. IsFiniteSet(Passed(q, t))
      BY <3>1, FS_Subset DEF Counted
    <3>3. IsFiniteSet(Passed(q, t)') /\ Cardinality(Passed(q, t)') <= Cardinality(Passed(q, t))
      BY <3>1, <3>2, FS_Subset
    <3>4. Cardinality(Passed(q, t)') \in Nat /\ Cardinality(Passed(q, t)) \in Nat
      BY <3>2, <3>3, FS_CardinalityType
    <3>5. Cardinality(Passed(q, t)) <= Limit /\ Limit \in Nat
      BY SameLimiterCardinality DEF RateLimiter!WithinLimit, Passed, RateLimiter!RateLimiterAssumption
    <3> QED
      BY <3>3, <3>4, <3>5
  <2> QED
    BY <2>2, <2>3, <2>4, <2>5
<1>7. CASE UNCHANGED RateLimiter!vars
  BY SameLimiterCardinality, <1>7 DEF RateLimiter!vars, RateLimiter!TypeOK, Counted, Remembered, KnownTo, RateLimiter!WithinLimit
<1> QED
  BY <1>1, <1>2, <1>3, <1>4, <1>5, <1>6, <1>7 DEF RateLimiter!Next

LEMMA LimiterInitInv == ASSUME RateLimiter!RateLimiterAssumption, RateLimiter!Init PROVE LimiterInv
<1>1. RateLimiter!TypeOK
  BY DEF RateLimiter!Init, RateLimiter!TypeOK, RateLimiter!Stores, RateLimiter!RateLimiterAssumption
<1>2. Counted /\ Remembered
  BY FS_EmptySet DEF RateLimiter!Init, Counted, Remembered
<1>3. RateLimiter!WithinLimit
  <2> SUFFICES ASSUME NEW s \in RateLimiter!Stores, NEW t \in 0..MaxTime
               PROVE  Cardinality(Passed(s, t)) <= Limit
    BY SameLimiterCardinality DEF RateLimiter!WithinLimit, Passed
  <2>1. Passed(s, t) = {}
    BY DEF RateLimiter!Init, Passed
  <2> QED
    BY <2>1, FS_EmptySet DEF RateLimiter!RateLimiterAssumption
<1> QED
  BY <1>1, <1>2, <1>3 DEF LimiterInv

LEMMA LimiterStepOfOffice == [OfficeNext]_all => [RateLimiter!Next]_RateLimiter!vars
<1>1. RateLimiterSteps => RateLimiter!Next
  BY DEF RateLimiterSteps
<1>2. limiter' = limiter => UNCHANGED RateLimiter!vars
  BY DEF limiter, RateLimiter!vars
<1>3. DeskSteps \/ BudgetSteps \/ OutreachSteps \/ AccessSteps \/ UNCHANGED all => limiter' = limiter
  BY DEF DeskSteps, BudgetSteps, OutreachSteps, AccessSteps, all
<1> QED
  BY <1>1, <1>2, <1>3 DEF OfficeNext

\* In no stretch of time as long as the window does a store let more calls pass
\* than the limit, whichever workers fail over to their own list or start
\* again (core/rate_limit.py).
THEOREM OfficeLimitHolds == OfficeSpec => []WithinLimit
<1>1. RateLimiter!RateLimiterAssumption
  BY OfficeAssumption
<1>2. OfficeInit => LimiterInv
  BY <1>1, LimiterInitInv DEF OfficeInit
<1>3. LimiterInv /\ [OfficeNext]_all => LimiterInv'
  BY <1>1, LimiterStepKeeps, LimiterStepOfOffice
<1>4. LimiterInv => WithinLimit
  BY DEF LimiterInv, WithinLimit
<1> QED
  BY <1>2, <1>3, <1>4, PTL DEF OfficeSpec

-----------------------------------------------------------------------------
(***************************************************************************)
(* What is spent: the sum over a finite set of additions, in whatever order*)
(* they are taken.                                                         *)
(***************************************************************************)
Some(s) == CHOOSE x \in s : TRUE

\* The sum of s, given the sums of its subsets.
Summed(g, s) == IF s = {} THEN 0 ELSE Amount[Some(s)] + g[s \ {Some(s)}]

Sums(g, S) == g = [s \in SUBSET S |-> Summed(g, s)]

Iter(S) == CHOOSE g : Sums(g, S)

LEMMA SpentIsIter == \A S : Budget!Spent(S) = Iter(S)[S]
BY DEF Budget!Spent, Budget!MapThenSumSet, Budget!MapThenFoldSet, Iter, Sums, Summed, Some

Charges == FiniteSubsetsOf(Additions)

LEMMA ChargesWithout ==
  ASSUME NEW S \in Charges
  PROVE  /\ S \subseteq Additions /\ IsFiniteSet(S)
         /\ \A U \in SUBSET S : U \in Charges
         /\ S # {} => Some(S) \in S
BY FS_Subset DEF Charges, FiniteSubsetsOf, Some

\* Of finite sets of additions, some has no other below it.
LEMMA Smallest ==
  ASSUME NEW T, T \subseteq Charges, T # {}
  PROVE  \E S \in T : \A U \in T : U \subseteq S => U = S
<1>1. PICK S \in T : \A U \in T : <<U, S>> \notin StrictSubsetOrdering(Additions)
  BY FS_StrictSubsetOrderingWellFounded, WFMin DEF Charges
<1>2. \A U \in T : U \in SUBSET Additions
  BY ChargesWithout
<1>3. ASSUME NEW U \in T, U \subseteq S, U # S PROVE FALSE
  <2>1. <<U, S>> \in (SUBSET Additions) \X (SUBSET Additions)
    BY <1>2
  <2>2. <<U, S>> \in StrictSubsetOrdering(Additions)
    BY <2>1, <1>3 DEF StrictSubsetOrdering
  <2> QED
    BY <2>2, <1>1
<1> QED
  BY <1>3

\* Two tables of sums agree where both are defined.
LEMMA SumsAgree ==
  ASSUME NEW S \in Charges, NEW U, S \subseteq U, NEW g, NEW h, Sums(g, S), Sums(h, U)
  PROVE  \A s \in SUBSET S : g[s] = h[s]
<1> DEFINE T == {s \in SUBSET S : g[s] # h[s]}
<1> SUFFICES ASSUME T # {} PROVE FALSE
  OBVIOUS
<1>1. T \subseteq Charges /\ \A m \in T : m \in SUBSET S /\ g[m] # h[m]
  BY ChargesWithout
<1>0. \A m \in SUBSET S : g[m] # h[m] => m \in T
  OBVIOUS
<1> HIDE DEF T
<1>t. PICK m \in T : \A u \in T : u \subseteq m => u = m
  BY <1>1, Smallest
<1>2. m \in SUBSET S /\ g[m] # h[m] /\ m \in SUBSET U
  BY <1>1, <1>t
<1>3. g[m] = Summed(g, m) /\ h[m] = Summed(h, m)
  BY <1>2, Zenon DEF Sums
<1>4. m # {}
  BY <1>2, <1>3 DEF Summed
<1>5. Some(m) \in m
  BY <1>1, <1>4, <1>t, ChargesWithout
<1>6. g[m \ {Some(m)}] = h[m \ {Some(m)}]
  BY <1>0, <1>2, <1>5, <1>t
<1> QED
  BY <1>2, <1>3, <1>4, <1>6 DEF Summed

LEMMA SumsExist == \A S \in Charges : Sums(Iter(S), S)
<1> DEFINE T == {S \in Charges : ~\E g : Sums(g, S)}
<1>1. ASSUME T # {} PROVE FALSE
  <2>0. \A S : S \in T <=> S \in Charges /\ ~\E g : Sums(g, S)
    OBVIOUS
  <2> HIDE DEF T
  <2>1. PICK S \in T : \A U \in T : U \subseteq S => U = S
    BY <1>1, <2>0, Smallest
  <2>2. S \in Charges /\ ~\E g : Sums(g, S)
    BY <2>0, <2>1
  <2>3. ASSUME NEW U \in SUBSET S, U # S PROVE U \in Charges /\ Sums(Iter(U), U)
    <3>1. U \in Charges /\ U \notin T
      BY <2>1, <2>2, <2>3, ChargesWithout
    <3>2. \E g : Sums(g, U)
      BY <3>1, <2>0
    <3> QED
      BY <3>1, <3>2 DEF Iter
  <2> DEFINE sum(s) == IF s = {} THEN 0 ELSE Amount[Some(s)] + Iter(s \ {Some(s)})[s \ {Some(s)}]
             table == [s \in SUBSET S |-> sum(s)]
  <2>4. ASSUME NEW s \in SUBSET S PROVE sum(s) = Summed(table, s)
    <3>1. CASE s = {}
      BY <3>1 DEF Summed
    <3>2. CASE s # {}
      <4> DEFINE rest == s \ {Some(s)}
      <4>1. s \in Charges /\ Some(s) \in s
        BY <2>2, <2>4, <3>2, ChargesWithout
      <4>2. rest \in SUBSET S /\ rest # S
        BY <4>1, <2>4
      <4>3. rest \in Charges /\ Sums(Iter(rest), rest)
        BY <4>2, <2>3
      <4>4. table[rest] = sum(rest)
        BY <4>2
      <4>5. Iter(rest)[rest] = Summed(Iter(rest), rest)
        <5>1. rest \in SUBSET rest
          OBVIOUS
        <5> HIDE DEF rest
        <5> QED
          BY <4>3, <5>1, Zenon DEF Sums
      <4> HIDE DEF rest, table
      <4>6. CASE rest = {}
        <5>1. sum(rest) = Iter(rest)[rest]
          BY <4>5, <4>6 DEF Summed
        <5> QED
          BY <5>1, <4>4, <3>2 DEF Summed, rest
      <4>7. CASE rest # {}
        <5> DEFINE less == rest \ {Some(rest)}
        <5>1. Some(rest) \in rest /\ less \in Charges /\ less \subseteq rest
          BY <4>3, <4>7, ChargesWithout
        <5>2. less \in SUBSET S /\ less # S
          BY <5>1, <4>2
        <5>3. Sums(Iter(less), less) /\ less \in SUBSET less
          BY <5>2, <2>3
        <5>4. Iter(less)[less] = Iter(rest)[less]
          BY <5>1, <5>3, <4>3, SumsAgree
        <5>5. sum(rest) = Iter(rest)[rest]
          BY <5>4, <4>5, <4>7 DEF Summed
        <5> QED
          BY <5>5, <4>4, <3>2 DEF Summed, rest
      <4> QED
        BY <4>6, <4>7
    <3> QED
      BY <3>1, <3>2
  <2>5. table = [s \in SUBSET S |-> Summed(table, s)]
    <3> HIDE DEF sum
    <3>1. \A s \in SUBSET S : sum(s) = Summed(table, s)
      BY <2>4
    <3> QED
      BY <3>1, Zenon
  <2>6. Sums(table, S)
    BY <2>5, Zenon DEF Sums
  <2> QED
    BY <2>2, <2>6
<1>2. \A S \in Charges : \E g : Sums(g, S)
  BY <1>1
<1> QED
  BY <1>2 DEF Iter

LEMMA SpentStep ==
  ASSUME NEW S \in Charges
  PROVE  /\ S = {} => Budget!Spent(S) = 0
         /\ S # {} => Budget!Spent(S) = Amount[Some(S)] + Budget!Spent(S \ {Some(S)})
<1>1. Sums(Iter(S), S) /\ S \in SUBSET S
  BY SumsExist
<1>2. Iter(S)[S] = Summed(Iter(S), S)
  BY <1>1, Zenon DEF Sums
<1>3. ASSUME S # {} PROVE Budget!Spent(S) = Amount[Some(S)] + Budget!Spent(S \ {Some(S)})
  <2> DEFINE rest == S \ {Some(S)}
  <2>1. rest \in Charges /\ rest \subseteq S /\ rest \in SUBSET rest
    BY ChargesWithout
  <2>2. Sums(Iter(rest), rest)
    BY <2>1, SumsExist
  <2>3. Iter(rest)[rest] = Iter(S)[rest]
    BY <2>1, <2>2, <1>1, SumsAgree
  <2> QED
    BY <2>3, <1>2, <1>3, SpentIsIter DEF Summed
<1> QED
  BY <1>2, <1>3, SpentIsIter DEF Summed

LEMMA AmountsNatural == /\ Amount \in [Additions -> Nat] /\ Ceiling \in Nat
BY OfficeAssumption DEF Budget!BudgetAssumption

LEMMA SpentNatural == \A S \in Charges : Budget!Spent(S) \in Nat
<1> DEFINE T == {S \in Charges : Budget!Spent(S) \notin Nat}
<1> SUFFICES ASSUME T # {} PROVE FALSE
  OBVIOUS
<1>0. \A S : S \in T <=> S \in Charges /\ Budget!Spent(S) \notin Nat
  OBVIOUS
<1> HIDE DEF T
<1>t. PICK S \in T : \A U \in T : U \subseteq S => U = S
  BY <1>0, Smallest
<1>1. S \in Charges /\ Budget!Spent(S) \notin Nat
  BY <1>0, <1>t
<1>2. S # {}
  <2>1. S = {} => Budget!Spent(S) = 0
    BY <1>1, SpentStep
  <2> QED
    BY <2>1, <1>1
<1>3. Some(S) \in S /\ Some(S) \in Additions /\ S \ {Some(S)} \in Charges
  BY <1>1, <1>2, ChargesWithout
<1>4. Budget!Spent(S \ {Some(S)}) \in Nat
  BY <1>0, <1>3, <1>t
<1>5. Budget!Spent(S) = Amount[Some(S)] + Budget!Spent(S \ {Some(S)})
  BY <1>1, <1>2, SpentStep
<1> QED
  BY <1>1, <1>3, <1>4, <1>5, AmountsNatural

\* Any addition may be taken out first.
LEMMA SpentWithout ==
  \A S \in Charges : \A a \in S : Budget!Spent(S) = Amount[a] + Budget!Spent(S \ {a})
<1> DEFINE Apart(S) == \A a \in S : Budget!Spent(S) = Amount[a] + Budget!Spent(S \ {a})
           T == {S \in Charges : ~Apart(S)}
<1> HIDE DEF Apart
<1> SUFFICES ASSUME T # {} PROVE FALSE
  BY DEF Apart
<1>0. \A S : S \in T <=> S \in Charges /\ ~Apart(S)
  OBVIOUS
<1> HIDE DEF T
<1>t. PICK S \in T : \A U \in T : U \subseteq S => U = S
  BY <1>0, Smallest
<1>1. S \in Charges /\ ~Apart(S)
  BY <1>0, <1>t
<1>2. ASSUME NEW U \in SUBSET S, U # S PROVE U \in Charges /\ Apart(U)
  BY <1>0, <1>1, <1>2, <1>t, ChargesWithout
<1>3. PICK a \in S : Budget!Spent(S) # Amount[a] + Budget!Spent(S \ {a})
  BY <1>1 DEF Apart
<1> DEFINE x == Some(S)
<1>4. x \in S /\ a \in Additions /\ x \in Additions
  BY <1>1, <1>3, ChargesWithout
<1>5. Budget!Spent(S) = Amount[x] + Budget!Spent(S \ {x})
  BY <1>1, <1>3, SpentStep
<1> HIDE DEF x
<1>6. a # x
  BY <1>3, <1>5
<1>7. Budget!Spent(S \ {x}) = Amount[a] + Budget!Spent((S \ {x}) \ {a})
  BY <1>2, <1>3, <1>4, <1>6 DEF Apart
<1>8. Budget!Spent(S \ {a}) = Amount[x] + Budget!Spent((S \ {a}) \ {x})
  BY <1>2, <1>3, <1>4, <1>6 DEF Apart
<1>9. (S \ {x}) \ {a} = (S \ {a}) \ {x} /\ (S \ {x}) \ {a} \in Charges
  BY <1>1, ChargesWithout
<1>10. Budget!Spent((S \ {x}) \ {a}) \in Nat /\ Amount[a] \in Nat /\ Amount[x] \in Nat
  BY <1>4, <1>9, SpentNatural, AmountsNatural
<1> DEFINE n == Budget!Spent((S \ {a}) \ {x})
<1>11. n \in Nat /\ Budget!Spent(S) = Amount[x] + (Amount[a] + n) /\ Budget!Spent(S \ {a}) = Amount[x] + n
  BY <1>5, <1>7, <1>8, <1>9, <1>10
<1> HIDE DEF n
<1>12. Amount[x] + (Amount[a] + n) = Amount[a] + (Amount[x] + n)
  BY <1>10, <1>11
<1> QED
  BY <1>3, <1>11, <1>12

LEMMA SpentGrows ==
  \A U \in Charges : \A S \in SUBSET U : Budget!Spent(S) <= Budget!Spent(U)
<1> DEFINE Above(U) == \A S \in SUBSET U : Budget!Spent(S) <= Budget!Spent(U)
           T == {U \in Charges : ~Above(U)}
<1> HIDE DEF Above
<1> SUFFICES ASSUME T # {} PROVE FALSE
  BY DEF Above
<1>0. \A U : U \in T <=> U \in Charges /\ ~Above(U)
  OBVIOUS
<1> HIDE DEF T
<1>t. PICK U \in T : \A V \in T : V \subseteq U => V = U
  BY <1>0, Smallest
<1>1. U \in Charges /\ ~Above(U)
  BY <1>0, <1>t
<1>2. PICK S \in SUBSET U : ~(Budget!Spent(S) <= Budget!Spent(U))
  BY <1>1 DEF Above
<1>3. Budget!Spent(U) \in Nat
  BY <1>1, SpentNatural
<1>4. S # U
  BY <1>2, <1>3
<1>5. PICK a \in U : a \notin S
  BY <1>2, <1>4
<1>6. U \ {a} \in Charges /\ U \ {a} # U /\ S \in SUBSET (U \ {a}) /\ S \in Charges /\ a \in Additions
  BY <1>1, <1>2, <1>5, ChargesWithout
<1>7. Above(U \ {a})
  BY <1>0, <1>6, <1>t
<1>8. Budget!Spent(S) <= Budget!Spent(U \ {a})
  BY <1>6, <1>7 DEF Above
<1>9. Budget!Spent(U) = Amount[a] + Budget!Spent(U \ {a})
  BY <1>1, <1>5, SpentWithout
<1>10. Budget!Spent(S) \in Nat /\ Budget!Spent(U \ {a}) \in Nat /\ Amount[a] \in Nat
  BY <1>6, SpentNatural, AmountsNatural
<1> QED
  BY <1>2, <1>8, <1>9, <1>10

(***************************************************************************)
(* The ceiling.                                                            *)
(***************************************************************************)
\* The expenses that a may have read.
ReadBy(a) == {e \in expenses : BudgetOrg[e] = BudgetOrg[a] /\ {a, e} \notin together}

AdditionsKnown ==
  \A a, b \in Additions : a # b /\ budgetPc[a] = "commit" /\ budgetPc[b] = "commit" => {a, b} \in together

\* What was not added together with a was there when a read the total, save for
\* what was deleted since.
ReadsStand ==
  \A a \in Additions :
    budgetPc[a] = "commit" =>
      /\ total[a] + Amount[a] <= Ceiling
      /\ \A es \in SUBSET ReadBy(a) : Budget!Spent(es) <= total[a]

\* The inductive invariant.
CeilingInv ==
  /\ Budget!TypeOK /\ IsFiniteSet(expenses) /\ Budget!CeilingHeld
  /\ AdditionsKnown /\ ReadsStand

LEMMA ExpensesCharge ==
  ASSUME Budget!TypeOK, IsFiniteSet(expenses)
  PROVE  \A es \in SUBSET expenses : es \in Charges
BY FS_Subset DEF Budget!TypeOK, Charges, FiniteSubsetsOf

LEMMA AddReadKeeps ==
  ASSUME CeilingInv, NEW a \in Additions, Budget!AddRead(a)
  PROVE  CeilingInv'
<1> DEFINE spent == Budget!TotalSpent(BudgetOrg[a])
<1>1. /\ budgetPc[a] = "new" /\ spent + Amount[a] <= Ceiling
      /\ total' = [total EXCEPT ![a] = spent] /\ budgetPc' = [budgetPc EXCEPT ![a] = "commit"]
      /\ together' = together \cup {{a, b} : b \in Budget!InFlight \cap Additions}
      /\ expenses' = expenses /\ target' = target
  BY DEF Budget!AddRead, Budget!Allowed
<1>2. /\ expenses \subseteq Additions
      /\ budgetPc \in [Additions \cup Deletions -> {"new", "commit", "done", "failed"}]
      /\ total \in [Additions -> Nat] /\ target \in [Deletions -> Additions \cup {None}]
      /\ together \subseteq SUBSET Additions /\ IsFiniteSet(expenses)
  BY DEF CeilingInv, Budget!TypeOK, Budget!Requests
<1>3. \A es \in SUBSET expenses : es \in Charges
  BY ExpensesCharge DEF CeilingInv
<1>4. /\ spent = Budget!Spent({e \in expenses : BudgetOrg[e] = BudgetOrg[a]})
      /\ {e \in expenses : BudgetOrg[e] = BudgetOrg[a]} \in Charges
  BY <1>3 DEF Budget!TotalSpent
<1>5. spent \in Nat
  BY <1>4, SpentNatural
<1>6. \A es \in SUBSET {e \in expenses : BudgetOrg[e] = BudgetOrg[a]} : Budget!Spent(es) <= spent
  BY <1>4, SpentGrows
<1> HIDE DEF spent
<1>7. Budget!TypeOK'
  BY <1>1, <1>2, <1>5 DEF Budget!TypeOK, Budget!Requests
<1>8. Budget!CeilingHeld'
  BY <1>1 DEF CeilingInv, Budget!CeilingHeld, Budget!Spent, Budget!MapThenSumSet, Budget!MapThenFoldSet
<1>9. AdditionsKnown'
  <2> SUFFICES ASSUME NEW b \in Additions, NEW c \in Additions, b # c, budgetPc'[b] = "commit", budgetPc'[c] = "commit"
               PROVE  {b, c} \in together'
    BY DEF AdditionsKnown
  <2>1. \A d \in Additions \ {a} : budgetPc'[d] = budgetPc[d]
    BY <1>1, <1>2
  <2>2. \A d \in Additions : budgetPc[d] = "commit" => {a, d} \in together' /\ {d, a} = {a, d}
    BY <1>1 DEF Budget!InFlight, Budget!Requests
  <2>3. CASE b # a /\ c # a
    BY <2>1, <2>3, <1>1 DEF CeilingInv, AdditionsKnown
  <2>4. CASE b = a
    BY <2>1, <2>2, <2>4
  <2>5. CASE c = a
    BY <2>1, <2>2, <2>5
  <2> QED
    BY <2>3, <2>4, <2>5
<1>10. ReadsStand'
  <2> SUFFICES ASSUME NEW b \in Additions, budgetPc'[b] = "commit"
               PROVE  /\ total'[b] + Amount[b] <= Ceiling
                      /\ \A es \in SUBSET ReadBy(b)' : Budget!Spent(es) <= total'[b]
    BY DEF ReadsStand, Budget!Spent, Budget!MapThenSumSet, Budget!MapThenFoldSet
  <2>1. CASE b = a
    <3>1. total'[b] = spent
      BY <2>1, <1>1, <1>2
    <3>2. ReadBy(b)' \subseteq {e \in expenses : BudgetOrg[e] = BudgetOrg[a]}
      BY <2>1, <1>1 DEF ReadBy
    <3> QED
      BY <2>1, <3>1, <3>2, <1>1, <1>6
  <2>2. CASE b # a
    <3>1. total'[b] = total[b] /\ budgetPc[b] = "commit"
      BY <2>2, <1>1, <1>2
    <3>2. ReadBy(b)' \subseteq ReadBy(b)
      BY <1>1 DEF ReadBy
    <3> QED
      BY <3>1, <3>2 DEF CeilingInv, ReadsStand
  <2> QED
    BY <2>1, <2>2
<1> QED
  BY <1>1, <1>2, <1>7, <1>8, <1>9, <1>10 DEF CeilingInv

LEMMA AddCommitKeeps ==
  ASSUME CeilingInv, NEW a \in Additions, Budget!AddCommit(a)
  PROVE  CeilingInv'
<1>1. /\ budgetPc[a] = "commit" /\ expenses' = expenses \cup {a}
      /\ budgetPc' = [budgetPc EXCEPT ![a] = "done"] /\ UNCHANGED <<total, target, together>>
  BY DEF Budget!AddCommit
<1>2. /\ expenses \subseteq Additions
      /\ budgetPc \in [Additions \cup Deletions -> {"new", "commit", "done", "failed"}]
      /\ total \in [Additions -> Nat] /\ IsFiniteSet(expenses)
  BY DEF CeilingInv, Budget!TypeOK, Budget!Requests
<1>3. Budget!TypeOK'
  BY <1>1, <1>2 DEF CeilingInv, Budget!TypeOK, Budget!Requests
<1>4. IsFiniteSet(expenses')
  BY <1>1, <1>2, FS_AddElement
<1>5. \A es \in SUBSET expenses' : es \in Charges
  BY <1>1, <1>2, <1>4, FS_Subset DEF Charges, FiniteSubsetsOf
<1>6. total[a] \in Nat /\ Amount[a] \in Nat /\ Ceiling \in Nat /\ total[a] + Amount[a] <= Ceiling
  BY <1>1, <1>2, AmountsNatural DEF CeilingInv, ReadsStand
<1>7. Budget!CeilingHeld'
  <2> SUFFICES ASSUME NEW org \in BudgetOrgs, NEW es \in SUBSET {e \in expenses' : BudgetOrg[e] = org},
                      \A b, c \in es : b # c => {b, c} \notin together
               PROVE  Budget!Spent(es) <= Ceiling
    BY <1>1 DEF Budget!CeilingHeld, Budget!Spent, Budget!MapThenSumSet, Budget!MapThenFoldSet
  <2>1. CASE a \notin es
    <3>1. es \in SUBSET {e \in expenses : BudgetOrg[e] = org}
      BY <2>1, <1>1
    <3> QED
      BY <3>1 DEF CeilingInv, Budget!CeilingHeld
  <2>2. CASE a \in es
    <3>1. es \ {a} \in SUBSET ReadBy(a)
      BY <2>2, <1>1 DEF ReadBy
    <3>2. Budget!Spent(es \ {a}) <= total[a]
      BY <3>1, <1>1 DEF CeilingInv, ReadsStand
    <3>3. es \in Charges /\ es \ {a} \in Charges
      BY <1>5
    <3>4. Budget!Spent(es) = Amount[a] + Budget!Spent(es \ {a}) /\ Budget!Spent(es \ {a}) \in Nat
      BY <3>3, <2>2, SpentWithout, SpentNatural
    <3> QED
      BY <3>2, <3>4, <1>6
  <2> QED
    BY <2>1, <2>2
<1>8. \A b \in Additions : budgetPc'[b] = "commit" => b # a /\ budgetPc[b] = "commit"
  BY <1>1, <1>2
<1>9. AdditionsKnown'
  BY <1>1, <1>8 DEF CeilingInv, AdditionsKnown
<1>10. ReadsStand'
  <2> SUFFICES ASSUME NEW b \in Additions, budgetPc'[b] = "commit"
               PROVE  /\ total[b] + Amount[b] <= Ceiling
                      /\ \A es \in SUBSET ReadBy(b)' : Budget!Spent(es) <= total[b]
    BY <1>1 DEF ReadsStand, Budget!Spent, Budget!MapThenSumSet, Budget!MapThenFoldSet
  <2>1. {b, a} \in together /\ budgetPc[b] = "commit"
    BY <1>1, <1>8 DEF CeilingInv, AdditionsKnown
  <2>2. ReadBy(b)' \subseteq ReadBy(b)
    BY <2>1, <1>1 DEF ReadBy
  <2> QED
    BY <2>1, <2>2 DEF CeilingInv, ReadsStand
<1> QED
  BY <1>3, <1>4, <1>7, <1>9, <1>10 DEF CeilingInv

\* A step that adds nothing and begins no addition.
LEMMA LessKeeps ==
  ASSUME CeilingInv, Budget!TypeOK', expenses' \subseteq expenses, UNCHANGED <<total, together>>,
         \A a \in Additions : budgetPc'[a] = "commit" => budgetPc[a] = "commit"
  PROVE  CeilingInv'
<1>1. IsFiniteSet(expenses')
  BY FS_Subset DEF CeilingInv
<1>2. Budget!CeilingHeld'
  <2> SUFFICES ASSUME NEW org \in BudgetOrgs, NEW es \in SUBSET {e \in expenses' : BudgetOrg[e] = org},
                      \A b, c \in es : b # c => {b, c} \notin together
               PROVE  Budget!Spent(es) <= Ceiling
    BY DEF Budget!CeilingHeld, Budget!Spent, Budget!MapThenSumSet, Budget!MapThenFoldSet
  <2>1. es \in SUBSET {e \in expenses : BudgetOrg[e] = org}
    OBVIOUS
  <2> QED
    BY <2>1 DEF CeilingInv, Budget!CeilingHeld
<1>3. AdditionsKnown'
  BY DEF CeilingInv, AdditionsKnown
<1>4. ReadsStand'
  <2>1. \A b \in Additions : ReadBy(b)' \subseteq ReadBy(b)
    BY DEF ReadBy
  <2> SUFFICES ASSUME NEW b \in Additions, budgetPc'[b] = "commit"
               PROVE  /\ total[b] + Amount[b] <= Ceiling
                      /\ \A es \in SUBSET ReadBy(b)' : Budget!Spent(es) <= total[b]
    BY DEF ReadsStand, Budget!Spent, Budget!MapThenSumSet, Budget!MapThenFoldSet
  <2> QED
    BY <2>1 DEF CeilingInv, ReadsStand
<1> QED
  BY <1>1, <1>2, <1>3, <1>4 DEF CeilingInv

LEMMA BudgetStepKeeps ==
  ASSUME CeilingInv, [Budget!Next]_Budget!vars
  PROVE  CeilingInv'
<1>1. /\ expenses \subseteq Additions
      /\ budgetPc \in [Additions \cup Deletions -> {"new", "commit", "done", "failed"}]
      /\ total \in [Additions -> Nat] /\ target \in [Deletions -> Additions \cup {None}]
      /\ together \subseteq SUBSET Additions
  BY DEF CeilingInv, Budget!TypeOK, Budget!Requests
<1>2. ASSUME NEW d \in Deletions, NEW a \in Additions, Budget!DeleteRead(d, a) PROVE CeilingInv'
  <2>1. /\ target' = [target EXCEPT ![d] = a] /\ budgetPc' = [budgetPc EXCEPT ![d] = "commit"]
        /\ UNCHANGED <<expenses, total, together>>
    BY <1>2 DEF Budget!DeleteRead
  <2>2. Budget!TypeOK'
    BY <2>1, <1>1 DEF Budget!TypeOK, Budget!Requests
  <2>3. \A b \in Additions : budgetPc'[b] = budgetPc[b]
    BY <2>1, <1>1, OfficeAssumption DEF Budget!BudgetAssumption
  <2> QED
    BY <2>1, <2>2, <2>3, LessKeeps
<1>3. ASSUME NEW d \in Deletions, Budget!DeleteCommit(d) PROVE CeilingInv'
  <2>1. /\ expenses' = expenses \ {target[d]} /\ budgetPc' = [budgetPc EXCEPT ![d] = "done"]
        /\ UNCHANGED <<total, target, together>>
    BY <1>3 DEF Budget!DeleteCommit
  <2>2. Budget!TypeOK'
    BY <2>1, <1>1 DEF Budget!TypeOK, Budget!Requests
  <2>3. \A b \in Additions : budgetPc'[b] = "commit" => budgetPc[b] = "commit"
    BY <2>1, <1>1
  <2> QED
    BY <2>1, <2>2, <2>3, LessKeeps
<1>4. ASSUME NEW r, Budget!Fail(r) PROVE CeilingInv'
  <2>1. /\ r \in Additions \cup Deletions /\ budgetPc' = [budgetPc EXCEPT ![r] = "failed"]
        /\ UNCHANGED <<expenses, total, target, together>>
    BY <1>4 DEF Budget!Fail, Budget!InFlight, Budget!Requests
  <2>2. Budget!TypeOK'
    BY <2>1, <1>1 DEF Budget!TypeOK, Budget!Requests
  <2>3. \A b \in Additions : budgetPc'[b] = "commit" => budgetPc[b] = "commit"
    BY <2>1, <1>1
  <2> QED
    BY <2>1, <2>2, <2>3, LessKeeps
<1>5. CASE UNCHANGED Budget!vars
  <2>1. UNCHANGED <<expenses, budgetPc, total, target, together>>
    BY <1>5 DEF Budget!vars
  <2>2. Budget!TypeOK'
    BY <2>1, <1>1 DEF Budget!TypeOK, Budget!Requests
  <2> QED
    BY <2>1, <2>2, LessKeeps
<1> QED
  BY <1>2, <1>3, <1>4, <1>5, AddReadKeeps, AddCommitKeeps DEF Budget!Next

LEMMA BudgetInitInv == ASSUME Budget!Init PROVE CeilingInv
<1>1. /\ expenses = {} /\ budgetPc = [r \in Additions \cup Deletions |-> "new"]
      /\ total = [a \in Additions |-> 0] /\ target = [d \in Deletions |-> None] /\ together = {}
  BY DEF Budget!Init, Budget!Requests
<1>2. Budget!TypeOK
  BY <1>1 DEF Budget!TypeOK, Budget!Requests
<1>3. IsFiniteSet(expenses) /\ {} \in Charges
  BY <1>1, FS_EmptySet DEF Charges, FiniteSubsetsOf
<1>4. Budget!CeilingHeld
  <2>1. Budget!Spent({}) = 0 /\ Ceiling \in Nat
    BY <1>3, SpentStep, AmountsNatural
  <2>2. Budget!Spent({}) <= Ceiling
    BY <2>1
  <2> SUFFICES ASSUME NEW org \in BudgetOrgs, NEW es \in SUBSET {e \in expenses : BudgetOrg[e] = org}
               PROVE  Budget!Spent(es) <= Ceiling
    BY DEF Budget!CeilingHeld
  <2>3. es = {}
    BY <1>1
  <2> QED
    BY <2>2, <2>3
<1>5. AdditionsKnown /\ ReadsStand
  BY <1>1 DEF AdditionsKnown, ReadsStand
<1> QED
  BY <1>2, <1>3, <1>4, <1>5 DEF CeilingInv

LEMMA BudgetStepOfOffice == [OfficeNext]_all => [Budget!Next]_Budget!vars
<1>1. BudgetSteps => Budget!Next
  BY DEF BudgetSteps
<1>2. budget' = budget => UNCHANGED Budget!vars
  BY DEF budget, Budget!vars
<1>3. DeskSteps \/ OutreachSteps \/ RateLimiterSteps \/ AccessSteps \/ UNCHANGED all => budget' = budget
  BY DEF DeskSteps, OutreachSteps, RateLimiterSteps, AccessSteps, all
<1> QED
  BY <1>1, <1>2, <1>3 DEF OfficeNext

\* The expenses of an organization that were not added together stay within the
\* statutory ceiling, for any number of additions and deletions, any amounts
\* and any ceiling (services/expense_service.py).
THEOREM OfficeCeilingHeld == OfficeSpec => []CeilingHeld
<1>1. OfficeInit => CeilingInv
  BY BudgetInitInv DEF OfficeInit
<1>2. CeilingInv /\ [OfficeNext]_all => CeilingInv'
  BY BudgetStepKeeps, BudgetStepOfOffice
<1>3. CeilingInv => CeilingHeld
  BY DEF CeilingInv, CeilingHeld
<1> QED
  BY <1>1, <1>2, <1>3, PTL DEF OfficeSpec

-----------------------------------------------------------------------------
(***************************************************************************)
(* What leaves is logged and counted, members of a group are written to    *)
(* once, and what was sent stands.                                         *)
(***************************************************************************)
\* An instance has a cardinality of its own, with the same definition.
LEMMA SameOutreachCardinality == \A S : Outreach!Cardinality(S) = Cardinality(S)
BY Zenon DEF Outreach!Cardinality, Cardinality

\* Requests on a group that are in flight together are known to be.
GroupFlightsKnown ==
  \A p, q \in Outreach!InFlight :
    p # q /\ order[p].group = order[q].group /\ order[p].group # None => {p, q} \in overlapped

\* What a request is about, and where it may be; a group that is there was
\* created by a request that is done.
PlaceKept(r) ==
  /\ r \in Drafts \cup Sends /\ pc[r] # "new" => order[r].group \in Creates /\ pc[order[r].group] = "done"
  /\ r \in Blasts \cup Campaigns /\ pc[r] # "new" => order[r].group = None
  /\ r \in Outreach!Messengers => pc[r] # "draft"
  /\ r \in Drafts => pc[r] # "send"
  /\ r \in Outreach!Groups => pc[r] = "done"

\* While a request sends, each of its targets is still to be written to or has
\* one answer, and what is answered to have left has left, unless it went to nobody.
AnswersKept(r) ==
  r \in Outreach!Messengers =>
    /\ IsFiniteSet(answers[r])
    /\ \A a \in answers[r] : a.by = r /\ a.to \in order[r].targets \ todo[r] /\ (a.ok => a \in inbox \/ Outreach!SentToNobody(a))
    /\ \A a, b \in answers[r] : a.to = b.to => a = b
    /\ pc[r] = "send" =>
         /\ todo[r] \subseteq order[r].targets
         /\ \A v \in order[r].targets \ todo[r] : \E a \in answers[r] : a.to = v
    /\ pc[r] # "send" => answers[r] = {}

\* Logs are of requests that are done, messages of requests that were made.
LogsKept ==
  /\ \A l \in logs : pc[l.by] = "done"
  /\ \A m \in inbox : pc[m.by] # "new"

\* A first draft has loaded a group without a text; a group that was sent since
\* a draft has loaded it was sent by a request that overlapped with it.
DraftKept(d) ==
  d \in Drafts /\ pc[d] = "draft" =>
    /\ seen[d].status \in {"DRAFT", "READY"}
    /\ seen[d].status = "DRAFT" => seen[d].text = None
    /\ seen[d].status = "READY" => group[order[d].group].status # "DRAFT"
    /\ group[order[d].group].status = "SENT" =>
         \E r \in Sends : pc[r] # "new" /\ order[r].group = order[d].group /\ {d, r} \in overlapped
    /\ \A q \in Sends :
         pc[q] = "done" /\ order[q].group = order[d].group => {d, q} \in overlapped \/ Outreach!Redrafted(q)

\* What a request goes by is in order.
RequestKept(r) == PlaceKept(r) /\ AnswersKept(r) /\ DraftKept(r)

RequestsKept == \A r \in Outreach!Requests : RequestKept(r)

\* A group that was sent is SENT unless a draft has made it ready again, and
\* one that is not drafted has no text.
GroupsKept ==
  /\ \A q \in Sends :
       pc[q] = "done" /\ order[q].group \in Outreach!Groups =>
         group[order[q].group].status = "SENT" \/ Outreach!Redrafted(q)
  /\ \A g \in Outreach!Groups : group[g].status = "DRAFT" => group[g].text = None

\* Two sends of a group overlapped, or a draft came in between.
SendsApart ==
  \A q, r \in Sends :
    /\ q # r /\ order[q].group = order[r].group
    /\ pc[q] \in {"send", "done"} /\ pc[r] \in {"send", "done"}
    => {q, r} \in overlapped \/ Outreach!Redrafted(q) \/ Outreach!Redrafted(r)

OutreachInv ==
  /\ Outreach!TypeOK /\ Outreach!LogsTellTheTruth /\ GroupFlightsKnown /\ LogsKept /\ RequestsKept /\
       GroupsKept /\ SendsApart

-----------------------------------------------------------------------------
LEMMA MessengersApart ==
  ASSUME Outreach!OutreachAssumption
  PROVE  /\ Creates \cap Drafts = {} /\ Creates \cap Outreach!Messengers = {} /\
           Drafts \cap Outreach!Messengers = {}
         /\ Sends \cap Blasts = {} /\ Sends \cap Campaigns = {} /\ Blasts \cap Campaigns = {}
         /\ Creates \subseteq Outreach!Requests /\ Drafts \subseteq Outreach!Requests /\
              Outreach!Messengers \subseteq Outreach!Requests
         /\ Sends \subseteq Outreach!Messengers /\ Blasts \subseteq Outreach!Messengers /\
              Campaigns \subseteq Outreach!Messengers
         /\ None \notin Creates /\ None \notin Texts /\ OrgOf \in [Voters -> Orgs]
<1>1. /\ DOMAIN Outreach!Kinds = 1..5 /\ Outreach!Kinds[1] = Creates /\ Outreach!Kinds[2] = Drafts /\
           Outreach!Kinds[3] = Sends
      /\ Outreach!Kinds[4] = Blasts /\ Outreach!Kinds[5] = Campaigns
  BY DEF Outreach!Kinds
<1>2. \A i, j \in 1..5 : i # j => Outreach!Kinds[i] \cap Outreach!Kinds[j] = {}
  BY <1>1 DEF Outreach!OutreachAssumption
<1>3. /\ Creates \cap Drafts = {} /\ Creates \cap Sends = {} /\ Creates \cap Blasts = {}
      /\ Creates \cap Campaigns = {}
  BY <1>1, <1>2
<1>4. /\ Drafts \cap Sends = {} /\ Drafts \cap Blasts = {} /\ Drafts \cap Campaigns = {}
      /\ Sends \cap Blasts = {} /\ Sends \cap Campaigns = {} /\ Blasts \cap Campaigns = {}
  BY <1>1, <1>2
<1> QED
  BY <1>3, <1>4 DEF Outreach!OutreachAssumption, Outreach!Requests, Outreach!Messengers

LEMMA OutreachTyped ==
  ASSUME Outreach!TypeOK
  PROVE  /\ group \in [Creates -> Outreach!Group] /\ logs \subseteq Outreach!Attempt /\
           campaign \in [Campaigns -> Outreach!Counters]
         /\ pc \in [Outreach!Requests -> {"new", "draft", "send", "done", "failed"}]
         /\ order \in [Outreach!Requests -> Outreach!Order] /\ seen \in [Outreach!Requests -> Outreach!Group]
         /\ todo \in [Outreach!Requests -> SUBSET Voters] /\
              answers \in [Outreach!Requests -> SUBSET Outreach!Attempt]
         /\ inbox \subseteq Outreach!Attempt /\ overlapped \subseteq SUBSET Outreach!Requests
         /\ Outreach!Groups \subseteq Creates /\ Outreach!InFlight \subseteq Outreach!Requests
BY DEF Outreach!TypeOK, Outreach!Groups, Outreach!InFlight

LEMMA OutreachFields ==
  /\ \A g \in Outreach!Group :
       g.status \in Outreach!GroupStatus /\ g.org \in Orgs \cup {None} /\ g.text \in Texts \cup {None} /\
         g.members \subseteq Voters
  /\ \A a \in Outreach!Attempt : a.by \in Outreach!Messengers /\ a.to \in Voters
  /\ \A o \in Outreach!Order : o.group \in Creates \cup {None} /\ o.targets \subseteq Voters
  /\ Outreach!NoGroup \in Outreach!Group /\ Outreach!NoGroup.status = "NONE" /\
       Outreach!NoOrder \in Outreach!Order /\ Outreach!NoOrder.group = None
BY DEF Outreach!Group, Outreach!Attempt, Outreach!Order, Outreach!NoGroup, Outreach!NoOrder,
   Outreach!GroupStatus

\* The typing of the groups that are there.
LEMMA GroupsTyped ==
  ASSUME Outreach!TypeOK
  PROVE  \A g \in Outreach!Groups :
           group[g].members \subseteq Outreach!VotersOf(group[g].org) \cap Mobile \cap roll
BY DEF Outreach!TypeOK

\* Orders for a group, and for nothing but voters.
LEMMA OrdersMade ==
  /\ \A g \in Creates : \A t \in Texts :
       /\ [Outreach!NoOrder EXCEPT !.group = g, !.text = t] \in Outreach!Order
       /\ [Outreach!NoOrder EXCEPT !.group = g, !.text = t].group = g
       /\ [Outreach!NoOrder EXCEPT !.group = g, !.text = t].text = t
  /\ \A g \in Creates : \A vs \in SUBSET Voters :
       /\ [Outreach!NoOrder EXCEPT !.group = g, !.targets = vs] \in Outreach!Order
       /\ [Outreach!NoOrder EXCEPT !.group = g, !.targets = vs].group = g
       /\ [Outreach!NoOrder EXCEPT !.group = g, !.targets = vs].targets = vs
  /\ \A vs \in SUBSET Voters :
       /\ [Outreach!NoOrder EXCEPT !.targets = vs] \in Outreach!Order
       /\ [Outreach!NoOrder EXCEPT !.targets = vs].group = None
       /\ [Outreach!NoOrder EXCEPT !.targets = vs].targets = vs
  /\ \A x \in Blasts \cup {None} : \A vs \in SUBSET Voters :
       /\ [Outreach!NoOrder EXCEPT !.stamp = x, !.targets = vs] \in Outreach!Order
       /\ [Outreach!NoOrder EXCEPT !.stamp = x, !.targets = vs].group = None
       /\ [Outreach!NoOrder EXCEPT !.stamp = x, !.targets = vs].targets = vs
BY DEF Outreach!NoOrder, Outreach!Order

-----------------------------------------------------------------------------
\* The request r goes on, others stay where they are.
Onward(r) ==
  /\ r \in Outreach!Requests /\ pc[r] # "done" /\ pc[r] # "failed"
  /\ \A q \in Outreach!Requests \ {r} : pc'[q] = pc[q] /\ order'[q] = order[q]
  /\ pc[r] # "new" => order'[r] = order[r]
  /\ pc'[r] # "new"
  /\ overlapped \subseteq overlapped'

\* A draft that was committed stays so.
LEMMA RedraftedStays ==
  ASSUME OutreachInv, NEW r, Onward(r), NEW q \in Outreach!Requests, pc[q] # "new"
  PROVE  Outreach!Redrafted(q) => Outreach!Redrafted(q)'
<1>1. order'[q] = order[q]
  BY DEF Onward
<1>2. \A d \in Drafts : pc[d] = "done" => pc'[d] = "done" /\ order'[d] = order[d]
  BY DEF Onward, Outreach!Requests
<1> QED
  BY <1>1, <1>2 DEF Outreach!Redrafted, Onward

LEMMA Begins ==
  ASSUME OutreachInv, NEW r \in Outreach!Requests, NEW step \in {"draft", "send", "done"},
    NEW o \in Outreach!Order, Outreach!Begin(r, step, o)
  PROVE  /\ pc[r] = "new" /\ pc'[r] = step /\ order'[r] = o /\ Onward(r)
         /\ pc' \in [Outreach!Requests -> {"new", "draft", "send", "done", "failed"}] /\
              order' \in [Outreach!Requests -> Outreach!Order]
         /\ overlapped' \subseteq SUBSET Outreach!Requests
         /\ \A p, q \in Outreach!Requests \ {r} : {p, q} \in overlapped' <=> {p, q} \in overlapped
         /\ \A q \in Outreach!InFlight : order[q].group = o.group /\ o.group # None => {r, q} \in overlapped'
         /\ GroupFlightsKnown'
<1> USE DEF OutreachInv
<1>1. /\ pc[r] = "new" /\ pc' = [pc EXCEPT ![r] = step] /\ order' = [order EXCEPT ![r] = o]
  BY DEF Outreach!Begin
<1>2. /\ pc'[r] = step /\ order'[r] = o /\ \A q \in Outreach!Requests \ {r} :
           pc'[q] = pc[q] /\ order'[q] = order[q]
      /\ pc' \in [Outreach!Requests -> {"new", "draft", "send", "done", "failed"}] /\
           order' \in [Outreach!Requests -> Outreach!Order]
  BY <1>1, OutreachTyped
<1> DEFINE with == {{r, q} : q \in {p \in Outreach!InFlight : order[p].group = o.group /\ o.group # None}}
<1>3. overlapped' = overlapped \cup with
  BY DEF Outreach!Begin
<1>4. overlapped' \subseteq SUBSET Outreach!Requests
  <2>1. \A x \in with : x \in SUBSET Outreach!Requests
    BY DEF Outreach!InFlight
  <2> QED
    BY <1>3, <2>1, OutreachTyped
<1>5. \A p, q \in Outreach!Requests \ {r} : {p, q} \in overlapped' <=> {p, q} \in overlapped
  <2> TAKE p, q \in Outreach!Requests \ {r}
  <2>1. r \notin {p, q} /\ \A x \in with : r \in x
    OBVIOUS
  <2> QED
    BY <1>3, <2>1
<1>6. \A q \in Outreach!InFlight : order[q].group = o.group /\ o.group # None => {r, q} \in with
  OBVIOUS
<1> HIDE DEF with
<1>7. Outreach!InFlight' \subseteq Outreach!InFlight \cup {r} /\
        Outreach!InFlight' \subseteq Outreach!Requests /\ r \notin Outreach!InFlight
  BY <1>1, <1>2 DEF Outreach!InFlight
<1>8. GroupFlightsKnown'
  <2> SUFFICES ASSUME NEW p \in Outreach!InFlight', NEW q \in Outreach!InFlight', p # q,
        order'[p].group = order'[q].group,
                      order'[p].group # None
               PROVE  {p, q} \in overlapped'
    BY DEF GroupFlightsKnown
  <2>1. CASE p = r
    <3>1. q \in Outreach!InFlight /\ order[q].group = o.group /\ o.group # None
      BY <2>1, <1>2, <1>7
    <3> QED
      BY <2>1, <3>1, <1>3, <1>6
  <2>2. CASE q = r
    <3>1. p \in Outreach!InFlight /\ order[p].group = o.group /\ o.group # None
      BY <2>2, <1>2, <1>7
    <3>2. {q, p} = {p, q}
      OBVIOUS
    <3> QED
      BY <2>2, <3>1, <3>2, <1>3, <1>6
  <2>3. CASE p # r /\ q # r
    <3>1. p \in Outreach!InFlight /\ q \in Outreach!InFlight /\ order[p].group = order[q].group /\
            order[p].group # None
      BY <2>3, <1>2, <1>7
    <3> QED
      BY <3>1, <1>3 DEF GroupFlightsKnown
  <2> QED
    BY <2>1, <2>2, <2>3
<1>9. Onward(r)
  BY <1>1, <1>2, <1>3 DEF Onward
<1> QED
  BY <1>1, <1>2, <1>3, <1>4, <1>5, <1>6, <1>8, <1>9

LEMMA Ends ==
  ASSUME OutreachInv, NEW r \in Outreach!InFlight, NEW how \in {"done", "failed"}, Outreach!End(r, how)
  PROVE  /\ pc'[r] = how /\ pc[r] \in {"draft", "send"} /\ Onward(r)
         /\ order' = order /\ inbox' = inbox /\ overlapped' = overlapped
         /\ pc' \in [Outreach!Requests -> {"new", "draft", "send", "done", "failed"}]
         /\ seen' \in [Outreach!Requests -> Outreach!Group] /\ todo' \in [Outreach!Requests -> SUBSET Voters]
         /\ answers' \in [Outreach!Requests -> SUBSET Outreach!Attempt] /\ answers'[r] = {}
         /\ \A q \in Outreach!Requests \ {r} :
              seen'[q] = seen[q] /\ todo'[q] = todo[q] /\ answers'[q] = answers[q]
         /\ GroupFlightsKnown'
<1> USE DEF OutreachInv
<1>1. /\ pc' = [pc EXCEPT ![r] = how] /\ seen' = [seen EXCEPT ![r] = Outreach!NoGroup]
      /\ todo' = [todo EXCEPT ![r] = {}] /\ answers' = [answers EXCEPT ![r] = {}]
      /\ order' = order /\ inbox' = inbox /\ overlapped' = overlapped
      /\ r \in Outreach!Requests /\ pc[r] \in {"draft", "send"}
  BY OutreachTyped DEF Outreach!End, Outreach!InFlight
<1>2. /\ pc'[r] = how /\ \A q \in Outreach!Requests \ {r} : pc'[q] = pc[q]
      /\ pc' \in [Outreach!Requests -> {"new", "draft", "send", "done", "failed"}]
  BY <1>1, OutreachTyped
<1>3. /\ seen' \in [Outreach!Requests -> Outreach!Group] /\ todo' \in [Outreach!Requests -> SUBSET Voters]
      /\ answers' \in [Outreach!Requests -> SUBSET Outreach!Attempt] /\ answers'[r] = {}
      /\ \A q \in Outreach!Requests \ {r} :
           seen'[q] = seen[q] /\ todo'[q] = todo[q] /\ answers'[q] = answers[q]
  BY <1>1, OutreachTyped, OutreachFields
<1>4. Onward(r)
  BY <1>1, <1>2 DEF Onward
<1>5. GroupFlightsKnown'
  <2>1. Outreach!InFlight' \subseteq Outreach!InFlight
    BY <1>2 DEF Outreach!InFlight
  <2> QED
    BY <1>1, <2>1 DEF GroupFlightsKnown
<1> QED
  BY <1>1, <1>2, <1>3, <1>4, <1>5

\* A step of r changes no group, unless r creates one.
Undisturbed(r) == \A g \in Creates : group'[g] = group[g] \/ (g = r /\ pc[r] = "new")

\* What a step of r that leaves the groups alone leaves of what others go by.
LEMMA OthersKept ==
  ASSUME OutreachInv, NEW r, Onward(r), Undisturbed(r), inbox \subseteq inbox',
         r \in Sends => pc'[r] # "done", NEW q \in Outreach!Requests \ {r},
         seen'[q] = seen[q], todo'[q] = todo[q], answers'[q] = answers[q]
  PROVE  RequestKept(q)'
<1>1. /\ pc'[q] = pc[q] /\ order'[q] = order[q] /\ r \in Outreach!Requests
      /\ \A p \in Outreach!Requests : pc[p] = "done" => pc'[p] = "done"
      /\ \A p \in Outreach!Requests : pc[p] # "new" => order'[p] = order[p]
      /\ \A p \in Outreach!Requests : pc'[p] = "new" => pc[p] = "new"
  BY DEF Onward
<1>2. PlaceKept(q) /\ AnswersKept(q) /\ DraftKept(q)
  BY DEF OutreachInv, RequestsKept, RequestKept
<1>3. Creates \subseteq Outreach!Requests /\ Sends \subseteq Outreach!Requests
  BY DEF Outreach!Requests, Outreach!Messengers
<1>4. PlaceKept(q)'
  <2>1. q \in Outreach!Groups' => q \in Outreach!Groups
    BY DEF Outreach!Groups, Undisturbed
  <2> QED
    BY <2>1, <1>1, <1>2, <1>3 DEF PlaceKept
<1>5. AnswersKept(q)'
  BY <1>1, <1>2 DEF AnswersKept
<1>6. DraftKept(q)'
  <2> SUFFICES ASSUME q \in Drafts, pc[q] = "draft" PROVE DraftKept(q)'
    BY <1>1 DEF DraftKept
  <2>3. group'[order'[q].group] = group[order[q].group]
    BY <1>1, <1>2 DEF PlaceKept, Undisturbed
  <2>1. group'[order'[q].group].status = "SENT" =>
           \E s \in Sends : pc'[s] # "new" /\ order'[s].group = order'[q].group /\ {q, s} \in overlapped'
    BY <2>3, <1>1, <1>2, <1>3 DEF DraftKept, Onward
  <2>2. ASSUME NEW s \in Sends, pc'[s] = "done", order'[s].group = order'[q].group
        PROVE  {q, s} \in overlapped' \/ Outreach!Redrafted(s)'
    <3>1. s # r /\ s \in Outreach!Requests /\ pc[s] = "done" /\ order'[s] = order[s]
      BY <2>2, <1>3 DEF Onward
    <3>2. {q, s} \in overlapped \/ Outreach!Redrafted(s)
      BY <2>2, <3>1, <1>1, <1>2 DEF DraftKept
    <3> QED
      BY <3>1, <3>2, RedraftedStays DEF Onward
  <2> QED
    BY <1>1, <1>2, <2>1, <2>2, <2>3 DEF DraftKept
<1> QED
  BY <1>4, <1>5, <1>6 DEF RequestKept

LEMMA GroupsStay ==
  ASSUME OutreachInv, NEW r, Onward(r), Undisturbed(r), r \in Sends => pc'[r] # "done",
         r \in Creates /\ pc[r] = "new" => group'[r].text = None
  PROVE  GroupsKept'
<1>1. Sends \subseteq Outreach!Requests
  BY DEF Outreach!Requests, Outreach!Messengers
<1>2. ASSUME NEW q \in Sends, pc'[q] = "done", order'[q].group \in Outreach!Groups'
      PROVE  group'[order'[q].group].status = "SENT" \/ Outreach!Redrafted(q)'
  <2>1. q \in Outreach!Requests /\ pc[q] = "done" /\ order'[q] = order[q]
    BY <1>1, <1>2 DEF Onward
  <2>2. order[q].group \in Creates /\ pc[order[q].group] = "done"
    BY <2>1, <1>2 DEF OutreachInv, RequestsKept, RequestKept, PlaceKept
  <2>3. group'[order[q].group] = group[order[q].group]
    BY <2>2 DEF Undisturbed
  <2>4. order[q].group \in Outreach!Groups
    BY <2>1, <2>2, <2>3, <1>2 DEF Outreach!Groups
  <2> QED
    BY <1>2, <2>1, <2>3, <2>4, RedraftedStays DEF OutreachInv, GroupsKept
<1>3. ASSUME NEW g \in Outreach!Groups', group'[g].status = "DRAFT"
      PROVE  group'[g].text = None
  <2>1. g \in Creates /\ (group'[g] = group[g] => g \in Outreach!Groups)
    BY <1>3 DEF Outreach!Groups
  <2> QED
    BY <1>3, <2>1 DEF OutreachInv, GroupsKept, Undisturbed
<1> QED
  BY <1>2, <1>3 DEF GroupsKept

LEMMA ApartStays ==
  ASSUME OutreachInv, NEW r, Onward(r),
         r \in Sends /\ pc'[r] \in {"send", "done"} => pc[r] \in {"send", "done"}
  PROVE  SendsApart'
<1> SUFFICES ASSUME NEW q \in Sends, NEW s \in Sends, q # s, order'[q].group = order'[s].group,
                    pc'[q] \in {"send", "done"}, pc'[s] \in {"send", "done"}
             PROVE  {q, s} \in overlapped' \/ Outreach!Redrafted(q)' \/ Outreach!Redrafted(s)'
  BY DEF SendsApart
<1>1. \A p \in Sends : p \in Outreach!Requests /\ (pc'[p] \in {"send", "done"} => pc[p] \in {"send", "done"})
  BY DEF Onward, Outreach!Requests, Outreach!Messengers
<1>2. \A p \in Sends : pc'[p] \in {"send", "done"} => order'[p] = order[p]
  BY <1>1 DEF Onward
<1>3. {q, s} \in overlapped \/ Outreach!Redrafted(q) \/ Outreach!Redrafted(s)
  BY <1>1, <1>2 DEF OutreachInv, SendsApart
<1> QED
  BY <1>1, <1>3, RedraftedStays DEF Onward

\* What the logs of r tell when it has ended well.
Told(r) ==
  /\ {l.to : l \in Outreach!LogsOf(r)} = order[r].targets
  /\ \A l \in Outreach!LogsOf(r) : l.ok => l \in inbox \/ Outreach!SentToNobody(l)
  /\ r \in Campaigns =>
       /\ campaign[r].total = Outreach!Cardinality(Outreach!LogsOf(r))
       /\ campaign[r].sent = Outreach!Cardinality({l \in Outreach!LogsOf(r) : l.ok})
       /\ campaign[r].failed = campaign[r].total - campaign[r].sent

LEMMA TruthTold ==
  /\ Outreach!LogsTellTheTruth <=> \A r \in Outreach!Messengers : Outreach!Settled(r) => Told(r)
  /\ Outreach!LogsTellTheTruth' <=> \A r \in Outreach!Messengers : Outreach!Settled(r)' => Told(r)'
BY DEF Outreach!LogsTellTheTruth, Told

\* The logs of a request that has ended before stay as they are.
LEMMA ToldStays ==
  ASSUME OutreachInv, NEW r, Onward(r), NEW q \in Outreach!Messengers \ {r},
    Outreach!LogsOf(q)' = Outreach!LogsOf(q),
         inbox \subseteq inbox', q \in Campaigns => campaign'[q] = campaign[q],
         \A g \in Outreach!Groups' : pc[g] = "done" => g \in Outreach!Groups,
         Outreach!Settled(q)'
  PROVE  Told(q)'
<1>1. q \in Outreach!Requests /\ pc[q] = "done" /\ order'[q] = order[q]
  BY DEF Onward, Outreach!Settled, Outreach!Requests
<1>2. Outreach!Settled(q)
  <2> SUFFICES ASSUME q \in Sends PROVE order[q].group \in Outreach!Groups
    BY <1>1 DEF Outreach!Settled
  <2>1. order[q].group \in Outreach!Groups' /\ pc[order[q].group] = "done"
    BY <1>1 DEF Outreach!Settled, OutreachInv, RequestsKept, RequestKept, PlaceKept
  <2> QED
    BY <2>1
<1>3. Told(q)
  BY <1>2, TruthTold DEF OutreachInv
<1> QED
  BY <1>1, <1>3 DEF Told

\* A step that logs nothing leaves the logs true.
LEMMA TruthStays ==
  ASSUME OutreachInv, NEW r, Onward(r), logs' = logs, inbox \subseteq inbox', campaign' = campaign,
         \A g \in Outreach!Groups' : pc[g] = "done" => g \in Outreach!Groups,
         r \in Outreach!Messengers => pc'[r] # "done"
  PROVE  Outreach!LogsTellTheTruth'
<1>1. \A q : Outreach!LogsOf(q)' = Outreach!LogsOf(q)
  BY DEF Outreach!LogsOf
<1>2. ASSUME NEW q \in Outreach!Messengers, Outreach!Settled(q)'
      PROVE  Told(q)'
  <2>1. q # r
    BY <1>2 DEF Outreach!Settled
  <2> QED
    BY <1>1, <1>2, <2>1, ToldStays
<1> QED
  BY <1>2, TruthTold

LEMMA LogsStay ==
  ASSUME OutreachInv, NEW r, Onward(r), logs' = logs, inbox' = inbox
  PROVE  LogsKept'
<1>1. \A l \in logs : l.by \in Outreach!Requests
  BY OutreachTyped, OutreachFields DEF OutreachInv, Outreach!Requests
<1>2. \A m \in inbox : m.by \in Outreach!Requests
  BY OutreachTyped, OutreachFields DEF OutreachInv, Outreach!Requests
<1> QED
  BY <1>1, <1>2 DEF OutreachInv, LogsKept, Onward

-----------------------------------------------------------------------------
LEMMA OutreachInitInv == Outreach!Init /\ Outreach!OutreachAssumption => OutreachInv
<1> SUFFICES ASSUME Outreach!Init, Outreach!OutreachAssumption PROVE OutreachInv
  OBVIOUS
<1>1. /\ \A r \in Outreach!Requests : pc[r] = "new" /\ answers[r] = {}
      /\ \A g \in Creates : group[g] = Outreach!NoGroup
      /\ logs = {} /\ inbox = {} /\ Outreach!InFlight = {}
  BY DEF Outreach!Init, Outreach!InFlight
<1>2. Outreach!Groups = {}
  BY <1>1, OutreachFields DEF Outreach!Groups
<1>3. /\ Creates \subseteq Outreach!Requests /\ Drafts \subseteq Outreach!Requests /\
           Outreach!Messengers \subseteq Outreach!Requests
      /\ Sends \subseteq Outreach!Messengers
  BY MessengersApart
<1>4. Outreach!TypeOK
  <2>1. /\ group \in [Creates -> Outreach!Group] /\ order \in [Outreach!Requests -> Outreach!Order] /\
             seen \in [Outreach!Requests -> Outreach!Group]
        /\ campaign \in [Campaigns -> Outreach!Counters]
    BY OutreachFields DEF Outreach!Init, Outreach!Counters
  <2>2. \A g \in Outreach!Groups :
          group[g].members \subseteq Outreach!VotersOf(group[g].org) \cap Mobile \cap roll
    BY <1>2
  <2> QED
    BY <2>1, <2>2 DEF Outreach!Init, Outreach!TypeOK
<1>5. Outreach!LogsTellTheTruth
  BY <1>1, <1>3 DEF Outreach!LogsTellTheTruth, Outreach!Settled
<1>6. GroupFlightsKnown /\ LogsKept /\ GroupsKept /\ SendsApart
  BY <1>1, <1>2, <1>3 DEF GroupFlightsKnown, LogsKept, GroupsKept, SendsApart
<1>7. RequestsKept
  <2> SUFFICES ASSUME NEW r \in Outreach!Requests PROVE RequestKept(r)
    BY DEF RequestsKept
  <2>1. PlaceKept(r) /\ DraftKept(r)
    BY <1>1, <1>2 DEF PlaceKept, DraftKept
  <2>2. AnswersKept(r)
    BY <1>1, FS_EmptySet DEF AnswersKept
  <2> QED
    BY <2>1, <2>2 DEF RequestKept
<1> QED
  BY <1>4, <1>5, <1>6, <1>7 DEF OutreachInv

\* A request that ended goes by nothing any more.
LEMMA EndedKept ==
  ASSUME OutreachInv, NEW r \in Outreach!InFlight, NEW how \in {"done", "failed"}, Outreach!End(r, how),
    Outreach!Groups' \subseteq Outreach!Groups
  PROVE  RequestKept(r)'
<1>1. /\ pc'[r] = how /\ pc[r] \in {"draft", "send"} /\ Onward(r) /\ order' = order /\ answers'[r] = {}
  BY Ends
<1>2. PlaceKept(r)
  BY <1>1 DEF OutreachInv, RequestsKept, RequestKept, Onward
<1>3. Creates \subseteq Outreach!Requests
  BY DEF Outreach!Requests
<1>4. PlaceKept(r)'
  BY <1>1, <1>2, <1>3 DEF PlaceKept, Onward
<1>5. AnswersKept(r)' /\ DraftKept(r)'
  BY <1>1, FS_EmptySet DEF AnswersKept, DraftKept
<1> QED
  BY <1>4, <1>5 DEF RequestKept

LEMMA FailKeeps ==
  ASSUME OutreachInv, NEW r \in Outreach!Requests, Outreach!Fail(r)
  PROVE  OutreachInv'
<1>1. r \in Outreach!InFlight /\ Outreach!End(r, "failed") /\ group' = group /\ logs' = logs /\
        campaign' = campaign /\ roll' = roll
  BY DEF Outreach!Fail, Outreach!rows
<1>2. /\ pc'[r] = "failed" /\ pc[r] \in {"draft", "send"} /\ Onward(r)
      /\ order' = order /\ inbox' = inbox /\ overlapped' = overlapped
      /\ pc' \in [Outreach!Requests -> {"new", "draft", "send", "done", "failed"}]
      /\ seen' \in [Outreach!Requests -> Outreach!Group] /\ todo' \in [Outreach!Requests -> SUBSET Voters]
      /\ answers' \in [Outreach!Requests -> SUBSET Outreach!Attempt]
      /\ \A q \in Outreach!Requests \ {r} :
           seen'[q] = seen[q] /\ todo'[q] = todo[q] /\ answers'[q] = answers[q]
      /\ GroupFlightsKnown'
  BY <1>1, Ends
<1>3. Outreach!Groups' = Outreach!Groups /\ Undisturbed(r)
  BY <1>1 DEF Outreach!Groups, Undisturbed
<1>4. Outreach!TypeOK'
  BY <1>1, <1>2, <1>3 DEF OutreachInv, Outreach!TypeOK
<1>5. Outreach!LogsTellTheTruth' /\ LogsKept'
  BY <1>1, <1>2, <1>3, TruthStays, LogsStay
<1>6. GroupsKept' /\ SendsApart'
  BY <1>1, <1>2, <1>3, GroupsStay, ApartStays
<1>7. RequestsKept'
  <2>1. RequestKept(r)'
    BY <1>1, <1>3, EndedKept
  <2>2. \A q \in Outreach!Requests \ {r} : RequestKept(q)'
    BY <1>2, <1>3, OthersKept
  <2> QED
    BY <2>1, <2>2 DEF RequestsKept
<1> QED
  BY <1>2, <1>4, <1>5, <1>6, <1>7 DEF OutreachInv

LEMMA CreateKeeps ==
  ASSUME Outreach!OutreachAssumption, OutreachInv, NEW g \in Creates, NEW org \in Orgs,
    NEW selected \in SUBSET Voters,
         Outreach!CreateGroup(g, org, selected)
  PROVE  OutreachInv'
<1> DEFINE members == Outreach!Reachable(selected)
           made == [status |-> "DRAFT", org |-> org, text |-> None, members |-> members]
<1>1. /\ selected \subseteq Outreach!VotersOf(org) \cap roll /\
           Outreach!Begin(g, "done", Outreach!NoOrder)
      /\ group' = [group EXCEPT ![g] = made]
      /\ logs' = logs /\ campaign' = campaign /\ roll' = roll /\ seen' = seen /\ todo' = todo /\ answers' = answers /\
           inbox' = inbox
  BY DEF Outreach!CreateGroup
<1>2. made \in Outreach!Group /\ made.status = "DRAFT" /\ made.text = None /\ made.org = org /\
        made.members = members
  BY DEF Outreach!Group, Outreach!GroupStatus, Outreach!Reachable
<1>3. members \subseteq Outreach!VotersOf(org) \cap Mobile \cap roll
  BY <1>1 DEF Outreach!Reachable
<1> HIDE DEF made, members
<1>4. g \in Outreach!Requests /\ g \notin Drafts /\ g \notin Outreach!Messengers /\
        Sends \subseteq Outreach!Messengers
  BY MessengersApart
<1>5. /\ pc[g] = "new" /\ pc'[g] = "done" /\ order'[g] = Outreach!NoOrder /\ Onward(g)
      /\ pc' \in [Outreach!Requests -> {"new", "draft", "send", "done", "failed"}] /\
           order' \in [Outreach!Requests -> Outreach!Order]
      /\ overlapped' \subseteq SUBSET Outreach!Requests /\ GroupFlightsKnown'
  BY <1>1, <1>4, OutreachFields, Begins
<1>6. /\ group'[g] = made /\ \A h \in Creates \ {g} : group'[h] = group[h]
      /\ group' \in [Creates -> Outreach!Group] /\ Undisturbed(g)
  BY <1>1, <1>2, <1>5, OutreachTyped DEF OutreachInv, Undisturbed
<1>7. g \notin Outreach!Groups
  BY <1>4, <1>5 DEF OutreachInv, RequestsKept, RequestKept, PlaceKept
<1>8. Outreach!Groups' = Outreach!Groups \cup {g}
  BY <1>2, <1>6 DEF Outreach!Groups
<1>9. Outreach!TypeOK'
  <2>1. \A h \in Outreach!Groups' :
          group'[h].members \subseteq Outreach!VotersOf(group'[h].org) \cap Mobile \cap roll'
    <3> TAKE h \in Outreach!Groups'
    <3>1. CASE h = g
      BY <1>1, <3>1, <1>2, <1>3, <1>6
    <3>2. CASE h # g
      <4>1. h \in Outreach!Groups /\ group'[h] = group[h]
        BY <3>2, <1>6, <1>8 DEF Outreach!Groups
      <4> QED
        BY <1>1, <4>1, GroupsTyped DEF OutreachInv
    <3> QED
      BY <3>1, <3>2
  <2> QED
    BY <2>1, <1>1, <1>5, <1>6, OutreachTyped DEF OutreachInv, Outreach!TypeOK, Outreach!VotersOf
<1>10. Outreach!LogsTellTheTruth' /\ LogsKept'
  BY <1>1, <1>4, <1>5, <1>8, TruthStays, LogsStay
<1>11. GroupsKept' /\ SendsApart'
  BY <1>2, <1>4, <1>5, <1>6, GroupsStay, ApartStays
<1>12. RequestsKept'
  <2>1. RequestKept(g)'
    BY <1>4, <1>5 DEF RequestKept, PlaceKept, AnswersKept, DraftKept, Outreach!Messengers
  <2>2. \A q \in Outreach!Requests \ {g} : RequestKept(q)'
    BY <1>1, <1>4, <1>5, <1>6, OthersKept
  <2> QED
    BY <2>1, <2>2 DEF RequestsKept
<1> QED
  BY <1>5, <1>9, <1>10, <1>11, <1>12 DEF OutreachInv

LEMMA DeleteKeeps ==
  ASSUME Outreach!OutreachAssumption, OutreachInv, NEW gs \in SUBSET Creates, Outreach!DeleteGroups(gs)
  PROVE  OutreachInv'
<1>1. /\ gs \subseteq Outreach!Groups
      /\ group' = [g \in Creates |-> IF g \in gs THEN Outreach!NoGroup ELSE group[g]]
      /\ logs' = {l \in logs : order[l.by].group \notin gs}
      /\ campaign' = campaign /\ roll' = roll /\ pc' = pc /\ order' = order /\ seen' = seen /\ todo' = todo
      /\ answers' = answers /\ inbox' = inbox /\ overlapped' = overlapped
  BY DEF Outreach!DeleteGroups, Outreach!locals
<1>2. /\ \A g \in Creates \ gs : group'[g] = group[g]
      /\ \A g \in gs : group'[g] = Outreach!NoGroup
      /\ group' \in [Creates -> Outreach!Group]
  BY <1>1, OutreachTyped, OutreachFields DEF OutreachInv
<1>3. Outreach!Groups' = Outreach!Groups \ gs
  BY <1>2, OutreachFields DEF Outreach!Groups
<1>4. /\ Outreach!InFlight' = Outreach!InFlight /\ \A q : Outreach!Redrafted(q)' <=> Outreach!Redrafted(q)
  BY <1>1 DEF Outreach!InFlight, Outreach!Redrafted
<1>5. Outreach!TypeOK'
  <2>1. \A h \in Outreach!Groups' :
          group'[h].members \subseteq Outreach!VotersOf(group'[h].org) \cap Mobile \cap roll'
    <3> TAKE h \in Outreach!Groups'
    <3>1. h \in Outreach!Groups /\ group'[h] = group[h]
      BY <1>2, <1>3 DEF Outreach!Groups
    <3> QED
      BY <1>1, <3>1, GroupsTyped DEF OutreachInv
  <2> QED
    BY <2>1, <1>1, <1>2, OutreachTyped DEF OutreachInv, Outreach!TypeOK, Outreach!VotersOf
<1>6. GroupFlightsKnown' /\ LogsKept' /\ SendsApart'
  BY <1>1, <1>4 DEF OutreachInv, GroupFlightsKnown, LogsKept, SendsApart
<1>7. GroupsKept'
  <2>1. \A g \in Outreach!Groups' : g \in Outreach!Groups /\ group'[g] = group[g]
    BY <1>2, <1>3 DEF Outreach!Groups
  <2> QED
    BY <2>1, <1>1, <1>4 DEF OutreachInv, GroupsKept
<1>8. RequestsKept'
  <2> SUFFICES ASSUME NEW q \in Outreach!Requests PROVE RequestKept(q)'
    BY DEF RequestsKept
  <2>1. PlaceKept(q) /\ AnswersKept(q) /\ DraftKept(q)
    BY DEF OutreachInv, RequestsKept, RequestKept
  <2>2. PlaceKept(q)' /\ AnswersKept(q)'
    BY <2>1, <1>1, <1>3 DEF PlaceKept, AnswersKept
  <2>3. DraftKept(q)'
    <3> SUFFICES ASSUME q \in Drafts, pc[q] = "draft" PROVE DraftKept(q)'
      BY <1>1 DEF DraftKept
    <3>1. order[q].group \in Creates
      BY <2>1 DEF PlaceKept
    <3>2. group'[order[q].group] = group[order[q].group] \/ group'[order[q].group].status = "NONE"
      BY <3>1, <1>2, OutreachFields
    <3> QED
      BY <3>2, <2>1, <1>1, <1>4 DEF DraftKept
  <2> QED
    BY <2>2, <2>3 DEF RequestKept
<1>9. Outreach!LogsTellTheTruth'
  <2> SUFFICES ASSUME NEW r \in Outreach!Messengers, Outreach!Settled(r)' PROVE Told(r)'
    BY TruthTold
  <2>1. order[r].group \notin gs
    <3>1. CASE r \in Sends
      BY <3>1, <1>1, <1>3 DEF Outreach!Settled
    <3>2. CASE r \notin Sends
      <4>1. r \in Blasts \cup Campaigns /\ r \in Outreach!Requests /\ pc[r] = "done"
        BY <3>2, <1>1 DEF Outreach!Messengers, Outreach!Requests, Outreach!Settled
      <4>2. order[r].group = None
        BY <4>1 DEF OutreachInv, RequestsKept, RequestKept, PlaceKept
      <4> QED
        BY <4>2, MessengersApart
    <3> QED
      BY <3>1, <3>2
  <2>2. Outreach!LogsOf(r)' = Outreach!LogsOf(r)
    BY <2>1, <1>1 DEF Outreach!LogsOf
  <2>3. Outreach!Settled(r)
    BY <1>1, <1>3 DEF Outreach!Settled
  <2>4. Told(r)
    BY <2>3, TruthTold DEF OutreachInv
  <2> QED
    BY <2>2, <2>4, <1>1 DEF Told
<1> QED
  BY <1>5, <1>6, <1>7, <1>8, <1>9 DEF OutreachInv

\* Voters come and go: groups lose members and nothing else.
LEMMA VotersChangeKeeps ==
  ASSUME OutreachInv, roll' \subseteq Voters, group' \in [Creates -> Outreach!Group],
         \A g \in Creates : group'[g].status = group[g].status /\ group'[g].text = group[g].text,
         \A h \in Outreach!Groups' :
           group'[h].members \subseteq Outreach!VotersOf(group'[h].org) \cap Mobile \cap roll',
         logs' = logs, campaign' = campaign, pc' = pc, order' = order, seen' = seen, todo' = todo,
         answers' = answers, inbox' = inbox, overlapped' = overlapped
  PROVE  OutreachInv'
<1>1. Outreach!Groups' = Outreach!Groups
  BY DEF Outreach!Groups
<1>2. Outreach!InFlight' = Outreach!InFlight /\ \A q : Outreach!Redrafted(q)' <=> Outreach!Redrafted(q)
  BY DEF Outreach!InFlight, Outreach!Redrafted
<1>3. Outreach!TypeOK'
  BY DEF OutreachInv, Outreach!TypeOK, Outreach!VotersOf
<1>4. Outreach!LogsTellTheTruth'
  BY <1>1 DEF OutreachInv, Outreach!LogsTellTheTruth, Outreach!LogsOf, Outreach!Settled
<1>5. GroupFlightsKnown' /\ LogsKept' /\ SendsApart'
  BY <1>2 DEF OutreachInv, GroupFlightsKnown, LogsKept, SendsApart
<1>6. GroupsKept'
  BY <1>1, <1>2 DEF OutreachInv, GroupsKept, Outreach!Groups
<1>7. RequestsKept'
  <2> SUFFICES ASSUME NEW q \in Outreach!Requests PROVE RequestKept(q)'
    BY DEF RequestsKept
  <2>1. PlaceKept(q) /\ AnswersKept(q) /\ DraftKept(q)
    BY DEF OutreachInv, RequestsKept, RequestKept
  <2>2. PlaceKept(q)' /\ AnswersKept(q)'
    BY <2>1, <1>1 DEF PlaceKept, AnswersKept
  <2>3. DraftKept(q)'
    <3> SUFFICES ASSUME q \in Drafts, pc[q] = "draft" PROVE DraftKept(q)'
      BY DEF DraftKept
    <3>1. group'[order[q].group].status = group[order[q].group].status
      BY <2>1 DEF PlaceKept
    <3> QED
      BY <3>1, <2>1, <1>2 DEF DraftKept
  <2> QED
    BY <2>2, <2>3 DEF RequestKept
<1> QED
  BY <1>3, <1>4, <1>5, <1>6, <1>7 DEF OutreachInv

\* The groups after a voter is deleted.
LEMMA MembersLeave ==
  ASSUME OutreachInv, NEW v \in Voters, Outreach!DeleteVoter(v)
  PROVE  /\ group' \in [Creates -> Outreach!Group]
         /\ \A g \in Creates :
              /\ group'[g].status = group[g].status /\ group'[g].text = group[g].text
              /\ group'[g].org = group[g].org /\ group'[g].members = group[g].members \ {v}
<1>1. group' = [g \in Creates |-> [group[g] EXCEPT !.members = @ \ {v}]] /\ \A g \in Creates : group[g] \in Outreach!Group
  BY OutreachTyped DEF OutreachInv, Outreach!DeleteVoter
<1>2. ASSUME NEW g \in Creates
      PROVE  /\ group'[g] \in Outreach!Group
             /\ group'[g].status = group[g].status /\ group'[g].text = group[g].text
             /\ group'[g].org = group[g].org /\ group'[g].members = group[g].members \ {v}
  BY <1>1, <1>2 DEF Outreach!Group
<1> QED
  BY <1>1, <1>2

LEMMA DeleteVoterKeeps ==
  ASSUME OutreachInv, NEW v \in Voters, Outreach!DeleteVoter(v)
  PROVE  OutreachInv'
<1>1. /\ roll' = roll \ {v} /\ roll' \subseteq Voters
      /\ logs' = logs /\ campaign' = campaign /\ pc' = pc /\ order' = order /\ seen' = seen /\ todo' = todo
      /\ answers' = answers /\ inbox' = inbox /\ overlapped' = overlapped
  BY DEF OutreachInv, Outreach!TypeOK, Outreach!DeleteVoter, Outreach!locals
<1>2. \A h \in Outreach!Groups' :
        group'[h].members \subseteq Outreach!VotersOf(group'[h].org) \cap Mobile \cap roll'
  <2> TAKE h \in Outreach!Groups'
  <2>1. h \in Outreach!Groups /\ h \in Creates
    BY MembersLeave DEF Outreach!Groups
  <2>2. group[h].members \subseteq Outreach!VotersOf(group[h].org) \cap Mobile \cap roll
    BY <2>1, GroupsTyped DEF OutreachInv
  <2> QED
    BY <2>1, <2>2, <1>1, MembersLeave DEF Outreach!VotersOf
<1> QED
  BY <1>1, <1>2, MembersLeave, VotersChangeKeeps

LEMMA EnrolVoterKeeps ==
  ASSUME OutreachInv, NEW v \in Voters, Outreach!EnrolVoter(v)
  PROVE  OutreachInv'
<1>1. /\ roll' = roll \cup {v} /\ roll' \subseteq Voters /\ group' = group
      /\ logs' = logs /\ campaign' = campaign /\ pc' = pc /\ order' = order /\ seen' = seen /\ todo' = todo
      /\ answers' = answers /\ inbox' = inbox /\ overlapped' = overlapped
  BY DEF OutreachInv, Outreach!TypeOK, Outreach!EnrolVoter, Outreach!locals
<1>2. \A h \in Outreach!Groups' :
        group'[h].members \subseteq Outreach!VotersOf(group'[h].org) \cap Mobile \cap roll'
  BY <1>1, GroupsTyped DEF OutreachInv, Outreach!Groups, Outreach!VotersOf
<1> QED
  BY <1>1, <1>2, VotersChangeKeeps, OutreachTyped DEF OutreachInv

LEMMA DraftReadKeeps ==
  ASSUME Outreach!OutreachAssumption, OutreachInv, NEW d \in Drafts, NEW g \in Outreach!Groups,
    NEW text \in Texts,
         Outreach!DraftRead(d, g, text)
  PROVE  OutreachInv'
<1> PICK o \in Outreach!Order : o = [Outreach!NoOrder EXCEPT !.group = g, !.text = text]
  BY OrdersMade DEF Outreach!Groups
<1>1. /\ group[g].status \in {"DRAFT", "READY"} /\ Outreach!Begin(d, "draft", o) /\ o.group = g
      /\ seen' = [seen EXCEPT ![d] = group[g]]
      /\ group' = group /\ logs' = logs /\ campaign' = campaign /\ roll' = roll /\ todo' = todo /\ answers' = answers
      /\ inbox' = inbox /\ g \in Creates
  BY OrdersMade DEF Outreach!DraftRead, Outreach!rows, Outreach!Groups
<1>2. d \in Outreach!Requests /\ d \notin Creates /\ d \notin Outreach!Messengers /\
        Sends \subseteq Outreach!Messengers /\ None \notin Creates
  BY MessengersApart
<1>3. /\ pc[d] = "new" /\ pc'[d] = "draft" /\ order'[d] = o /\ Onward(d)
      /\ pc' \in [Outreach!Requests -> {"new", "draft", "send", "done", "failed"}] /\
           order' \in [Outreach!Requests -> Outreach!Order]
      /\ overlapped' \subseteq SUBSET Outreach!Requests /\ GroupFlightsKnown'
  BY <1>1, <1>2, Begins
<1>4. Outreach!Groups' = Outreach!Groups /\ Undisturbed(d)
  BY <1>1 DEF Outreach!Groups, Undisturbed
<1>5. /\ seen' \in [Outreach!Requests -> Outreach!Group] /\ seen'[d] = group[g]
      /\ \A q \in Outreach!Requests \ {d} : seen'[q] = seen[q]
  BY <1>1, <1>2, OutreachTyped DEF OutreachInv
<1>6. Outreach!TypeOK'
  BY <1>1, <1>3, <1>4, <1>5 DEF OutreachInv, Outreach!TypeOK
<1>7. Outreach!LogsTellTheTruth' /\ LogsKept'
  BY <1>1, <1>2, <1>3, <1>4, TruthStays, LogsStay
<1>8. GroupsKept' /\ SendsApart'
  BY <1>1, <1>2, <1>3, <1>4, GroupsStay, ApartStays
<1>9. RequestsKept'
  <2>1. \A q \in Outreach!Requests \ {d} : RequestKept(q)'
    BY <1>1, <1>2, <1>3, <1>4, <1>5, OthersKept
  <2>2. PlaceKept(d)'
    <3>1. pc[g] = "done" /\ pc'[g] = "done"
      BY <1>1, <1>2, <1>3 DEF OutreachInv, RequestsKept, RequestKept, PlaceKept, Onward, Outreach!Requests
    <3> QED
      BY <3>1, <1>1, <1>2, <1>3, <1>4 DEF PlaceKept, Outreach!Messengers, Outreach!Groups
  <2>3. AnswersKept(d)'
    BY <1>2 DEF AnswersKept
  <2>4. DraftKept(d)'
    <3>1. group[g].status = "DRAFT" => group[g].text = None
      BY DEF OutreachInv, GroupsKept
    <3>2. ASSUME NEW q \in Sends, pc'[q] = "done", order'[q].group = g PROVE Outreach!Redrafted(q)'
      <4>1. q \in Outreach!Requests /\ pc[q] = "done" /\ order'[q] = order[q]
        BY <3>2, <1>2, <1>3 DEF Onward, Outreach!Requests
      <4>2. Outreach!Redrafted(q)
        BY <4>1, <3>2, <1>1 DEF OutreachInv, GroupsKept
      <4> QED
        BY <4>1, <4>2, <1>3, RedraftedStays
    <3> QED
      BY <3>1, <3>2, <1>1, <1>3, <1>5 DEF DraftKept
  <2> QED
    BY <2>1, <2>2, <2>3, <2>4 DEF RequestKept, RequestsKept
<1> QED
  BY <1>3, <1>6, <1>7, <1>8, <1>9 DEF OutreachInv

\* What holds when a request starts to send.
LEMMA SendingBegins ==
  ASSUME Outreach!OutreachAssumption, OutreachInv, NEW r \in Outreach!Messengers, NEW o \in Outreach!Order,
    Outreach!Begin(r, "send", o),
         todo' = [todo EXCEPT ![r] = o.targets],
         group' = group, logs' = logs, campaign' = campaign /\ roll' = roll, answers' = answers, inbox' = inbox,
         seen' \in [Outreach!Requests -> Outreach!Group], \A q \in Outreach!Requests \ {r} :
           seen'[q] = seen[q],
         r \in Sends => o.group \in Outreach!Groups, r \notin Sends => o.group = None
  PROVE  /\ Outreach!TypeOK' /\ Outreach!LogsTellTheTruth' /\ GroupFlightsKnown' /\ LogsKept' /\
           RequestsKept' /\ GroupsKept'
         /\ pc[r] = "new" /\ pc'[r] = "send" /\ order'[r] = o /\ Onward(r)
         /\ \A q \in Outreach!InFlight : order[q].group = o.group /\ o.group # None => {r, q} \in overlapped'
<1>1. r \in Outreach!Requests /\ r \notin Creates /\ r \notin Drafts /\ Sends \subseteq Outreach!Messengers
  BY MessengersApart
<1>2. /\ pc[r] = "new" /\ pc'[r] = "send" /\ order'[r] = o /\ Onward(r)
      /\ pc' \in [Outreach!Requests -> {"new", "draft", "send", "done", "failed"}] /\
           order' \in [Outreach!Requests -> Outreach!Order]
      /\ overlapped' \subseteq SUBSET Outreach!Requests /\ GroupFlightsKnown'
      /\ \A q \in Outreach!InFlight : order[q].group = o.group /\ o.group # None => {r, q} \in overlapped'
  BY <1>1, Begins
<1>3. Outreach!Groups' = Outreach!Groups /\ Undisturbed(r)
  BY DEF Outreach!Groups, Undisturbed
<1>4. /\ todo' \in [Outreach!Requests -> SUBSET Voters] /\ todo'[r] = o.targets
      /\ \A q \in Outreach!Requests \ {r} : todo'[q] = todo[q]
  BY <1>1, OutreachTyped, OutreachFields DEF OutreachInv
<1>5. Outreach!TypeOK'
  BY <1>2, <1>3, <1>4 DEF OutreachInv, Outreach!TypeOK
<1>6. Outreach!LogsTellTheTruth' /\ LogsKept'
  BY <1>2, <1>3, TruthStays, LogsStay
<1>7. GroupsKept'
  BY <1>1, <1>2, <1>3, GroupsStay
<1>8. RequestsKept'
  <2>1. \A q \in Outreach!Requests \ {r} : RequestKept(q)'
    BY <1>1, <1>2, <1>3, <1>4, OthersKept
  <2>2. PlaceKept(r)'
    <3>1. r \in Sends => o.group \in Creates /\ pc'[o.group] = "done"
      <4> SUFFICES ASSUME r \in Sends PROVE pc'[o.group] = "done" /\ o.group \in Creates
        OBVIOUS
      <4>1. o.group \in Creates /\ pc[o.group] = "done"
        BY DEF OutreachInv, RequestsKept, RequestKept, PlaceKept, Outreach!Groups, Outreach!Requests
      <4> QED
        BY <4>1, <1>1, <1>2 DEF Onward, Outreach!Requests
    <3>2. r \notin Outreach!Groups
      BY <1>1 DEF Outreach!Groups
    <3>3. r \in Blasts \cup Campaigns => r \notin Sends
      BY MessengersApart
    <3> QED
      BY <3>1, <3>2, <3>3, <1>1, <1>2, <1>3 DEF PlaceKept
  <2>3. AnswersKept(r)'
    <3>1. answers[r] = {}
      BY <1>1, <1>2 DEF OutreachInv, RequestsKept, RequestKept, AnswersKept
    <3> QED
      BY <3>1, <1>2, <1>4, FS_EmptySet DEF AnswersKept
  <2>4. DraftKept(r)'
    BY <1>1 DEF DraftKept
  <2> QED
    BY <2>1, <2>2, <2>3, <2>4 DEF RequestKept, RequestsKept
<1> QED
  BY <1>2, <1>5, <1>6, <1>7, <1>8

LEMMA SendReadKeeps ==
  ASSUME Outreach!OutreachAssumption, OutreachInv, NEW r \in Sends, NEW g \in Outreach!Groups,
    Outreach!SendRead(r, g)
  PROVE  OutreachInv'
<1>1. g \in Creates /\ group[g] \in Outreach!Group /\ group[g].members \in SUBSET Voters
  BY OutreachTyped, OutreachFields DEF OutreachInv
<1> PICK ms \in SUBSET Voters : ms = group[g].members
  BY <1>1
<1>9. /\ [Outreach!NoOrder EXCEPT !.group = g, !.targets = ms] \in Outreach!Order
      /\ [Outreach!NoOrder EXCEPT !.group = g, !.targets = ms].group = g
      /\ [Outreach!NoOrder EXCEPT !.group = g, !.targets = ms].targets = ms
  BY <1>1 DEF Outreach!NoOrder, Outreach!Order
<1> PICK o \in Outreach!Order : o = [Outreach!NoOrder EXCEPT !.group = g, !.targets = ms]
  BY <1>9
<1>2. /\ Outreach!Begin(r, "send", o) /\ o.group = g /\ o.targets = ms /\ Outreach!MaySend(g)
      /\ seen' = [seen EXCEPT ![r] = group[g]] /\ todo' = [todo EXCEPT ![r] = o.targets]
      /\ group' = group /\ logs' = logs /\ campaign' = campaign /\ roll' = roll /\ answers' = answers /\ inbox' = inbox
  <2>1. o.group = g /\ o.targets = ms
    BY <1>9
  <2> QED
    BY <2>1 DEF Outreach!SendRead, Outreach!rows
<1>3. r \in Outreach!Requests /\ r \in Outreach!Messengers /\ Sends \subseteq Outreach!Requests /\
        None \notin Creates
  BY MessengersApart
<1>4. seen' \in [Outreach!Requests -> Outreach!Group] /\ \A q \in Outreach!Requests \ {r} : seen'[q] = seen[q]
  BY <1>1, <1>2, OutreachTyped DEF OutreachInv
<1>8. /\ Outreach!TypeOK' /\ Outreach!LogsTellTheTruth' /\ GroupFlightsKnown' /\ LogsKept' /\
           RequestsKept' /\ GroupsKept'
      /\ pc[r] = "new" /\ pc'[r] = "send" /\ order'[r] = o /\ Onward(r)
      /\ \A q \in Outreach!InFlight : order[q].group = o.group /\ o.group # None => {r, q} \in overlapped'
  <2>1. o.group \in Outreach!Groups
    BY <1>2
  <2> QED
    BY <2>1, <1>2, <1>3, <1>4, SendingBegins
<1>5. /\ Outreach!TypeOK' /\ Outreach!LogsTellTheTruth' /\ GroupFlightsKnown' /\ LogsKept' /\
           RequestsKept' /\ GroupsKept'
      /\ pc[r] = "new" /\ pc'[r] = "send" /\ order'[r] = o /\ Onward(r)
      /\ \A q \in Outreach!InFlight : order[q].group = g => {r, q} \in overlapped'
  BY <1>1, <1>2, <1>3, <1>8
<1>6. ASSUME NEW q \in Sends \ {r}, pc'[q] \in {"send", "done"}, order'[q].group = g
      PROVE  {r, q} \in overlapped' \/ Outreach!Redrafted(q)'
  <2>1. q \in Outreach!Requests /\ pc'[q] = pc[q] /\ order'[q] = order[q]
    BY <1>3, <1>5 DEF Onward
  <2>2. CASE pc[q] = "send"
    BY <2>1, <2>2, <1>5, <1>6 DEF Outreach!InFlight
  <2>3. CASE pc[q] = "done"
    <3>1. Outreach!Redrafted(q)
      BY <2>1, <2>3, <1>2, <1>6 DEF OutreachInv, GroupsKept, Outreach!MaySend
    <3> QED
      BY <3>1, <2>1, <2>3, <1>5, RedraftedStays
  <2> QED
    BY <2>1, <2>2, <2>3, <1>6
<1>7. SendsApart'
  <2> SUFFICES ASSUME NEW q \in Sends, NEW s \in Sends, q # s, order'[q].group = order'[s].group,
                      pc'[q] \in {"send", "done"}, pc'[s] \in {"send", "done"}
               PROVE  {q, s} \in overlapped' \/ Outreach!Redrafted(q)' \/ Outreach!Redrafted(s)'
    BY DEF SendsApart
  <2>1. CASE q = r
    BY <2>1, <1>2, <1>5, <1>6
  <2>2. CASE s = r
    <3>1. {r, q} = {q, s}
      BY <2>2
    <3> QED
      BY <2>2, <3>1, <1>2, <1>5, <1>6
  <2>3. CASE q # r /\ s # r
    <3>1. /\ q \in Outreach!Requests /\ pc'[q] = pc[q] /\ order'[q] = order[q]
          /\ s \in Outreach!Requests /\ pc'[s] = pc[s] /\ order'[s] = order[s]
      BY <2>3, <1>3, <1>5 DEF Onward
    <3>2. {q, s} \in overlapped \/ Outreach!Redrafted(q) \/ Outreach!Redrafted(s)
      BY <3>1 DEF OutreachInv, SendsApart
    <3> QED
      BY <3>1, <3>2, <1>5, RedraftedStays DEF Onward
  <2> QED
    BY <2>1, <2>2, <2>3
<1> QED
  BY <1>5, <1>7 DEF OutreachInv

LEMMA BlastReadKeeps ==
  ASSUME Outreach!OutreachAssumption, OutreachInv, NEW b \in Blasts, NEW org \in Orgs,
    NEW selected \in SUBSET Voters,
         Outreach!BlastRead(b, org, selected)
  PROVE  OutreachInv'
<1> DEFINE ts == Outreach!Reachable(Outreach!Audience(org, selected \cap roll))
<1>1. ts \in SUBSET Voters
  BY DEF Outreach!Reachable, Outreach!Audience, Outreach!VotersOf
<1>2. b \in Outreach!Messengers /\ b \notin Sends /\ b \in Outreach!Requests
  BY MessengersApart
<1>3. PICK x \in {b} \cup {order[q].stamp : q \in Blasts \cap Outreach!InFlight} :
           /\ Outreach!Begin(b, "send", [Outreach!NoOrder EXCEPT !.stamp = x, !.targets = ts])
           /\ todo' = [todo EXCEPT ![b] = ts]
           /\ UNCHANGED <<Outreach!rows, seen, answers, inbox>>
  BY DEF Outreach!BlastRead
<1> HIDE DEF ts
<1>4. x \in Blasts \cup {None}
  <2>1. \A q \in Outreach!InFlight : order[q].stamp \in Blasts \cup {None}
    BY OutreachTyped DEF OutreachInv, Outreach!InFlight, Outreach!Order
  <2> QED
    BY <2>1, <1>3
<1> PICK o \in Outreach!Order : o = [Outreach!NoOrder EXCEPT !.stamp = x, !.targets = ts]
  BY <1>1, <1>4, OrdersMade
<1>5. /\ Outreach!Begin(b, "send", o) /\ o.group = None /\ todo' = [todo EXCEPT ![b] = o.targets]
      /\ group' = group /\ logs' = logs /\ campaign' = campaign /\ roll' = roll /\ answers' = answers /\ inbox' = inbox
      /\ seen' = seen
  BY <1>1, <1>3, <1>4, OrdersMade DEF Outreach!rows
<1>6. /\ Outreach!TypeOK' /\ Outreach!LogsTellTheTruth' /\ GroupFlightsKnown' /\ LogsKept' /\
           RequestsKept' /\ GroupsKept'
      /\ Onward(b)
  BY <1>2, <1>5, SendingBegins, OutreachTyped DEF OutreachInv
<1>7. SendsApart'
  BY <1>2, <1>6, ApartStays
<1> QED
  BY <1>6, <1>7 DEF OutreachInv

LEMMA CampaignReadKeeps ==
  ASSUME Outreach!OutreachAssumption, OutreachInv, NEW c \in Campaigns, NEW org \in Orgs,
    NEW audience \in SUBSET Voters,
         Outreach!CampaignRead(c, org, audience)
  PROVE  OutreachInv'
<1>1. c \in Outreach!Messengers /\ c \notin Sends /\ c \in Outreach!Requests
  BY MessengersApart
<1> PICK o \in Outreach!Order : o = [Outreach!NoOrder EXCEPT !.targets = audience]
  BY OrdersMade
<1>2. /\ Outreach!Begin(c, "send", o) /\ o.group = None /\ todo' = [todo EXCEPT ![c] = o.targets]
      /\ group' = group /\ logs' = logs /\ campaign' = campaign /\ roll' = roll /\ answers' = answers /\ inbox' = inbox
      /\ seen' = seen
  BY OrdersMade DEF Outreach!CampaignRead, Outreach!rows
<1>3. /\ Outreach!TypeOK' /\ Outreach!LogsTellTheTruth' /\ GroupFlightsKnown' /\ LogsKept' /\
           RequestsKept' /\ GroupsKept'
      /\ Onward(c)
  BY <1>1, <1>2, SendingBegins, OutreachTyped DEF OutreachInv
<1>4. SendsApart'
  BY <1>1, <1>3, ApartStays
<1> QED
  BY <1>3, <1>4 DEF OutreachInv

LEMMA MessageKeeps ==
  ASSUME Outreach!OutreachAssumption, OutreachInv, NEW r \in Outreach!Messengers, NEW v \in Voters,
    Outreach!Message(r, v)
  PROVE  OutreachInv'
<1>1. PICK via \in Channels, taken \in BOOLEAN, answered \in BOOLEAN :
         LET m == [by |-> r, to |-> v, via |-> via, ok |-> Outreach!Answer(via, taken, answered)] IN
         /\ answers' = [answers EXCEPT ![r] = @ \cup {m}]
         /\ inbox' = IF taken /\ via \notin Mocked /\ Outreach!NumberOf(r, v) THEN inbox \cup {m} ELSE inbox
  BY DEF Outreach!Message
<1> PICK m : m = [by |-> r, to |-> v, via |-> via, ok |-> Outreach!Answer(via, taken, answered)]
  OBVIOUS
<1>2. m \in Outreach!Attempt
  BY DEF Outreach!Attempt, Outreach!Answer
<1>3. m.by = r /\ m.to = v /\ m.via = via /\ (m.ok => via \in Mocked \/ taken)
  BY DEF Outreach!Answer
<1>4. /\ inbox' \subseteq inbox \cup {m} /\ inbox \subseteq inbox'
      /\ m.ok => m \in inbox' \/ Outreach!SentToNobody(m)
  <2>1. inbox' = IF taken /\ via \notin Mocked /\ Outreach!NumberOf(r, v) THEN inbox \cup {m} ELSE inbox
    BY <1>1
  <2>2. Outreach!SentToNobody(m) <=> via \in Mocked \/ ~Outreach!NumberOf(r, v)
    BY <1>3 DEF Outreach!SentToNobody
  <2> QED
    BY <2>1, <2>2, <1>3
<1>5. /\ pc[r] = "send" /\ v \in todo[r] /\ todo' = [todo EXCEPT ![r] = @ \ {v}]
      /\ answers' = [answers EXCEPT ![r] = @ \cup {m}]
      /\ group' = group /\ logs' = logs /\ campaign' = campaign /\ roll' = roll /\ pc' = pc /\ order' = order
      /\ seen' = seen /\ overlapped' = overlapped
  BY <1>1 DEF Outreach!Message, Outreach!rows
<1>6. r \in Outreach!Requests /\ r \notin Drafts /\ r \notin Creates /\
        Outreach!Messengers \subseteq Outreach!Requests
  BY MessengersApart
<1>7. /\ todo' \in [Outreach!Requests -> SUBSET Voters] /\ todo'[r] = todo[r] \ {v}
      /\ answers' \in [Outreach!Requests -> SUBSET Outreach!Attempt] /\ answers'[r] = answers[r] \cup {m}
      /\ \A q \in Outreach!Requests \ {r} : todo'[q] = todo[q] /\ answers'[q] = answers[q]
      /\ inbox' \subseteq Outreach!Attempt
  BY <1>2, <1>4, <1>5, <1>6, OutreachTyped DEF OutreachInv
<1>8. /\ Onward(r) /\ Outreach!Groups' = Outreach!Groups /\ Undisturbed(r) /\
           Outreach!InFlight' = Outreach!InFlight
  BY <1>5, <1>6 DEF Onward, Outreach!Groups, Undisturbed, Outreach!InFlight
<1>9. Outreach!TypeOK' /\ GroupFlightsKnown'
  BY <1>5, <1>7, <1>8 DEF OutreachInv, Outreach!TypeOK, GroupFlightsKnown
<1>10. Outreach!LogsTellTheTruth' /\ LogsKept'
  <2>1. Outreach!LogsTellTheTruth'
    BY <1>4, <1>5, <1>8, TruthStays
  <2>2. LogsKept'
    BY <1>3, <1>4, <1>5 DEF OutreachInv, LogsKept
  <2> QED
    BY <2>1, <2>2
<1>11. GroupsKept' /\ SendsApart'
  BY <1>5, <1>6, <1>8, GroupsStay, ApartStays
<1>12. RequestsKept'
  <2>1. \A q \in Outreach!Requests \ {r} : RequestKept(q)'
    BY <1>4, <1>5, <1>7, <1>8, OthersKept
  <2>2. PlaceKept(r) /\ AnswersKept(r)
    BY <1>6 DEF OutreachInv, RequestsKept, RequestKept
  <2>3. PlaceKept(r)' /\ DraftKept(r)'
    BY <2>2, <1>5, <1>6, <1>8 DEF PlaceKept, DraftKept
  <2>4. AnswersKept(r)'
    <3>1. IsFiniteSet(answers'[r])
      BY <2>2, <1>7, FS_AddElement DEF AnswersKept
    <3>2. \A a \in answers'[r] : a.by = r /\ a.to \in order'[r].targets \ todo'[r] /\ (a.ok => a \in inbox' \/ Outreach!SentToNobody(a))
      BY <2>2, <1>3, <1>4, <1>5, <1>7 DEF AnswersKept
    <3>3. \A a, b \in answers'[r] : a.to = b.to => a = b
      BY <2>2, <1>3, <1>4, <1>5, <1>7 DEF AnswersKept
    <3>4. \A w \in order'[r].targets \ todo'[r] : \E a \in answers'[r] : a.to = w
      BY <2>2, <1>3, <1>4, <1>5, <1>7 DEF AnswersKept
    <3> QED
      BY <3>1, <3>2, <3>3, <3>4, <2>2, <1>5, <1>7 DEF AnswersKept
  <2> QED
    BY <2>1, <2>3, <2>4 DEF RequestKept, RequestsKept
<1> QED
  BY <1>9, <1>10, <1>11, <1>12 DEF OutreachInv

-----------------------------------------------------------------------------
\* What holds when the messages of r have left and what is answered is logged.
LEMMA LoggingEnds ==
  ASSUME Outreach!OutreachAssumption, OutreachInv, NEW r \in Outreach!Messengers, pc[r] = "send",
    todo[r] = {}, Outreach!Log(r),
         Outreach!End(r, "done")
  PROVE  /\ r \in Outreach!InFlight /\ Outreach!LogsOf(r)' = answers[r] /\ LogsKept' /\
           logs' \subseteq Outreach!Attempt
         /\ \A q \in Outreach!Requests \ {r} : Outreach!LogsOf(q)' = Outreach!LogsOf(q)
         /\ {a.to : a \in answers[r]} = order[r].targets
         /\ \A a, b \in answers[r] : a.to = b.to => a = b
         /\ \A a \in answers[r] : a.ok => a \in inbox \/ Outreach!SentToNobody(a)
         /\ IsFiniteSet(answers[r]) /\ answers[r] \subseteq Outreach!Attempt
<1>1. r \in Outreach!Requests /\ r \in Outreach!InFlight /\ Outreach!Messengers \subseteq Outreach!Requests
  BY MessengersApart DEF Outreach!InFlight
<1>2. AnswersKept(r) /\ answers[r] \subseteq Outreach!Attempt
  BY <1>1, OutreachTyped DEF OutreachInv, RequestsKept, RequestKept
<1>3. /\ pc'[r] = "done" /\ Onward(r) /\ inbox' = inbox
  BY <1>1, Ends
<1>4. logs' = logs \cup answers[r] /\ \A a \in answers[r] : a.by = r
  BY <1>2 DEF Outreach!Log, AnswersKept
<1>5. \A l \in logs : l.by # r /\ l.by \in Outreach!Requests /\ pc[l.by] = "done"
  BY <1>1, OutreachTyped, OutreachFields DEF OutreachInv, LogsKept
<1>6. Outreach!LogsOf(r)' = answers[r] /\ \A q \in Outreach!Requests \ {r} :
        Outreach!LogsOf(q)' = Outreach!LogsOf(q)
  BY <1>4, <1>5 DEF Outreach!LogsOf
<1>7. LogsKept'
  <2>1. \A l \in logs' : pc'[l.by] = "done"
    BY <1>3, <1>4, <1>5 DEF Onward
  <2>2. \A m \in inbox : m.by \in Outreach!Requests /\ pc[m.by] # "new"
    BY <1>1, OutreachTyped, OutreachFields DEF OutreachInv, LogsKept
  <2> QED
    BY <2>1, <2>2, <1>3 DEF LogsKept, Onward
<1>8. logs' \subseteq Outreach!Attempt
  BY <1>2, <1>4, OutreachTyped DEF OutreachInv
<1>9. {a.to : a \in answers[r]} = order[r].targets
  BY <1>2 DEF AnswersKept
<1>10. /\ \A a, b \in answers[r] : a.to = b.to => a = b
       /\ \A a \in answers[r] : a.ok => a \in inbox \/ Outreach!SentToNobody(a)
       /\ IsFiniteSet(answers[r])
  BY <1>2 DEF AnswersKept
<1> QED
  BY <1>1, <1>2, <1>6, <1>7, <1>8, <1>9, <1>10

LEMMA SendCommitKeeps ==
  ASSUME Outreach!OutreachAssumption, OutreachInv, NEW r \in Outreach!Messengers, Outreach!SendCommit(r)
  PROVE  OutreachInv'
<1> DEFINE g == order[r].group
<1>1. /\ r \in Sends /\ pc[r] = "send" /\ todo[r] = {} /\ g \in Outreach!Groups /\ Outreach!Log(r) /\
           Outreach!End(r, "done")
      /\ group' = [group EXCEPT ![g].status = "SENT"] /\ campaign' = campaign /\ roll' = roll
  BY DEF Outreach!SendCommit
<1>2. /\ r \in Outreach!InFlight /\ Outreach!LogsOf(r)' = answers[r] /\ LogsKept' /\
           logs' \subseteq Outreach!Attempt
      /\ \A q \in Outreach!Requests \ {r} : Outreach!LogsOf(q)' = Outreach!LogsOf(q)
      /\ {a.to : a \in answers[r]} = order[r].targets
      /\ \A a \in answers[r] : a.ok => a \in inbox \/ Outreach!SentToNobody(a)
  BY <1>1, LoggingEnds
<1>3. /\ pc'[r] = "done" /\ Onward(r) /\ order' = order /\ inbox' = inbox /\ overlapped' = overlapped
      /\ pc' \in [Outreach!Requests -> {"new", "draft", "send", "done", "failed"}]
      /\ seen' \in [Outreach!Requests -> Outreach!Group] /\ todo' \in [Outreach!Requests -> SUBSET Voters]
      /\ answers' \in [Outreach!Requests -> SUBSET Outreach!Attempt]
      /\ \A q \in Outreach!Requests \ {r} :
           seen'[q] = seen[q] /\ todo'[q] = todo[q] /\ answers'[q] = answers[q]
      /\ GroupFlightsKnown'
  BY <1>1, <1>2, Ends
<1>4. /\ Sends \subseteq Outreach!Requests /\ Creates \subseteq Outreach!Requests /\
           Sends \subseteq Outreach!Messengers
      /\ Outreach!Messengers \subseteq Outreach!Requests
      /\ Sends \cap Campaigns = {} /\ Drafts \cap Outreach!Messengers = {} /\ None \notin Creates
  BY MessengersApart
<1>5. /\ group' \in [Creates -> Outreach!Group] /\ g \in Creates
      /\ \A h \in Creates \ {g} : group'[h] = group[h]
      /\ group'[g].status = "SENT" /\ group'[g].text = group[g].text
      /\ group'[g].org = group[g].org /\ group'[g].members = group[g].members
  <2>1. g \in Creates /\ group \in [Creates -> Outreach!Group]
    BY <1>1, OutreachTyped DEF OutreachInv
  <2>2. [group[g] EXCEPT !.status = "SENT"] \in Outreach!Group
    BY <2>1 DEF Outreach!Group, Outreach!GroupStatus
  <2>3. group[g] \in Outreach!Group
    BY <2>1
  <2>4. group'[g] = [group[g] EXCEPT !.status = "SENT"]
    BY <2>1, <1>1
  <2>5. /\ group'[g].status = "SENT" /\ group'[g].text = group[g].text
        /\ group'[g].org = group[g].org /\ group'[g].members = group[g].members
    BY <2>3, <2>4 DEF Outreach!Group
  <2> QED
    BY <2>1, <2>2, <2>4, <2>5, <1>1
<1> HIDE DEF g
<1>6. Outreach!Groups' = Outreach!Groups
  BY <1>1, <1>5 DEF Outreach!Groups
<1>7. Outreach!TypeOK'
  <2>1. \A h \in Outreach!Groups' :
          group'[h].members \subseteq Outreach!VotersOf(group'[h].org) \cap Mobile \cap roll'
    <3> TAKE h \in Outreach!Groups'
    <3>1. h \in Outreach!Groups /\ h \in Creates
      BY <1>6 DEF Outreach!Groups
    <3>2. group'[h].members = group[h].members /\ group'[h].org = group[h].org
      BY <3>1, <1>5
    <3> QED
      BY <1>1, <3>1, <3>2, GroupsTyped DEF OutreachInv
  <2> QED
    BY <2>1, <1>1, <1>2, <1>3, <1>5, OutreachTyped DEF OutreachInv, Outreach!TypeOK, Outreach!VotersOf
<1>8. Outreach!LogsTellTheTruth'
  <2> SUFFICES ASSUME NEW q \in Outreach!Messengers, Outreach!Settled(q)' PROVE Told(q)'
    BY TruthTold
  <2>1. CASE q = r
    BY <2>1, <1>1, <1>2, <1>3, <1>4 DEF Told
  <2>2. CASE q # r
    <3>1. Outreach!LogsOf(q)' = Outreach!LogsOf(q)
      BY <2>2, <1>2, <1>4
    <3> QED
      BY <2>2, <3>1, <1>1, <1>3, <1>6, ToldStays
  <2> QED
    BY <2>1, <2>2
<1>9. GroupsKept'
  <2>1. ASSUME NEW q \in Sends, pc'[q] = "done", order'[q].group \in Outreach!Groups'
        PROVE  group'[order'[q].group].status = "SENT" \/ Outreach!Redrafted(q)'
    <3>1. CASE order[q].group = g
      BY <3>1, <1>3, <1>5
    <3>2. CASE order[q].group # g
      <4>1. q # r /\ q \in Outreach!Requests /\ pc[q] = "done" /\ order[q].group \in Creates /\
              order[q].group \in Outreach!Groups
        BY <3>2, <2>1, <1>3, <1>4, <1>6 DEF Onward, Outreach!Groups, g
      <4>2. group'[order[q].group] = group[order[q].group]
        BY <3>2, <4>1, <1>5
      <4>3. group[order[q].group].status = "SENT" \/ Outreach!Redrafted(q)
        BY <4>1 DEF OutreachInv, GroupsKept
      <4>4. Outreach!Redrafted(q) => Outreach!Redrafted(q)'
        BY <4>1, <1>3, RedraftedStays
      <4> QED
        BY <4>2, <4>3, <4>4, <1>3
    <3> QED
      BY <3>1, <3>2
  <2>2. ASSUME NEW h \in Outreach!Groups', group'[h].status = "DRAFT" PROVE group'[h].text = None
    <3>1. h \in Outreach!Groups /\ h \in Creates /\ h # g
      BY <2>2, <1>5, <1>6 DEF Outreach!Groups
    <3> QED
      BY <3>1, <2>2, <1>5 DEF OutreachInv, GroupsKept
  <2> QED
    BY <2>1, <2>2 DEF GroupsKept
<1>10. SendsApart'
  BY <1>1, <1>3, ApartStays
<1>11. RequestsKept'
  <2>1. RequestKept(r)'
    BY <1>1, <1>2, <1>6, EndedKept
  <2>2. ASSUME NEW q \in Outreach!Requests \ {r} PROVE RequestKept(q)'
    <3>1. /\ pc'[q] = pc[q] /\ PlaceKept(q) /\ AnswersKept(q) /\ DraftKept(q)
      BY <1>3 DEF Onward, OutreachInv, RequestsKept, RequestKept
    <3>2. PlaceKept(q)'
      BY <3>1, <1>3, <1>4, <1>6 DEF PlaceKept, Onward
    <3>3. AnswersKept(q)'
      BY <3>1, <1>3 DEF AnswersKept
    <3>4. DraftKept(q)'
      <4> SUFFICES ASSUME q \in Drafts, pc[q] = "draft" PROVE DraftKept(q)'
        BY <3>1 DEF DraftKept
      <4> DEFINE h == order[q].group
      <4>1. h \in Creates
        BY <3>1 DEF PlaceKept
      <4>2. h = g => {q, r} \in overlapped
        BY <4>1, <1>2, <1>4 DEF OutreachInv, GroupFlightsKnown, Outreach!InFlight, g
      <4>3. group'[h].status = "SENT" =>
               \E s \in Sends : pc'[s] # "new" /\ order[s].group = h /\ {q, s} \in overlapped
        <5>1. CASE h = g
          BY <5>1, <4>2, <1>1, <1>3 DEF g
        <5>2. CASE h # g
          BY <5>2, <4>1, <3>1, <1>3, <1>4, <1>5 DEF DraftKept, Onward
        <5> QED
          BY <5>1, <5>2
      <4>4. ASSUME NEW s \in Sends, pc'[s] = "done", order[s].group = h
            PROVE  {q, s} \in overlapped \/ Outreach!Redrafted(s)'
        <5>1. CASE s = r
          BY <5>1, <4>2, <4>4 DEF g
        <5>2. CASE s # r
          <6>1. s \in Outreach!Requests /\ pc[s] = "done"
            BY <5>2, <4>4, <1>3, <1>4 DEF Onward
          <6>2. {q, s} \in overlapped \/ Outreach!Redrafted(s)
            BY <6>1, <4>4, <3>1 DEF DraftKept
          <6>3. Outreach!Redrafted(s) => Outreach!Redrafted(s)'
            BY <6>1, <1>3, RedraftedStays
          <6> QED
            BY <6>2, <6>3
        <5> QED
          BY <5>1, <5>2
      <4>5. seen[q].status = "READY" => group'[h].status # "DRAFT"
        BY <4>1, <3>1, <1>5 DEF DraftKept
      <4> QED
        BY <4>3, <4>4, <4>5, <3>1, <1>3 DEF DraftKept
    <3> QED
      BY <3>2, <3>3, <3>4 DEF RequestKept
  <2> QED
    BY <2>1, <2>2 DEF RequestsKept
<1> QED
  BY <1>2, <1>3, <1>7, <1>8, <1>9, <1>10, <1>11 DEF OutreachInv

\* What holds when a broadcast or a campaign ends.
LEMMA LoggedKeeps ==
  ASSUME Outreach!OutreachAssumption, OutreachInv, NEW r \in Outreach!Messengers \ Sends, pc[r] = "send",
    todo[r] = {}, Outreach!Log(r),
         Outreach!End(r, "done"), roll' = roll, group' = group, campaign' \in [Campaigns -> Outreach!Counters],
         \A c \in Campaigns \ {r} : campaign'[c] = campaign[c], Told(r)'
  PROVE  OutreachInv'
<1>1. /\ r \in Outreach!InFlight /\ LogsKept' /\ logs' \subseteq Outreach!Attempt
      /\ \A q \in Outreach!Requests \ {r} : Outreach!LogsOf(q)' = Outreach!LogsOf(q)
  BY LoggingEnds
<1>2. /\ pc'[r] = "done" /\ Onward(r) /\ order' = order /\ inbox' = inbox /\ overlapped' = overlapped
      /\ pc' \in [Outreach!Requests -> {"new", "draft", "send", "done", "failed"}]
      /\ seen' \in [Outreach!Requests -> Outreach!Group] /\ todo' \in [Outreach!Requests -> SUBSET Voters]
      /\ answers' \in [Outreach!Requests -> SUBSET Outreach!Attempt]
      /\ \A q \in Outreach!Requests \ {r} :
           seen'[q] = seen[q] /\ todo'[q] = todo[q] /\ answers'[q] = answers[q]
      /\ GroupFlightsKnown'
  BY <1>1, Ends
<1>3. r \notin Creates /\ Outreach!Messengers \subseteq Outreach!Requests
  BY MessengersApart
<1>4. Outreach!Groups' = Outreach!Groups /\ Undisturbed(r)
  BY DEF Outreach!Groups, Undisturbed
<1>5. Outreach!TypeOK'
  BY <1>1, <1>2, <1>4 DEF OutreachInv, Outreach!TypeOK
<1>6. Outreach!LogsTellTheTruth'
  <2> SUFFICES ASSUME NEW q \in Outreach!Messengers, q # r, Outreach!Settled(q)' PROVE Told(q)'
    BY TruthTold
  <2>1. Outreach!LogsOf(q)' = Outreach!LogsOf(q)
    BY <1>1, <1>3
  <2> QED
    BY <2>1, <1>2, <1>4, ToldStays
<1>7. GroupsKept' /\ SendsApart'
  BY <1>2, <1>3, <1>4, GroupsStay, ApartStays
<1>8. RequestsKept'
  <2>1. RequestKept(r)'
    BY <1>1, <1>4, EndedKept
  <2>2. \A q \in Outreach!Requests \ {r} : RequestKept(q)'
    BY <1>2, <1>4, OthersKept
  <2> QED
    BY <2>1, <2>2 DEF RequestsKept
<1> QED
  BY <1>1, <1>2, <1>5, <1>6, <1>7, <1>8 DEF OutreachInv

LEMMA BlastCommitKeeps ==
  ASSUME Outreach!OutreachAssumption, OutreachInv, NEW b \in Outreach!Messengers, Outreach!BlastCommit(b)
  PROVE  OutreachInv'
<1>1. /\ b \in Blasts /\ pc[b] = "send" /\ todo[b] = {} /\ Outreach!Log(b) /\ Outreach!End(b, "done")
      /\ group' = group /\ campaign' = campaign /\ roll' = roll
  BY DEF Outreach!BlastCommit
<1>2. b \notin Sends /\ b \notin Campaigns
  BY <1>1, MessengersApart
<1>3. Told(b)'
  <2>1. /\ b \in Outreach!InFlight /\ Outreach!LogsOf(b)' = answers[b]
        /\ {a.to : a \in answers[b]} = order[b].targets
        /\ \A a \in answers[b] : a.ok => a \in inbox \/ Outreach!SentToNobody(a)
    BY <1>1, LoggingEnds
  <2>2. order' = order /\ inbox' = inbox
    BY <1>1, <2>1, Ends
  <2> QED
    BY <2>1, <2>2, <1>2 DEF Told
<1> QED
  BY <1>1, <1>2, <1>3, LoggedKeeps, OutreachTyped DEF OutreachInv

\* What is answered to a campaign is counted as it is logged.
LEMMA AnswersCounted ==
  ASSUME NEW S \in SUBSET Outreach!Attempt, IsFiniteSet(S), \A a, b \in S : a.to = b.to => a = b
  PROVE  /\ Cardinality({a.to : a \in S}) = Cardinality(S)
         /\ Cardinality(S) \in Nat
         /\ Cardinality({a \in S : a.ok = TRUE}) \in Nat /\ Cardinality({a \in S : a.ok = FALSE}) \in Nat
         /\ Cardinality(S) = Cardinality({a \in S : a.ok = TRUE}) + Cardinality({a \in S : a.ok = FALSE})
<1>1. Cardinality({a.to : a \in S}) = Cardinality(S)
  <2> DEFINE T == {a.to : a \in S}
             f == [a \in S |-> a.to]
  <2>1. f \in Surjection(S, T) /\ f \in Injection(S, T)
    BY DEF Surjection, Injection, IsInjective
  <2> QED
    BY <2>1, FS_Surjection
<1>2. /\ IsFiniteSet({a \in S : a.ok = TRUE}) /\ IsFiniteSet({a \in S : a.ok = FALSE})
  BY FS_Subset
<1>3. /\ {a \in S : a.ok = TRUE} \cap {a \in S : a.ok = FALSE} = {}
      /\ {a \in S : a.ok = TRUE} \cup {a \in S : a.ok = FALSE} = S
  BY DEF Outreach!Attempt
<1>4. Cardinality({}) = 0
  BY FS_EmptySet
<1>5. /\ Cardinality(S) \in Nat
      /\ Cardinality({a \in S : a.ok = TRUE}) \in Nat /\ Cardinality({a \in S : a.ok = FALSE}) \in Nat
  BY <1>2, FS_CardinalityType
<1>6. Cardinality(S) = Cardinality({a \in S : a.ok = TRUE}) + Cardinality({a \in S : a.ok = FALSE}) - 0
  BY <1>2, <1>3, <1>4, FS_Union
<1> QED
  BY <1>1, <1>5, <1>6

LEMMA CampaignCommitKeeps ==
  ASSUME Outreach!OutreachAssumption, OutreachInv, NEW c \in Outreach!Messengers, Outreach!CampaignCommit(c)
  PROVE  OutreachInv'
<1> DEFINE sent == Outreach!Cardinality({a \in answers[c] : a.ok = TRUE})
           failed == Outreach!Cardinality({a \in answers[c] : a.ok = FALSE})
           everybody == Outreach!Cardinality(order[c].targets)
<1>1. /\ c \in Campaigns /\ pc[c] = "send" /\ todo[c] = {} /\ Outreach!Log(c) /\ Outreach!End(c, "done") /\
           roll' = roll /\ group' = group
      /\ campaign' = [campaign EXCEPT ![c] = [total |-> everybody, sent |-> sent, failed |-> failed]]
  BY DEF Outreach!CampaignCommit
<1>2. c \notin Sends
  BY <1>1, MessengersApart
<1>3. /\ c \in Outreach!InFlight /\ Outreach!LogsOf(c)' = answers[c]
      /\ {a.to : a \in answers[c]} = order[c].targets
      /\ \A a, b \in answers[c] : a.to = b.to => a = b
      /\ \A a \in answers[c] : a.ok => a \in inbox \/ Outreach!SentToNobody(a)
      /\ IsFiniteSet(answers[c]) /\ answers[c] \subseteq Outreach!Attempt
  BY <1>1, LoggingEnds
<1>4. order' = order /\ inbox' = inbox
  BY <1>1, <1>3, Ends
<1>5. /\ everybody = Outreach!Cardinality(answers[c]) /\ everybody \in Nat /\ sent \in Nat /\ failed \in Nat
      /\ everybody = sent + failed
  BY <1>3, AnswersCounted, SameOutreachCardinality
<1>6. {a \in answers[c] : a.ok = TRUE} = {a \in answers[c] : a.ok}
  BY <1>3 DEF Outreach!Attempt
<1> HIDE DEF everybody, failed
<1>7. sent = Outreach!Cardinality({a \in answers[c] : a.ok})
  BY <1>6
<1> HIDE DEF sent
<1>8. campaign' \in [Campaigns -> Outreach!Counters] /\ \A d \in Campaigns \ {c} : campaign'[d] = campaign[d]
  BY <1>1, <1>5, OutreachTyped DEF OutreachInv, Outreach!Counters
<1>9. campaign'[c] = [total |-> everybody, sent |-> sent, failed |-> failed]
  BY <1>1, OutreachTyped DEF OutreachInv
<1>10. campaign'[c].total = everybody /\ campaign'[c].sent = sent /\ campaign'[c].failed = everybody - sent
  BY <1>5, <1>9
<1>11. Told(c)'
  BY <1>3, <1>4, <1>5, <1>7, <1>10 DEF Told
<1> QED
  BY <1>1, <1>2, <1>8, <1>11, LoggedKeeps

\* A draft writes a group that is ready, or that was sent before it.
LEMMA DraftCommitWrites ==
  ASSUME Outreach!OutreachAssumption, OutreachInv, NEW d \in Drafts, Outreach!DraftCommit(d)
  PROVE  LET g == order[d].group IN
         /\ pc[d] = "draft" /\ d \in Outreach!InFlight /\ g \in Outreach!Groups /\ Outreach!End(d, "done")
         /\ logs' = logs /\ campaign' = campaign /\ roll' = roll
         /\ group' \in [Creates -> Outreach!Group]
         /\ \A h \in Creates \ {g} : group'[h] = group[h]
         /\ group'[g].org = group[g].org /\ group'[g].members = group[g].members
         /\ group'[g].status \in {"READY", "SENT"}
         /\ group'[g].status = "SENT" => group[g].status = "SENT"
         /\ group[g].status = "SENT" => group'[g].status = "SENT" \/ seen[d].text = None
<1> DEFINE g == order[d].group
           saved == Outreach!Saved(group[g], seen[d], order[d].text)
<1>1. /\ pc[d] = "draft" /\ g \in Outreach!Groups /\ group' = [group EXCEPT ![g] = saved] /\
           Outreach!End(d, "done")
      /\ logs' = logs /\ campaign' = campaign /\ roll' = roll
  BY DEF Outreach!DraftCommit
<1>2. d \in Outreach!Requests /\ d \in Outreach!InFlight /\ g \in Creates
  BY <1>1, MessengersApart DEF Outreach!InFlight, Outreach!Groups
<1>3. /\ group \in [Creates -> Outreach!Group] /\ group[g] \in Outreach!Group /\ seen[d] \in Outreach!Group
      /\ order[d].text \in Texts \cup {None} /\ group[g].status # "NONE"
  BY <1>1, <1>2, OutreachTyped DEF OutreachInv, Outreach!Order, Outreach!Groups
<1>4. DraftKept(d)
  BY <1>2 DEF OutreachInv, RequestsKept, RequestKept
<1>5. /\ saved \in Outreach!Group /\ saved.org = group[g].org /\ saved.members = group[g].members
      /\ saved.status = IF seen[d].status = "READY" THEN group[g].status ELSE "READY"
  BY <1>3 DEF Outreach!Saved, Outreach!Group, Outreach!GroupStatus
<1>6. saved.status \in {"READY", "SENT"} /\ (saved.status = "SENT" => group[g].status = "SENT")
  <2>1. group[g].status \in Outreach!GroupStatus
    BY <1>3, OutreachFields
  <2> HIDE DEF saved
  <2> QED
    BY <2>1, <1>1, <1>3, <1>4, <1>5 DEF DraftKept, Outreach!GroupStatus
<1>7. group[g].status = "SENT" => saved.status = "SENT" \/ seen[d].text = None
  <2> HIDE DEF saved
  <2> QED
    BY <1>1, <1>4, <1>5 DEF DraftKept
<1> HIDE DEF saved
<1>8. /\ group'[g] = saved /\ group' \in [Creates -> Outreach!Group] /\ \A h \in Creates \ {g} :
           group'[h] = group[h]
  BY <1>1, <1>2, <1>3, <1>5
<1> QED
  BY <1>1, <1>2, <1>5, <1>6, <1>7, <1>8

LEMMA DraftCommitKeeps ==
  ASSUME Outreach!OutreachAssumption, OutreachInv, NEW d \in Drafts, Outreach!DraftCommit(d)
  PROVE  OutreachInv'
<1> DEFINE g == order[d].group
<1>1. /\ pc[d] = "draft" /\ d \in Outreach!InFlight /\ g \in Outreach!Groups /\ Outreach!End(d, "done")
      /\ logs' = logs /\ campaign' = campaign /\ roll' = roll
      /\ group' \in [Creates -> Outreach!Group]
      /\ \A h \in Creates \ {g} : group'[h] = group[h]
      /\ group'[g].org = group[g].org /\ group'[g].members = group[g].members
      /\ group'[g].status \in {"READY", "SENT"}
      /\ group'[g].status = "SENT" => group[g].status = "SENT"
  BY DraftCommitWrites
<1>2. /\ pc'[d] = "done" /\ Onward(d) /\ order' = order /\ inbox' = inbox /\ overlapped' = overlapped
      /\ pc' \in [Outreach!Requests -> {"new", "draft", "send", "done", "failed"}]
      /\ seen' \in [Outreach!Requests -> Outreach!Group] /\ todo' \in [Outreach!Requests -> SUBSET Voters]
      /\ answers' \in [Outreach!Requests -> SUBSET Outreach!Attempt]
      /\ \A q \in Outreach!Requests \ {d} :
           seen'[q] = seen[q] /\ todo'[q] = todo[q] /\ answers'[q] = answers[q]
      /\ GroupFlightsKnown'
  BY <1>1, Ends
<1>3. /\ Sends \subseteq Outreach!Requests /\ Creates \subseteq Outreach!Requests /\
           Sends \subseteq Outreach!Messengers
      /\ d \in Outreach!Requests /\ d \notin Outreach!Messengers /\ g \in Creates
  BY <1>1, MessengersApart DEF Outreach!Groups
<1>4. DraftKept(d)
  BY <1>3 DEF OutreachInv, RequestsKept, RequestKept
<1> HIDE DEF g
<1>5. Outreach!Groups' = Outreach!Groups
  BY <1>1, <1>3 DEF Outreach!Groups
<1>6. Outreach!TypeOK'
  <2>1. \A h \in Outreach!Groups' :
          group'[h].members \subseteq Outreach!VotersOf(group'[h].org) \cap Mobile \cap roll'
    <3> TAKE h \in Outreach!Groups'
    <3>1. h \in Outreach!Groups /\ h \in Creates
      BY <1>5 DEF Outreach!Groups
    <3>2. group'[h].members = group[h].members /\ group'[h].org = group[h].org
      BY <3>1, <1>1
    <3> QED
      BY <1>1, <3>1, <3>2, GroupsTyped DEF OutreachInv
  <2> QED
    BY <2>1, <1>1, <1>2, OutreachTyped DEF OutreachInv, Outreach!TypeOK, Outreach!VotersOf
<1>7. Outreach!LogsTellTheTruth' /\ LogsKept'
  BY <1>1, <1>2, <1>3, <1>5, TruthStays, LogsStay
<1>8. SendsApart'
  BY <1>2, <1>3, ApartStays
<1>9. \A q \in Sends : pc'[q] = "done" =>
        q \in Outreach!Requests /\ pc[q] = "done" /\ (Outreach!Redrafted(q) => Outreach!Redrafted(q)')
  <2> SUFFICES ASSUME NEW q \in Sends, pc'[q] = "done"
               PROVE  q \in Outreach!Requests /\ pc[q] = "done" /\ (Outreach!Redrafted(q) =>
                        Outreach!Redrafted(q)')
    OBVIOUS
  <2>1. q \in Outreach!Requests /\ pc[q] = "done"
    BY <1>2, <1>3 DEF Onward
  <2> QED
    BY <2>1, <1>2, RedraftedStays
<1>10. GroupsKept'
  <2>1. ASSUME NEW q \in Sends, pc'[q] = "done", order'[q].group \in Outreach!Groups'
        PROVE  group'[order'[q].group].status = "SENT" \/ Outreach!Redrafted(q)'
    <3>1. CASE order[q].group = g
      <4>1. {d, q} \in overlapped \/ Outreach!Redrafted(q)
        BY <3>1, <2>1, <1>1, <1>4, <1>9 DEF DraftKept, g
      <4>2. {d, q} \in overlapped => Outreach!Redrafted(q)'
        BY <3>1, <1>2 DEF Outreach!Redrafted, g
      <4> QED
        BY <4>1, <4>2, <2>1, <1>9
    <3>2. CASE order[q].group # g
      <4>1. order[q].group \in Outreach!Groups /\ order[q].group \in Creates
        BY <2>1, <1>2, <1>5 DEF Outreach!Groups
      <4>2. group'[order[q].group] = group[order[q].group]
        BY <3>2, <4>1, <1>1
      <4>3. group[order[q].group].status = "SENT" \/ Outreach!Redrafted(q)
        BY <2>1, <4>1, <1>9 DEF OutreachInv, GroupsKept
      <4> QED
        BY <4>2, <4>3, <2>1, <1>2, <1>9
    <3> QED
      BY <3>1, <3>2
  <2>2. ASSUME NEW h \in Outreach!Groups', group'[h].status = "DRAFT" PROVE group'[h].text = None
    <3>1. h \in Outreach!Groups /\ h \in Creates /\ h # g
      BY <2>2, <1>1, <1>5 DEF Outreach!Groups
    <3> QED
      BY <3>1, <2>2, <1>1 DEF OutreachInv, GroupsKept
  <2> QED
    BY <2>1, <2>2 DEF GroupsKept
<1>11. RequestsKept'
  <2>1. RequestKept(d)'
    BY <1>1, <1>5, EndedKept
  <2>2. ASSUME NEW q \in Outreach!Requests \ {d} PROVE RequestKept(q)'
    <3>1. /\ pc'[q] = pc[q] /\ PlaceKept(q) /\ AnswersKept(q) /\ DraftKept(q)
      BY <1>2 DEF Onward, OutreachInv, RequestsKept, RequestKept
    <3>2. PlaceKept(q)'
      BY <3>1, <1>2, <1>3, <1>5 DEF PlaceKept, Onward
    <3>3. AnswersKept(q)'
      BY <3>1, <1>2 DEF AnswersKept
    <3>4. DraftKept(q)'
      <4> SUFFICES ASSUME q \in Drafts, pc[q] = "draft" PROVE DraftKept(q)'
        BY <3>1 DEF DraftKept
      <4> DEFINE h == order[q].group
      <4>1. h \in Creates
        BY <3>1 DEF PlaceKept
      <4>2. /\ group'[h].status = "SENT" => group[h].status = "SENT"
            /\ group[h].status # "DRAFT" => group'[h].status # "DRAFT"
        BY <4>1, <1>1
      <4>3. group'[h].status = "SENT" =>
               \E s \in Sends : pc'[s] # "new" /\ order[s].group = h /\ {q, s} \in overlapped
        BY <4>2, <3>1, <1>2, <1>3 DEF DraftKept, Onward
      <4>4. ASSUME NEW s \in Sends, pc'[s] = "done", order[s].group = h
            PROVE  {q, s} \in overlapped \/ Outreach!Redrafted(s)'
        BY <4>4, <3>1, <1>9 DEF DraftKept
      <4> QED
        BY <4>2, <4>3, <4>4, <3>1, <1>2 DEF DraftKept
    <3> QED
      BY <3>2, <3>3, <3>4 DEF RequestKept
  <2> QED
    BY <2>1, <2>2 DEF RequestsKept
<1> QED
  BY <1>2, <1>6, <1>7, <1>8, <1>10, <1>11 DEF OutreachInv

LEMMA OutreachStep == Outreach!OutreachAssumption /\ OutreachInv /\ [Outreach!Next]_Outreach!vars =>
  OutreachInv'
<1> SUFFICES ASSUME Outreach!OutreachAssumption, OutreachInv, [Outreach!Next]_Outreach!vars PROVE OutreachInv'
  OBVIOUS
<1>1. \A g \in Creates, org \in Orgs, selected \in SUBSET Voters :
        Outreach!CreateGroup(g, org, selected) => OutreachInv'
  BY CreateKeeps
<1>2. \A gs \in SUBSET Creates : Outreach!DeleteGroups(gs) => OutreachInv'
  BY DeleteKeeps
<1>3. \A d \in Drafts, g \in Outreach!Groups, text \in Texts : Outreach!DraftRead(d, g, text) => OutreachInv'
  BY DraftReadKeeps
<1>4. \A d \in Drafts : Outreach!DraftCommit(d) => OutreachInv'
  BY DraftCommitKeeps
<1>5. \A r \in Sends, g \in Outreach!Groups : Outreach!SendRead(r, g) => OutreachInv'
  BY SendReadKeeps
<1>6. \A b \in Blasts, org \in Orgs, selected \in SUBSET Voters : Outreach!BlastRead(b, org, selected) =>
        OutreachInv'
  BY BlastReadKeeps
<1>7. \A c \in Campaigns, org \in Orgs, audience \in SUBSET Voters :
        Outreach!CampaignRead(c, org, audience) => OutreachInv'
  BY CampaignReadKeeps
<1>8. \A r \in Outreach!Messengers, v \in Voters : Outreach!Message(r, v) => OutreachInv'
  BY MessageKeeps
<1>9. \A r \in Outreach!Messengers :
        (Outreach!SendCommit(r) \/ Outreach!BlastCommit(r) \/ Outreach!CampaignCommit(r)) => OutreachInv'
  BY SendCommitKeeps, BlastCommitKeeps, CampaignCommitKeeps
<1>10. \A r \in Outreach!Requests : Outreach!Fail(r) => OutreachInv'
  BY FailKeeps
<1>11. \A v \in Leavers : (Outreach!DeleteVoter(v) \/ Outreach!EnrolVoter(v)) => OutreachInv'
  BY DeleteVoterKeeps, EnrolVoterKeeps DEF Outreach!OutreachAssumption
<1>12. UNCHANGED Outreach!vars => OutreachInv'
  <2> SUFFICES ASSUME UNCHANGED Outreach!vars PROVE OutreachInv'
    OBVIOUS
  <2>1. /\ group' = group /\ logs' = logs /\ campaign' = campaign /\ roll' = roll /\ pc' = pc /\ order' = order /\
             seen' = seen
        /\ todo' = todo /\ answers' = answers /\ inbox' = inbox /\ overlapped' = overlapped
    BY DEF Outreach!vars, Outreach!rows, Outreach!locals
  <2>2. Outreach!TypeOK' /\ Outreach!LogsTellTheTruth' /\ GroupFlightsKnown' /\ LogsKept'
    BY <2>1 DEF OutreachInv, Outreach!TypeOK, Outreach!Groups, Outreach!VotersOf,
       Outreach!LogsTellTheTruth, Outreach!LogsOf, Outreach!Settled, GroupFlightsKnown,
                Outreach!InFlight, LogsKept
  <2>3. GroupsKept' /\ SendsApart'
    BY <2>1 DEF OutreachInv, GroupsKept, SendsApart, Outreach!Redrafted, Outreach!Groups
  <2>4. \A r \in Outreach!Requests : PlaceKept(r) /\ AnswersKept(r) /\ DraftKept(r)
    BY DEF OutreachInv, RequestsKept, RequestKept
  <2>5. \A r \in Outreach!Requests : PlaceKept(r)' /\ AnswersKept(r)'
    BY <2>1, <2>4 DEF PlaceKept, AnswersKept, Outreach!Groups
  <2>6. \A r \in Outreach!Requests : DraftKept(r)'
    BY <2>1, <2>4 DEF DraftKept, Outreach!Redrafted
  <2> QED
    BY <2>2, <2>3, <2>5, <2>6 DEF OutreachInv, RequestsKept, RequestKept
<1> QED
  BY <1>1, <1>2, <1>3, <1>4, <1>5, <1>6, <1>7, <1>8, <1>9, <1>10, <1>11, <1>12 DEF Outreach!Next

LEMMA OutreachInvEnough == Outreach!OutreachAssumption /\ OutreachInv =>
  Outreach!TypeOK /\ Outreach!LogsTellTheTruth /\ Outreach!OncePerMember
<1> SUFFICES ASSUME Outreach!OutreachAssumption, OutreachInv PROVE Outreach!OncePerMember
  BY DEF OutreachInv
<1> SUFFICES ASSUME NEW m \in inbox, NEW n \in inbox, m.by # n.by, m.by \in Sends, n.by \in Sends,
                    order[m.by].group = order[n.by].group
             PROVE  \/ {m.by, n.by} \in overlapped
                    \/ "failed" \in {pc[m.by], pc[n.by]}
                    \/ Outreach!Redrafted(m.by) \/ Outreach!Redrafted(n.by)
  BY DEF Outreach!OncePerMember
<1>1. \A q \in Sends : q \in Outreach!Messengers /\ q \in Outreach!Requests
  BY MessengersApart
<1>2. \A q \in Sends : pc[q] # "draft" /\ pc[q] \in {"new", "draft", "send", "done", "failed"}
  BY <1>1, OutreachTyped DEF OutreachInv, RequestsKept, RequestKept, PlaceKept
<1>3. pc[m.by] # "new" /\ pc[n.by] # "new"
  BY DEF OutreachInv, LogsKept
<1> QED
  BY <1>2, <1>3 DEF OutreachInv, SendsApart

LEMMA SentStepsStand == Outreach!OutreachAssumption /\ OutreachInv /\ Outreach!Next => Outreach!SentChange
<1> SUFFICES ASSUME Outreach!OutreachAssumption, OutreachInv, Outreach!Next, NEW g \in Creates,
                    group[g].status = "SENT", group'[g].status # "NONE",
                    Outreach!Content(group'[g]) # Outreach!Content(group[g])
             PROVE  \E d \in Drafts, r \in Sends :
                      /\ pc[d] = "draft" /\ pc'[d] = "done"
                      /\ order[d].group = g /\ order[r].group = g
                      /\ {d, r} \in overlapped
                      /\ group'[g].status = "SENT" \/ seen[d].text = None
  BY DEF Outreach!SentChange
<1>1. group \in [Creates -> Outreach!Group] /\ g \in Outreach!Groups
  BY OutreachTyped DEF OutreachInv, Outreach!Groups
<1>2. PICK d \in Drafts : Outreach!DraftCommit(d) /\ order[d].group = g
  <2>1. group' # group
    OBVIOUS
  <2>2. ASSUME NEW h \in Creates, NEW org \in Orgs, NEW selected \in SUBSET Voters, Outreach!CreateGroup(h, org, selected)
        PROVE  FALSE
    <3>1. pc[h] = "new" /\ (h # g => group'[g] = group[g])
      BY <2>2, <1>1 DEF Outreach!CreateGroup, Outreach!Begin
    <3>2. pc[g] = "done"
      BY <1>1, MessengersApart DEF OutreachInv, RequestsKept, RequestKept, PlaceKept
    <3> QED
      BY <3>1, <3>2
  <2>3. ASSUME NEW gs \in SUBSET Creates, Outreach!DeleteGroups(gs) PROVE FALSE
    <3>1. group'[g] = IF g \in gs THEN Outreach!NoGroup ELSE group[g]
      BY <2>3 DEF Outreach!DeleteGroups
    <3> QED
      BY <3>1 DEF Outreach!NoGroup
  <2>4. ASSUME NEW d \in Drafts, Outreach!DraftCommit(d), order[d].group # g PROVE FALSE
    BY <2>4, <1>1, DraftCommitWrites
  <2>5. ASSUME NEW r \in Outreach!Messengers, Outreach!SendCommit(r) PROVE FALSE
    <3>1. group' = [group EXCEPT ![order[r].group] = [group[order[r].group] EXCEPT !.status = "SENT"]]
      BY <2>5 DEF Outreach!SendCommit
    <3>2. order[r].group # g => group'[g] = group[g]
      BY <3>1, <1>1
    <3>3. order[r].group = g => group'[g] = [group[g] EXCEPT !.status = "SENT"]
      BY <3>1, <1>1
    <3>4. [group[g] EXCEPT !.status = "SENT"] = group[g]
      BY <1>1 DEF Outreach!Group
    <3> QED
      BY <3>2, <3>3, <3>4
  <2>6. \A d \in Drafts, h \in Outreach!Groups, text \in Texts : Outreach!DraftRead(d, h, text) =>
          group' = group
    BY DEF Outreach!DraftRead, Outreach!rows
  <2>7. \A r \in Sends, h \in Outreach!Groups : Outreach!SendRead(r, h) => group' = group
    BY DEF Outreach!SendRead, Outreach!rows
  <2>8. \A b \in Blasts, org \in Orgs, selected \in SUBSET Voters : Outreach!BlastRead(b, org, selected) =>
          group' = group
    BY DEF Outreach!BlastRead, Outreach!rows
  <2>9. \A c \in Campaigns, org \in Orgs, audience \in SUBSET Voters :
          Outreach!CampaignRead(c, org, audience) => group' = group
    BY DEF Outreach!CampaignRead, Outreach!rows
  <2>10. \A r \in Outreach!Messengers, v \in Voters : Outreach!Message(r, v) => group' = group
    BY DEF Outreach!Message, Outreach!rows
  <2>11. \A r \in Outreach!Messengers : (Outreach!BlastCommit(r) \/ Outreach!CampaignCommit(r)) =>
           group' = group
    BY DEF Outreach!BlastCommit, Outreach!CampaignCommit
  <2>12. \A r \in Outreach!Requests : Outreach!Fail(r) => group' = group
    BY DEF Outreach!Fail, Outreach!rows
  <2>13. UNCHANGED Outreach!vars => group' = group
    BY DEF Outreach!vars, Outreach!rows
  <2>14. ASSUME NEW v \in Leavers, Outreach!DeleteVoter(v) PROVE FALSE
    <3>1. g \in Creates /\ v \in Voters
      BY DEF Outreach!OutreachAssumption
    <3>2. group'[g].status = group[g].status /\ group'[g].text = group[g].text
      BY <2>14, <3>1, MembersLeave
    <3> QED
      BY <3>2 DEF Outreach!Content
  <2>15. \A v \in Leavers : Outreach!EnrolVoter(v) => group' = group
    BY DEF Outreach!EnrolVoter
  <2> QED
    BY <2>1, <2>2, <2>3, <2>4, <2>5, <2>6, <2>7, <2>8, <2>9, <2>10, <2>11, <2>12, <2>13, <2>14, <2>15 DEF Outreach!Next
<1>3. /\ pc[d] = "draft" /\ d \in Outreach!InFlight /\ Outreach!End(d, "done")
      /\ group'[g].status = "SENT" \/ seen[d].text = None
  BY <1>2, DraftCommitWrites
<1>4. pc'[d] = "done"
  BY <1>3, Ends
<1>5. PICK r \in Sends : order[r].group = g /\ {d, r} \in overlapped
  <2>1. DraftKept(d)
    BY MessengersApart DEF OutreachInv, RequestsKept, RequestKept
  <2> QED
    BY <2>1, <1>2, <1>3 DEF DraftKept
<1> QED
  BY <1>2, <1>3, <1>4, <1>5

LEMMA OutreachStepOfOffice == [OfficeNext]_all => [Outreach!Next]_Outreach!vars
<1>1. OutreachSteps => Outreach!Next
  BY DEF OutreachSteps
<1>2. outreach' = outreach => UNCHANGED Outreach!vars
  BY DEF outreach, Outreach!vars, Outreach!rows, Outreach!locals
<1>3. DeskSteps \/ BudgetSteps \/ RateLimiterSteps \/ AccessSteps \/ UNCHANGED all => outreach' = outreach
  BY DEF DeskSteps, BudgetSteps, RateLimiterSteps, AccessSteps, all
<1> QED
  BY <1>1, <1>2, <1>3 DEF OfficeNext

LEMMA OutreachOfOffice == OfficeSpec => []OutreachInv
<1>1. Outreach!OutreachAssumption
  BY OfficeAssumption
<1>2. OfficeInit => OutreachInv
  BY <1>1, OutreachInitInv DEF OfficeInit
<1>3. OutreachInv /\ [OfficeNext]_all => OutreachInv'
  BY <1>1, OutreachStep, OutreachStepOfOffice
<1> QED
  BY <1>2, <1>3, PTL DEF OfficeSpec

\* What a request that ended well has logged is what left, but for mocked
\* adapters and numbers that nobody has, and it is what is counted,
\* and nobody gets the message of a group twice unless its requests overlapped
\* or one of them failed (broadcast_service.py, notification_service.py).
THEOREM OfficeMessagesInOrder == OfficeSpec => []MessagesInOrder
<1>1. OutreachInv => MessagesInOrder
  BY OutreachInvEnough, OfficeAssumption DEF MessagesInOrder
<1> QED
  BY <1>1, OutreachOfOffice, PTL

\* A group that was sent stays as it was sent, unless a draft that had loaded
\* it before is committed after (save_group_draft and send_group in
\* broadcast_service.py).
THEOREM OfficeSentStands == OfficeSpec => SentStands
<1>1. OutreachInv /\ [OfficeNext]_all => [Outreach!SentChange]_outreach
  <2>1. OutreachSteps => Outreach!Next
    BY DEF OutreachSteps
  <2>2. DeskSteps \/ BudgetSteps \/ RateLimiterSteps \/ AccessSteps \/ UNCHANGED all => outreach' = outreach
    BY DEF DeskSteps, BudgetSteps, RateLimiterSteps, AccessSteps, all
  <2> QED
    BY <2>1, <2>2, SentStepsStand, OfficeAssumption DEF OfficeNext
<1> QED
  BY <1>1, OutreachOfOffice, PTL DEF OfficeSpec, SentStands

-----------------------------------------------------------------------------
(***************************************************************************)
(* What the desk keeps is in order, whichever requests overlap.            *)
(***************************************************************************)
Steps == {"none", "edit", "delete", "status", "review", "update", "target", "share", "discard"}

Orders == [op : Steps, user : People \cup {None}, id : Desk!Ids \cup {None},
           new : Desk!RowOf(kind) \cup {None}, to : SUBSET People]

\* The types of what TypeOK leaves open.
DeskTyped ==
  /\ Desk!TypeOK
  /\ deskOrder \in [DeskRequests -> Orders]
  /\ loaded \in [DeskRequests -> Desk!RowOf(kind) \cup {None}]
  /\ targets \in [Desk!Ids -> Seq([by : DeskRequests, set : Desk!Profile])]

\* Requests that are in flight together are known to be.
DeskFlightsKnown == \A p, q \in Desk!InFlight : p # q => {p, q} \in deskOverlapped

\* What a row that is there tells of requests, it tells of requests that were made.
RowMade(i) ==
  /\ i \in DeskRequests => deskPc[i] = "done"
  /\ kind = "complaint" => deskPc[row[i].born] # "new"
  /\ kind = "activity" /\ row[i].reviewer # None => deskPc[row[i].reviewer] = "done"

RowsMade == \A i \in Desk!Rows : RowMade(i)

\* The row that r works on is as r has loaded it, unless r overlapped.
LoadKept(r) ==
  /\ deskOrder[r].id \in Desk!Ids /\ (deskOrder[r].id \in DeskRequests => deskPc[deskOrder[r].id] # "new")
  /\ loaded[r] \in Desk!RowOf(kind)
  /\ row[deskOrder[r].id] = loaded[r] \/ \E q \in DeskRequests : {r, q} \in deskOverlapped
  /\ deskPc[r] = "shares" => kind = "poster" /\ deskOrder[r].op = "discard"

\* A task is dated when it is completed, by r or before.
TaskKept(r) ==
  kind = "task" =>
    /\ deskOrder[r].op \in {"edit", "delete"}
    /\ deskOrder[r].op = "edit" =>
         deskOrder[r].new \in Desk!Task /\
           deskOrder[r].new.dated = (loaded[r].dated \/ deskOrder[r].new.status = "COMPLETED")
    /\ deskOrder[r].id \in Desk!Rows =>
         /\ loaded[r].dated => row[deskOrder[r].id].dated
         /\ row[deskOrder[r].id].status = "COMPLETED" /\ loaded[r].status # "COMPLETED" =>
              row[deskOrder[r].id].dated

ProfileKept(r) == kind = "profile" =>
  deskOrder[r].op \in {"update", "target"} /\ deskOrder[r].new \in Desk!Profile

\* A complaint keeps its author, and is edited and deleted by him alone.
AuthorKept(r) ==
  kind = "complaint" =>
    /\ deskOrder[r].op \in {"edit", "delete", "status"} /\ deskPc[loaded[r].born] # "new"
    /\ deskOrder[r].op # "status" => deskOrder[r].user = loaded[r].author
    /\ deskOrder[r].op = "edit" => deskOrder[r].new = [loaded[r] EXCEPT !.text = r]
    /\ deskOrder[r].op = "status" =>
         /\ Desk!IsSuper(deskOrder[r].user)
         /\ \E s \in Desk!ComplaintStatus : deskOrder[r].new = [loaded[r] EXCEPT !.status = s]
    /\ deskOrder[r].id \in Desk!Rows /\ row[deskOrder[r].id].born = loaded[r].born =>
         row[deskOrder[r].id].author = loaded[r].author

\* A review names its reviewer.
ReviewKept(r) ==
  kind = "activity" =>
    /\ deskOrder[r].op \in {"review", "delete"}
    /\ loaded[r].reviewer # None => deskPc[loaded[r].reviewer] = "done"
    /\ deskOrder[r].op = "review" =>
         \E s \in Desk!ActivityStatus : deskOrder[r].new = [loaded[r] EXCEPT !.status = s, !.reviewer = r]

\* Who has the poster already, of those whom r shares it with, has it by a
\* request that overlapped with r.
ShareKept(r) ==
  kind = "poster" =>
    /\ deskOrder[r].op \in {"share", "discard"}
    /\ deskOrder[r].op = "share" =>
         \A s \in shares : s.poster = deskOrder[r].id /\ s.with \in deskOrder[r].to =>
           {s.by, r} \in deskOverlapped

WorkKept(r) == LoadKept(r) /\ TaskKept(r) /\ ProfileKept(r) /\ AuthorKept(r) /\ ReviewKept(r) /\ ShareKept(r)

DeskInv ==
  /\ DeskTyped /\ Desk!TargetsAgree /\ Desk!SharedOnce /\ Desk!ReviewerAnswers /\ DeskFlightsKnown /\ RowsMade
  /\ \A r \in Desk!InFlight : WorkKept(r)

-----------------------------------------------------------------------------
LEMMA DeskFields ==
  /\ \A t \in Desk!Task : t.status \in Desk!TaskStatus /\ t.dated \in BOOLEAN /\ t.assignee \in People
  /\ \A c \in Desk!Complaint : c.author \in People /\ c.status \in Desk!ComplaintStatus /\
       c.text \in DeskRequests /\ c.born \in DeskRequests
  /\ \A a \in Desk!Activity : a.status \in Desk!ActivityStatus /\ a.reviewer \in DeskRequests \cup {None}
  /\ \A t \in [by : DeskRequests, set : Desk!Profile] : t.by \in DeskRequests /\ t.set \in Desk!Profile
BY DEF Desk!Task, Desk!Complaint, Desk!Activity

LEMMA RowsOfKinds ==
  /\ Desk!RowOf("task") = Desk!Task /\ Desk!RowOf("profile") = Desk!Profile /\
       Desk!RowOf("complaint") = Desk!Complaint
  /\ Desk!RowOf("activity") = Desk!Activity /\ Desk!RowOf("poster") = Desk!Poster
BY DEF Desk!RowOf

LEMMA DeskTypes ==
  ASSUME Desk!DeskAssumption, DeskInv
  PROVE  /\ kind \in Desk!Kinds /\ row \in [Desk!Ids -> Desk!RowOf(kind) \cup {None}] /\
           None \notin Desk!RowOf(kind)
         /\ targets \in [Desk!Ids -> Seq([by : DeskRequests, set : Desk!Profile])]
         /\ shares \subseteq [poster : Desk!Ids, with : People, by : DeskRequests]
         /\ notes \subseteq [to : People, of : Desk!Ids, by : DeskRequests]
         /\ deskPc \in [DeskRequests -> {"new", "shares", "commit", "done", "failed"}]
         /\ deskOrder \in [DeskRequests -> Orders] /\
              loaded \in [DeskRequests -> Desk!RowOf(kind) \cup {None}]
         /\ asked \in [DeskRequests -> Desk!ActivityStatus \cup {None}] /\ direct \subseteq Desk!Ids
         /\ \A o \in deskOverlapped : o \subseteq DeskRequests
         /\ \A i \in Desk!Rows : i \in Desk!Ids /\ row[i] \in Desk!RowOf(kind)
         /\ Desk!InFlight \subseteq DeskRequests /\ DeskRequests \subseteq Desk!Ids /\
              None \notin DeskRequests
<1>1. /\ kind \in Desk!Kinds /\ row \in [Desk!Ids -> Desk!RowOf(kind) \cup {None}] /\
           None \notin Desk!RowOf(kind)
      /\ targets \in [Desk!Ids -> Seq([by : DeskRequests, set : Desk!Profile])]
      /\ shares \subseteq [poster : Desk!Ids, with : People, by : DeskRequests]
      /\ notes \subseteq [to : People, of : Desk!Ids, by : DeskRequests]
      /\ deskPc \in [DeskRequests -> {"new", "shares", "commit", "done", "failed"}]
      /\ deskOrder \in [DeskRequests -> Orders] /\ loaded \in [DeskRequests -> Desk!RowOf(kind) \cup {None}]
      /\ asked \in [DeskRequests -> Desk!ActivityStatus \cup {None}] /\ direct \subseteq Desk!Ids
      /\ \A o \in deskOverlapped : o \subseteq DeskRequests
  BY DEF Desk!DeskAssumption, DeskInv, DeskTyped, Desk!TypeOK
<1>2. /\ \A i \in Desk!Rows : i \in Desk!Ids /\ row[i] \in Desk!RowOf(kind)
      /\ Desk!InFlight \subseteq DeskRequests /\ DeskRequests \subseteq Desk!Ids
  BY <1>1 DEF Desk!Rows, Desk!InFlight, Desk!Ids
<1>3. None \notin DeskRequests
  BY DEF Desk!DeskAssumption
<1> QED
  BY <1>1, <1>2, <1>3

LEMMA ElementOf == ASSUME NEW S, NEW s \in Seq(S), NEW k \in 1..Len(s) PROVE s[k] \in S
OBVIOUS

LEMMA TargetsRead ==
  ASSUME NEW f \in [Desk!Ids -> Seq([by : DeskRequests, set : Desk!Profile])], NEW j \in Desk!Ids,
    NEW k \in 1..Len(f[j])
  PROVE  f[j][k] \in [by : DeskRequests, set : Desk!Profile]
<1> DEFINE S == [by : DeskRequests, set : Desk!Profile]
<1>1. f[j] \in Seq(S)
  OBVIOUS
<1> HIDE DEF S
<1>2. f[j][k] \in S
  BY <1>1, ElementOf
<1> QED
  BY <1>2 DEF S

\* A step of r: it ends what is in flight, or begins it, and others stay where
\* they are.
Moves(r) ==
  /\ r \in DeskRequests /\ deskPc[r] # "done" /\ deskPc[r] # "failed" /\ deskPc'[r] # "new"
  /\ \A q \in DeskRequests \ {r} :
       deskPc'[q] = deskPc[q] /\ deskOrder'[q] = deskOrder[q] /\ loaded'[q] = loaded[q]
  /\ kind' = kind
  /\ deskOverlapped \subseteq deskOverlapped'

\* What is typed and what overlaps, when r loads a row.
LEMMA Loads ==
  ASSUME Desk!DeskAssumption, DeskInv, NEW r \in DeskRequests, NEW op \in Steps,
    NEW u \in People \cup {None}, NEW i \in Desk!Rows,
         NEW new \in Desk!RowOf(kind) \cup {None}, NEW to \in SUBSET People, Desk!Load(r, op, u, i, new, to)
  PROVE  /\ deskPc[r] = "new" /\ Moves(r) /\ deskPc'[r] = (IF op = "discard" THEN "shares" ELSE "commit")
         /\ deskOrder'[r].op = op /\ deskOrder'[r].user = u /\ deskOrder'[r].id = i /\
              deskOrder'[r].new = new /\ deskOrder'[r].to = to
         /\ loaded'[r] = row[i]
         /\ row' = row /\ targets' = targets /\ shares' = shares /\ notes' = notes
         /\ asked' = asked /\ direct' = direct
         /\ \A q \in Desk!InFlight : {r, q} \in deskOverlapped'
         /\ DeskTyped' /\ DeskFlightsKnown'
<1>1. /\ deskPc[r] = "new"
      /\ deskOrder' = [deskOrder EXCEPT ![r] = [op |-> op, user |-> u, id |-> i, new |-> new, to |-> to]]
      /\ loaded' = [loaded EXCEPT ![r] = row[i]]
      /\ deskOverlapped' = deskOverlapped \cup {{r, q} : q \in Desk!InFlight}
      /\ deskPc' = [deskPc EXCEPT ![r] = IF op = "discard" THEN "shares" ELSE "commit"]
      /\ kind' = kind /\ row' = row /\ targets' = targets /\ shares' = shares /\ notes' = notes
      /\ asked' = asked /\ direct' = direct
  BY DEF Desk!Load, Desk!tables
<1>2. i \in Desk!Ids /\ row[i] \in Desk!RowOf(kind)
  BY DeskTypes
<1> PICK o \in Orders : o = [op |-> op, user |-> u, id |-> i, new |-> new, to |-> to]
  BY <1>2 DEF Orders
<1>3. o.op = op /\ o.user = u /\ o.id = i /\ o.new = new /\ o.to = to
  OBVIOUS
<1>4. /\ deskOrder'[r] = o /\ deskOrder' \in [DeskRequests -> Orders]
      /\ loaded'[r] = row[i] /\ loaded' \in [DeskRequests -> Desk!RowOf(kind) \cup {None}]
      /\ deskPc'[r] = (IF op = "discard" THEN "shares" ELSE "commit")
      /\ deskPc' \in [DeskRequests -> {"new", "shares", "commit", "done", "failed"}]
      /\ \A q \in DeskRequests \ {r} :
           deskPc'[q] = deskPc[q] /\ deskOrder'[q] = deskOrder[q] /\ loaded'[q] = loaded[q]
  BY <1>1, <1>2, DeskTypes
<1>5. /\ \A q \in Desk!InFlight : {r, q} \in deskOverlapped'
      /\ \A p \in deskOverlapped' : p \subseteq DeskRequests
      /\ deskOverlapped \subseteq deskOverlapped'
  <2> DEFINE pairs == {{r, q} : q \in Desk!InFlight}
  <2>1. \A p \in pairs : p \subseteq DeskRequests
    <3>1. \A q \in Desk!InFlight : {r, q} \subseteq DeskRequests
      BY DEF Desk!InFlight
    <3> QED
      BY <3>1
  <2>2. \A q \in Desk!InFlight : {r, q} \in pairs
    OBVIOUS
  <2>3. deskOverlapped' = deskOverlapped \cup pairs
    BY <1>1
  <2> HIDE DEF pairs
  <2> QED
    BY <2>1, <2>2, <2>3, DeskTypes
<1>6. Moves(r)
  BY <1>1, <1>4, <1>5 DEF Moves
<1>7. DeskTyped'
  BY <1>1, <1>4, <1>5 DEF DeskInv, DeskTyped, Desk!TypeOK, Orders
<1>8. DeskFlightsKnown'
  <2> SUFFICES ASSUME NEW p \in Desk!InFlight', NEW q \in Desk!InFlight', p # q PROVE {p, q} \in deskOverlapped'
    BY DEF DeskFlightsKnown
  <2>1. \A x \in Desk!InFlight' : x = r \/ x \in Desk!InFlight
    BY <1>4 DEF Desk!InFlight
  <2>2. {p, q} = {q, p}
    OBVIOUS
  <2>3. p \in Desk!InFlight /\ q \in Desk!InFlight => {p, q} \in deskOverlapped'
    BY <1>5 DEF DeskInv, DeskFlightsKnown
  <2> QED
    BY <2>1, <2>2, <2>3, <1>5
<1> HIDE DEF Steps
<1> QED
  BY <1>1, <1>3, <1>4, <1>5, <1>6, <1>7, <1>8

\* What others go by, when r loads a row.
LEMMA LoadingKept ==
  ASSUME Desk!DeskAssumption, DeskInv, NEW r \in DeskRequests, Moves(r), deskPc[r] = "new",
         row' = row, shares' = shares, NEW q \in Desk!InFlight
  PROVE  WorkKept(q)'
<1>1. /\ q \in DeskRequests /\ q # r /\ deskPc'[q] = deskPc[q] /\ deskOrder'[q] = deskOrder[q] /\
           loaded'[q] = loaded[q]
      /\ kind' = kind /\ deskOverlapped \subseteq deskOverlapped' /\ Desk!Rows' = Desk!Rows
  BY DEF Moves, Desk!InFlight, Desk!Rows
<1>2. /\ LoadKept(q) /\ TaskKept(q) /\ ProfileKept(q) /\ AuthorKept(q) /\ ReviewKept(q) /\ ShareKept(q)
  BY DEF DeskInv, WorkKept
<1>3. \A p \in DeskRequests : (deskPc[p] # "new" => deskPc'[p] # "new") /\ (deskPc[p] = "done" =>
        deskPc'[p] = "done")
  BY DEF Moves
<1>4. loaded[q] \in Desk!RowOf(kind)
  BY <1>2 DEF LoadKept
<1>5. LoadKept(q)'
  BY <1>1, <1>2, <1>3 DEF LoadKept
<1>6. TaskKept(q)' /\ ProfileKept(q)' /\ ShareKept(q)'
  BY <1>1, <1>2 DEF TaskKept, ProfileKept, ShareKept
<1>7. AuthorKept(q)'
  <2>1. kind = "complaint" => loaded[q].born \in DeskRequests
    BY <1>4, RowsOfKinds, DeskFields
  <2> QED
    BY <2>1, <1>1, <1>2, <1>3 DEF AuthorKept
<1>8. ReviewKept(q)'
  <2>1. kind = "activity" => loaded[q].reviewer \in DeskRequests \cup {None}
    BY <1>4, RowsOfKinds, DeskFields
  <2> QED
    BY <2>1, <1>1, <1>2, <1>3 DEF ReviewKept
<1> QED
  BY <1>5, <1>6, <1>7, <1>8 DEF WorkKept

LEMMA LoadKeeps ==
  ASSUME Desk!DeskAssumption, DeskInv, NEW r \in DeskRequests, NEW op \in Steps,
    NEW u \in People \cup {None}, NEW i \in Desk!Rows,
         NEW new \in Desk!RowOf(kind) \cup {None}, NEW to \in SUBSET People, Desk!Load(r, op, u, i, new, to),
         op = "discard" => kind = "poster",
         TaskKept(r)', ProfileKept(r)', AuthorKept(r)', ReviewKept(r)', ShareKept(r)'
  PROVE  DeskInv'
<1>1. /\ deskPc[r] = "new" /\ Moves(r) /\ deskPc'[r] = (IF op = "discard" THEN "shares" ELSE "commit")
      /\ deskOrder'[r].op = op /\ deskOrder'[r].user = u /\ deskOrder'[r].id = i
      /\ loaded'[r] = row[i]
      /\ row' = row /\ targets' = targets /\ shares' = shares /\ notes' = notes
      /\ asked' = asked /\ direct' = direct
      /\ DeskTyped' /\ DeskFlightsKnown'
  BY Loads
<1>2. /\ kind' = kind /\ deskOverlapped \subseteq deskOverlapped' /\ Desk!Rows' = Desk!Rows
      /\ \A p \in DeskRequests : (deskPc[p] # "new" => deskPc'[p] # "new") /\ (deskPc[p] = "done" =>
           deskPc'[p] = "done")
  BY <1>1 DEF Moves, Desk!Rows
<1>3. Desk!TargetsAgree' /\ Desk!SharedOnce' /\ Desk!ReviewerAnswers'
  BY <1>1, <1>2 DEF DeskInv, Desk!TargetsAgree, Desk!SharedOnce, Desk!ReviewerAnswers
<1>4. RowsMade'
  <2> SUFFICES ASSUME NEW j \in Desk!Rows PROVE RowMade(j)'
    BY <1>2 DEF RowsMade
  <2>1. j \in Desk!Ids /\ row[j] \in Desk!RowOf(kind) /\ RowMade(j)
    BY DeskTypes DEF DeskInv, RowsMade
  <2>2. /\ kind = "complaint" => row[j].born \in DeskRequests
        /\ kind = "activity" => row[j].reviewer \in DeskRequests \cup {None}
    BY <2>1, RowsOfKinds, DeskFields
  <2> QED
    BY <2>1, <2>2, <1>1, <1>2 DEF RowMade
<1>5. LoadKept(r)'
  <2>1. i \in Desk!Ids /\ row[i] \in Desk!RowOf(kind) /\ (i \in DeskRequests => deskPc[i] = "done")
    BY DeskTypes DEF DeskInv, RowsMade, RowMade
  <2> QED
    BY <2>1, <1>1, <1>2 DEF LoadKept
<1>6. \A q \in Desk!InFlight' : WorkKept(q)'
  <2> TAKE q \in Desk!InFlight'
  <2>1. CASE q = r
    BY <2>1, <1>5 DEF WorkKept
  <2>2. CASE q # r
    <3>1. q \in Desk!InFlight
      BY <2>2, <1>1 DEF Desk!InFlight, Moves
    <3> QED
      BY <3>1, <1>1, LoadingKept
  <2> QED
    BY <2>1, <2>2
<1> QED
  BY <1>1, <1>3, <1>4, <1>6 DEF DeskInv

-----------------------------------------------------------------------------
\* What others go by, when r inserts a row.
LEMMA InsertingKept ==
  ASSUME Desk!DeskAssumption, DeskInv, NEW r \in DeskRequests, Moves(r), deskPc[r] = "new",
    NEW i \in Desk!Ids, row[i] = None,
         NEW new \in Desk!RowOf(kind), row' = [row EXCEPT ![i] = new], shares' = shares,
           deskOverlapped' = deskOverlapped,
         IF kind = "complaint" THEN new.born = r ELSE i = r,
         NEW q \in Desk!InFlight
  PROVE  WorkKept(q)'
<1>1. /\ q \in DeskRequests /\ q # r /\ deskPc'[q] = deskPc[q] /\ deskOrder'[q] = deskOrder[q] /\
           loaded'[q] = loaded[q] /\ kind' = kind
  BY DEF Moves, Desk!InFlight
<1>2. /\ LoadKept(q) /\ TaskKept(q) /\ ProfileKept(q) /\ AuthorKept(q) /\ ReviewKept(q) /\ ShareKept(q)
  BY DEF DeskInv, WorkKept
<1>3. \A p \in DeskRequests : (deskPc[p] # "new" => deskPc'[p] # "new") /\ (deskPc[p] = "done" =>
        deskPc'[p] = "done")
  BY DEF Moves
<1>4. /\ loaded[q] \in Desk!RowOf(kind) /\ deskOrder[q].id \in Desk!Ids /\
           (deskOrder[q].id \in DeskRequests => deskPc[deskOrder[q].id] # "new")
  BY <1>2 DEF LoadKept
<1>5. /\ row'[i] = new /\ \A j \in Desk!Ids \ {i} : row'[j] = row[j]
      /\ Desk!Rows' \subseteq Desk!Rows \cup {i} /\ None \notin Desk!RowOf(kind)
  BY DeskTypes DEF Desk!Rows
<1>6. deskOrder[q].id = i => i # r /\ kind = "complaint"
  BY <1>4
<1>7. LoadKept(q)'
  BY <1>1, <1>2, <1>3, <1>4, <1>5 DEF LoadKept
<1>8. TaskKept(q)' /\ ProfileKept(q)' /\ ShareKept(q)'
  BY <1>1, <1>2, <1>4, <1>5, <1>6 DEF TaskKept, ProfileKept, ShareKept
<1>9. AuthorKept(q)'
  <2> SUFFICES ASSUME kind = "complaint" PROVE AuthorKept(q)'
    BY <1>1 DEF AuthorKept
  <2>1. loaded[q].born \in DeskRequests /\ loaded[q].born # r
    BY <1>2, <1>4, RowsOfKinds, DeskFields DEF AuthorKept
  <2>2. deskOrder[q].id \in Desk!Rows' /\ row'[deskOrder[q].id].born = loaded[q].born =>
          deskOrder[q].id \in Desk!Rows /\ row'[deskOrder[q].id] = row[deskOrder[q].id]
    BY <2>1, <1>4, <1>5
  <2> QED
    BY <2>1, <2>2, <1>1, <1>2, <1>3 DEF AuthorKept
<1>10. ReviewKept(q)'
  <2>1. kind = "activity" => loaded[q].reviewer \in DeskRequests \cup {None}
    BY <1>4, RowsOfKinds, DeskFields
  <2> QED
    BY <2>1, <1>1, <1>2, <1>3 DEF ReviewKept
<1> QED
  BY <1>7, <1>8, <1>9, <1>10 DEF WorkKept

\* What holds when r inserts a row.
LEMMA Inserts ==
  ASSUME Desk!DeskAssumption, DeskInv, NEW r \in DeskRequests, NEW i \in Desk!Ids,
    NEW new \in Desk!RowOf(kind), Desk!Insert(r, i, new),
         IF kind = "complaint" THEN i \in Numbers /\ new.born = r ELSE i = r,
         kind = "activity" => new.reviewer = None
  PROVE  /\ deskPc[r] = "new" /\ deskPc'[r] = "done" /\ row[i] = None /\ kind' = kind /\ shares' = shares
         /\ deskOverlapped' = deskOverlapped /\ asked' = asked /\ direct' = direct
         /\ row'[i] = new /\ \A j \in Desk!Ids \ {i} : row'[j] = row[j]
         /\ Desk!Rows' = Desk!Rows \cup {i} /\ i \notin Desk!Rows
         /\ row' \in [Desk!Ids -> Desk!RowOf(kind) \cup {None}]
         /\ deskPc' \in [DeskRequests -> {"new", "shares", "commit", "done", "failed"}]
         /\ deskOrder' = deskOrder /\ loaded' = loaded
         /\ DeskFlightsKnown' /\ RowsMade' /\ Desk!ReviewerAnswers' /\ \A q \in Desk!InFlight' : WorkKept(q)'
<1>1. /\ deskPc[r] = "new" /\ row[i] = None /\ row' = [row EXCEPT ![i] = new] /\
           deskPc' = [deskPc EXCEPT ![r] = "done"]
      /\ kind' = kind /\ shares' = shares /\ deskOrder' = deskOrder /\ loaded' = loaded
      /\ deskOverlapped' = deskOverlapped /\ asked' = asked /\ direct' = direct
  BY DEF Desk!Insert, Desk!locals, Desk!history
<1>2. /\ deskPc'[r] = "done" /\ \A q \in DeskRequests \ {r} : deskPc'[q] = deskPc[q]
      /\ row'[i] = new /\ \A j \in Desk!Ids \ {i} : row'[j] = row[j]
      /\ row' \in [Desk!Ids -> Desk!RowOf(kind) \cup {None}] /\ None \notin Desk!RowOf(kind)
      /\ deskPc' \in [DeskRequests -> {"new", "shares", "commit", "done", "failed"}]
  BY <1>1, DeskTypes
<1>3. Desk!Rows' = Desk!Rows \cup {i} /\ i \notin Desk!Rows
  BY <1>1, <1>2 DEF Desk!Rows
<1>4. Moves(r) /\ Desk!InFlight' = Desk!InFlight
  BY <1>1, <1>2 DEF Moves, Desk!InFlight
<1>5. DeskFlightsKnown'
  BY <1>1, <1>4 DEF DeskInv, DeskFlightsKnown
<1>6. \A q \in Desk!InFlight' : WorkKept(q)'
  BY <1>1, <1>4, InsertingKept
<1>7. RowsMade'
  <2> SUFFICES ASSUME NEW j \in Desk!Rows' PROVE RowMade(j)'
    BY DEF RowsMade
  <2>1. CASE j = i
    <3>1. i \in DeskRequests => i = r
      BY DEF Desk!DeskAssumption
    <3> QED
      BY <2>1, <3>1, <1>1, <1>2 DEF RowMade
  <2>2. CASE j # i
    <3>1. j \in Desk!Rows /\ j \in Desk!Ids /\ row'[j] = row[j] /\ row[j] \in Desk!RowOf(kind) /\ RowMade(j)
      BY <2>2, <1>2, <1>3, DeskTypes DEF DeskInv, RowsMade
    <3>2. /\ kind = "complaint" => row[j].born \in DeskRequests
          /\ kind = "activity" => row[j].reviewer \in DeskRequests \cup {None}
      BY <3>1, RowsOfKinds, DeskFields
    <3> QED
      BY <3>1, <3>2, <1>1, <1>2 DEF RowMade
  <2> QED
    BY <2>1, <2>2
<1>8. Desk!ReviewerAnswers'
  <2> SUFFICES ASSUME kind = "activity" PROVE Desk!ReviewerAnswers'
    BY <1>1 DEF Desk!ReviewerAnswers
  <2>1. ASSUME NEW j \in Desk!Rows', row'[j].reviewer # None
        PROVE  \/ asked[row'[j].reviewer] = row'[j].status
               \/ \E q \in DeskRequests : {row'[j].reviewer, q} \in deskOverlapped
    <3>1. j \in Desk!Rows /\ row'[j] = row[j]
      BY <2>1, <1>2, <1>3, DeskTypes
    <3> QED
      BY <2>1, <3>1 DEF DeskInv, Desk!ReviewerAnswers
  <2> QED
    BY <2>1, <1>1 DEF Desk!ReviewerAnswers
<1> QED
  BY <1>1, <1>2, <1>3, <1>5, <1>6, <1>7, <1>8

\* An insertion that writes no target and tells nobody.
LEMMA InsertKeeps ==
  ASSUME Desk!DeskAssumption, DeskInv, NEW r \in DeskRequests, NEW i \in Desk!Ids,
    NEW new \in Desk!RowOf(kind), Desk!Insert(r, i, new),
         IF kind = "complaint" THEN i \in Numbers /\ new.born = r ELSE i = r,
         kind = "activity" => new.reviewer = None,
         kind # "profile", targets' = targets, notes' \subseteq [to : People, of : Desk!Ids, by : DeskRequests],
         kind = "poster" => notes' = notes
  PROVE  DeskInv'
<1>1. /\ deskPc'[r] = "done" /\ kind' = kind /\ shares' = shares
      /\ deskOverlapped' = deskOverlapped /\ asked' = asked /\ direct' = direct
      /\ row' \in [Desk!Ids -> Desk!RowOf(kind) \cup {None}]
      /\ deskPc' \in [DeskRequests -> {"new", "shares", "commit", "done", "failed"}]
      /\ deskOrder' = deskOrder /\ loaded' = loaded
      /\ DeskFlightsKnown' /\ RowsMade' /\ Desk!ReviewerAnswers' /\ \A q \in Desk!InFlight' : WorkKept(q)'
  BY Inserts
<1>2. DeskTyped'
  BY <1>1 DEF DeskInv, DeskTyped, Desk!TypeOK, Orders
<1>3. Desk!TargetsAgree' /\ Desk!SharedOnce'
  BY <1>1 DEF DeskInv, Desk!TargetsAgree, Desk!SharedOnce
<1> QED
  BY <1>1, <1>2, <1>3 DEF DeskInv

LEMMA CreateTaskKeeps ==
  ASSUME Desk!DeskAssumption, DeskInv, NEW r \in DeskRequests, kind = "task",
         NEW u \in People, NEW a \in People, NEW status \in Desk!TaskStatus, Desk!CreateTask(r, u, a, status)
  PROVE  DeskInv'
<1> PICK new \in Desk!Task : new = [org |-> UserOrg[u], status |-> status, dated |-> FALSE, assignee |-> a]
  BY DEF Desk!Task, Desk!Range, Desk!DeskAssumption
<1>1. Desk!Insert(r, r, new) /\ targets' = targets /\ notes' = notes \cup {[to |-> a, of |-> r, by |-> r]}
  BY DEF Desk!CreateTask
<1>2. r \in Desk!Ids /\ notes' \subseteq [to : People, of : Desk!Ids, by : DeskRequests]
  BY <1>1, DeskTypes
<1> QED
  BY <1>1, <1>2, InsertKeeps, RowsOfKinds

LEMMA AddComplaintKeeps ==
  ASSUME Desk!DeskAssumption, DeskInv, NEW r \in DeskRequests, kind = "complaint",
         NEW u \in People, NEW n \in Numbers, Desk!AddComplaint(r, u, n)
  PROVE  DeskInv'
<1> PICK new \in Desk!Complaint :
      new = [org |-> UserOrg[u], author |-> u, status |-> "Open", text |-> r, born |-> r]
  BY DEF Desk!Complaint, Desk!ComplaintStatus, Desk!Range, Desk!DeskAssumption
<1>1. Desk!Insert(r, n, new) /\ targets' = targets /\ notes' = notes /\ new.born = r
  BY DEF Desk!AddComplaint
<1>2. n \in Desk!Ids /\ notes' \subseteq [to : People, of : Desk!Ids, by : DeskRequests]
  BY <1>1, DeskTypes DEF Desk!Ids
<1> QED
  BY <1>1, <1>2, InsertKeeps, RowsOfKinds

LEMMA SubmitActivityKeeps ==
  ASSUME Desk!DeskAssumption, DeskInv, NEW r \in DeskRequests, kind = "activity", NEW u \in People,
    Desk!SubmitActivity(r, u)
  PROVE  DeskInv'
<1> PICK new \in Desk!Activity :
      new = [org |-> UserOrg[u], by |-> u, role |-> RoleOf[u], status |-> "SUBMITTED", reviewer |-> None]
  BY DEF Desk!Activity, Desk!ActivityStatus, Desk!Range, Desk!DeskAssumption
<1>1. Desk!Insert(r, r, new) /\ targets' = targets /\ notes' = notes /\ new.reviewer = None
  BY DEF Desk!SubmitActivity
<1>2. r \in Desk!Ids /\ notes' \subseteq [to : People, of : Desk!Ids, by : DeskRequests]
  BY <1>1, DeskTypes
<1> QED
  BY <1>1, <1>2, InsertKeeps, RowsOfKinds

LEMMA SaveDesignKeeps ==
  ASSUME Desk!DeskAssumption, DeskInv, NEW r \in DeskRequests, kind = "poster", NEW u \in People,
    Desk!SaveDesign(r, u)
  PROVE  DeskInv'
<1> PICK new \in Desk!Poster : new = [org |-> UserOrg[u], owner |-> u]
  BY DEF Desk!Poster, Desk!Range, Desk!DeskAssumption
<1>1. Desk!Insert(r, r, new) /\ targets' = targets /\ notes' = notes
  BY DEF Desk!SaveDesign
<1>2. r \in Desk!Ids /\ notes' \subseteq [to : People, of : Desk!Ids, by : DeskRequests]
  BY <1>1, DeskTypes
<1> QED
  BY <1>1, <1>2, InsertKeeps, RowsOfKinds

LEMMA CreateVolunteerKeeps ==
  ASSUME Desk!DeskAssumption, DeskInv, NEW r \in DeskRequests, kind = "profile", NEW q \in Desk!Profile,
    Desk!CreateVolunteer(r, q)
  PROVE  DeskInv'
<1> PICK t \in [by : DeskRequests, set : Desk!Profile] : t = [by |-> r, set |-> q]
  OBVIOUS
<1>1. Desk!Insert(r, r, q) /\ targets' = [targets EXCEPT ![r] = <<t>>] /\ notes' = notes
  BY DEF Desk!CreateVolunteer
<1>2. /\ deskPc'[r] = "done" /\ kind' = kind /\ shares' = shares
      /\ deskOverlapped' = deskOverlapped /\ asked' = asked /\ direct' = direct
      /\ row'[r] = q /\ \A j \in Desk!Ids \ {r} : row'[j] = row[j]
      /\ Desk!Rows' = Desk!Rows \cup {r}
      /\ row' \in [Desk!Ids -> Desk!RowOf(kind) \cup {None}]
      /\ deskPc' \in [DeskRequests -> {"new", "shares", "commit", "done", "failed"}]
      /\ deskOrder' = deskOrder /\ loaded' = loaded
      /\ DeskFlightsKnown' /\ RowsMade' /\ Desk!ReviewerAnswers' /\ \A p \in Desk!InFlight' : WorkKept(p)'
  BY <1>1, Inserts, RowsOfKinds, DeskTypes
<1>3. /\ targets' \in [Desk!Ids -> Seq([by : DeskRequests, set : Desk!Profile])]
      /\ targets'[r] = <<t>> /\ \A j \in Desk!Ids \ {r} : targets'[j] = targets[j]
  <2>1. <<t>> \in Seq([by : DeskRequests, set : Desk!Profile])
    OBVIOUS
  <2>2. targets \in [Desk!Ids -> Seq([by : DeskRequests, set : Desk!Profile])] /\ r \in Desk!Ids
    BY DeskTypes
  <2> QED
    BY <2>1, <2>2, <1>1
<1>4. DeskTyped'
  <2>1. \A j \in Desk!Ids : \A k \in 1..Len(targets'[j]) : targets'[j][k] \in [by : DeskRequests, set : Desk!Profile]
    BY <1>3, TargetsRead
  <2> QED
    BY <2>1, <1>1, <1>2, <1>3 DEF DeskInv, DeskTyped, Desk!TypeOK, Orders
<1>5. Desk!TargetsAgree'
  <2> SUFFICES ASSUME NEW p \in Desk!Rows' \ direct
               PROVE  row'[p] = Desk!Last(targets'[p]).set \/ \E x \in DeskRequests :
                        {Desk!Last(targets'[p]).by, x} \in deskOverlapped
    BY <1>2 DEF Desk!TargetsAgree
  <2>1. CASE p = r
    <3>1. Desk!Last(<<t>>) = t
      BY DEF Desk!Last
    <3> QED
      BY <2>1, <3>1, <1>2, <1>3
  <2>2. CASE p # r
    BY <2>2, <1>2, <1>3, DeskTypes DEF DeskInv, Desk!TargetsAgree
  <2> QED
    BY <2>1, <2>2
<1>6. Desk!SharedOnce'
  BY <1>2 DEF Desk!SharedOnce
<1> QED
  BY <1>2, <1>4, <1>5, <1>6 DEF DeskInv

-----------------------------------------------------------------------------
\* A task is loaded to be edited or deleted.
LEMMA TaskLoadKeeps ==
  ASSUME Desk!DeskAssumption, DeskInv, NEW r \in DeskRequests, kind = "task",
         NEW op \in {"edit", "delete"}, NEW u \in People,
         NEW i \in Desk!Rows, NEW new \in Desk!Task \cup {None}, Desk!Load(r, op, u, i, new, {}),
         op = "edit" => new \in Desk!Task /\ new.dated = (row[i].dated \/ new.status = "COMPLETED")
  PROVE  DeskInv'
<1>1. op \in Steps /\ new \in Desk!RowOf(kind) \cup {None} /\ {} \in SUBSET People
  BY RowsOfKinds DEF Steps
<1>2. /\ deskOrder'[r].op = op /\ deskOrder'[r].id = i /\ deskOrder'[r].new = new /\ loaded'[r] = row[i] /\
           row' = row
      /\ kind' = kind /\ Desk!Rows' = Desk!Rows
  BY <1>1, Loads DEF Moves, Desk!Rows
<1>3. TaskKept(r)'
  BY <1>2 DEF TaskKept
<1>4. ProfileKept(r)' /\ AuthorKept(r)' /\ ReviewKept(r)' /\ ShareKept(r)'
  BY <1>2 DEF ProfileKept, AuthorKept, ReviewKept, ShareKept
<1> QED
  BY <1>1, <1>3, <1>4, LoadKeeps

LEMMA StatusSet ==
  ASSUME NEW t \in Desk!Task, NEW status \in Desk!TaskStatus
  PROVE  LET n == Desk!TaskStatusSet(t, status) IN
         n \in Desk!Task /\ n.status = status /\ n.dated = (t.dated \/ status = "COMPLETED")
BY DEF Desk!Task, Desk!TaskStatusSet

LEMMA TaskEditKeeps ==
  ASSUME Desk!DeskAssumption, DeskInv, NEW r \in DeskRequests, kind = "task", NEW u \in People,
    NEW i \in Desk!Rows, NEW new \in Desk!Task,
         new.dated = (row[i].dated \/ new.status = "COMPLETED"), Desk!Load(r, "edit", u, i, new, {})
  PROVE  DeskInv'
<1>1. "edit" \in {"edit", "delete"} /\ new \in Desk!Task \cup {None}
  OBVIOUS
<1> QED
  BY <1>1, TaskLoadKeeps

LEMMA TaskLoadsKeep ==
  ASSUME Desk!DeskAssumption, DeskInv, NEW r \in DeskRequests, kind = "task", NEW u \in People,
    NEW t \in Desk!Rows
  PROVE  /\ \A a \in People, s \in Desk!TaskStatus : Desk!UpdateTask(r, u, t, s, a) => DeskInv'
         /\ \A s \in Desk!TaskStatus : Desk!UpdateTaskStatus(r, u, t, s) => DeskInv'
         /\ Desk!DeleteTask(r, u, t) => DeskInv'
<1>1. row[t] \in Desk!Task
  BY DeskTypes, RowsOfKinds
<1>2. ASSUME NEW a \in People, NEW s \in Desk!TaskStatus, Desk!UpdateTask(r, u, t, s, a) PROVE DeskInv'
  <2>1. PICK n \in Desk!Task : n = Desk!TaskStatusSet(row[t], s)
    BY <1>1, StatusSet
  <2>2. n.status = s /\ n.dated = (row[t].dated \/ s = "COMPLETED")
    BY <1>1, <2>1, StatusSet
  <2> PICK m \in Desk!Task : m = [n EXCEPT !.assignee = a]
    BY DEF Desk!Task
  <2>3. m.status = n.status /\ m.dated = n.dated
    BY DEF Desk!Task
  <2>4. Desk!Load(r, "edit", u, t, m, {})
    BY <1>2, <2>1 DEF Desk!UpdateTask
  <2>5. m.dated = (row[t].dated \/ m.status = "COMPLETED")
    BY <2>2, <2>3
  <2> QED
    BY <2>4, <2>5, TaskEditKeeps
<1>3. ASSUME NEW s \in Desk!TaskStatus, Desk!UpdateTaskStatus(r, u, t, s) PROVE DeskInv'
  <2>1. PICK n \in Desk!Task : n = Desk!TaskStatusSet(row[t], s)
    BY <1>1, StatusSet
  <2>2. n.status = s /\ n.dated = (row[t].dated \/ s = "COMPLETED")
    BY <1>1, <2>1, StatusSet
  <2>3. Desk!Load(r, "edit", u, t, n, {})
    BY <1>3, <2>1 DEF Desk!UpdateTaskStatus
  <2> QED
    BY <2>2, <2>3, TaskEditKeeps
<1>4. ASSUME Desk!DeleteTask(r, u, t) PROVE DeskInv'
  <2>1. Desk!Load(r, "delete", u, t, None, {})
    BY <1>4 DEF Desk!DeleteTask
  <2> QED
    BY <2>1, TaskLoadKeeps
<1> QED
  BY <1>2, <1>3, <1>4

LEMMA VolunteerLoadsKeep ==
  ASSUME Desk!DeskAssumption, DeskInv, NEW r \in DeskRequests, kind = "profile", NEW p \in Desk!Rows,
    NEW q \in Desk!Profile,
         Desk!UpdateVolunteer(r, p, q) \/ Desk!SetVolunteerTarget(r, p, q)
  PROVE  DeskInv'
<1> PICK op \in {"update", "target"} : Desk!Load(r, op, None, p, q, {})
  BY DEF Desk!UpdateVolunteer, Desk!SetVolunteerTarget
<1>1. op \in Steps /\ q \in Desk!RowOf(kind) \cup {None} /\ {} \in SUBSET People /\
        None \in People \cup {None}
  BY RowsOfKinds DEF Steps
<1>2. /\ deskOrder'[r].op = op /\ deskOrder'[r].new = q /\ kind' = kind
  BY <1>1, Loads DEF Moves
<1>3. ProfileKept(r)' /\ TaskKept(r)' /\ AuthorKept(r)' /\ ReviewKept(r)' /\ ShareKept(r)'
  BY <1>2 DEF ProfileKept, TaskKept, AuthorKept, ReviewKept, ShareKept
<1> QED
  BY <1>1, <1>3, LoadKeeps

\* A complaint is loaded to be edited, deleted or given another status.
LEMMA ComplaintLoadKeeps ==
  ASSUME Desk!DeskAssumption, DeskInv, NEW r \in DeskRequests, kind = "complaint",
         NEW op \in {"edit", "delete", "status"},
         NEW u \in People, NEW n \in Desk!Rows, NEW new \in Desk!Complaint \cup {None},
           NEW to \in SUBSET People,
         Desk!Load(r, op, u, n, new, to),
         op # "status" => u = row[n].author,
         op = "edit" => new = [row[n] EXCEPT !.text = r],
         op = "status" => Desk!IsSuper(u) /\ \E s \in Desk!ComplaintStatus :
           new = [row[n] EXCEPT !.status = s]
  PROVE  DeskInv'
<1>1. op \in Steps /\ new \in Desk!RowOf(kind) \cup {None}
  BY RowsOfKinds DEF Steps
<1>2. /\ deskOrder'[r].op = op /\ deskOrder'[r].user = u /\ deskOrder'[r].id = n /\
           deskOrder'[r].new = new /\ loaded'[r] = row[n]
      /\ row' = row /\ kind' = kind
  BY <1>1, Loads DEF Moves
<1>3. deskPc'[row[n].born] # "new"
  <2>1. row[n].born \in DeskRequests /\ deskPc[row[n].born] # "new"
    BY DeskTypes, RowsOfKinds, DeskFields DEF DeskInv, RowsMade, RowMade
  <2> QED
    BY <2>1, <1>1, Loads DEF Moves
<1>4. AuthorKept(r)'
  BY <1>2, <1>3 DEF AuthorKept, Desk!IsSuper
<1>5. TaskKept(r)' /\ ProfileKept(r)' /\ ReviewKept(r)' /\ ShareKept(r)'
  BY <1>2 DEF TaskKept, ProfileKept, ReviewKept, ShareKept
<1> QED
  BY <1>1, <1>4, <1>5, LoadKeeps

LEMMA ComplaintLoadsKeep ==
  ASSUME Desk!DeskAssumption, DeskInv, NEW r \in DeskRequests, kind = "complaint", NEW u \in People,
    NEW n \in Desk!Rows
  PROVE  /\ Desk!UpdateComplaint(r, u, n) => DeskInv'
         /\ Desk!DeleteComplaint(r, u, n) => DeskInv'
         /\ \A s \in Desk!ComplaintStatus : Desk!UpdateComplaintStatus(r, u, n, s) => DeskInv'
<1>1. row[n] \in Desk!Complaint
  BY DeskTypes, RowsOfKinds
<1>2. ASSUME Desk!UpdateComplaint(r, u, n) PROVE DeskInv'
  <2> PICK new \in Desk!Complaint : new = [row[n] EXCEPT !.text = r]
    BY <1>1 DEF Desk!Complaint
  <2>1. Desk!Load(r, "edit", u, n, new, {}) /\ u = row[n].author
    BY <1>2 DEF Desk!UpdateComplaint, Desk!MayEdit
  <2> QED
    BY <2>1, ComplaintLoadKeeps
<1>3. ASSUME Desk!DeleteComplaint(r, u, n) PROVE DeskInv'
  <2>1. Desk!Load(r, "delete", u, n, None, {}) /\ u = row[n].author
    BY <1>3 DEF Desk!DeleteComplaint, Desk!MayEdit
  <2> QED
    BY <2>1, ComplaintLoadKeeps
<1>4. ASSUME NEW s \in Desk!ComplaintStatus, Desk!UpdateComplaintStatus(r, u, n, s) PROVE DeskInv'
  <2> PICK new \in Desk!Complaint : new = [row[n] EXCEPT !.status = s]
    BY <1>1 DEF Desk!Complaint
  <2>1. Desk!Load(r, "status", u, n, new, {u}) /\ Desk!IsSuper(u)
    BY <1>4 DEF Desk!UpdateComplaintStatus
  <2> QED
    BY <2>1, ComplaintLoadKeeps
<1> QED
  BY <1>2, <1>3, <1>4

LEMMA ActivityLoadsKeep ==
  ASSUME Desk!DeskAssumption, DeskInv, NEW r \in DeskRequests, kind = "activity", NEW u \in People,
    NEW a \in Desk!Rows,
         (\E s \in Desk!ActivityStatus : Desk!UpdateActivityStatus(r, u, a, s)) \/
           Desk!DeleteActivity(r, u, a)
  PROVE  DeskInv'
<1>1. row[a] \in Desk!Activity
  BY DeskTypes, RowsOfKinds
<1>2. PICK op \in {"review", "delete"}, new \in Desk!Activity \cup {None} :
        /\ Desk!Load(r, op, u, a, new, {})
        /\ op = "review" => \E s \in Desk!ActivityStatus : new = [row[a] EXCEPT !.status = s, !.reviewer = r]
  <2>1. ASSUME NEW s \in Desk!ActivityStatus, Desk!UpdateActivityStatus(r, u, a, s)
        PROVE  \E new \in Desk!Activity :
                  /\ Desk!Load(r, "review", u, a, new, {})
                  /\ new = [row[a] EXCEPT !.status = s, !.reviewer = r]
    <3>1. [row[a] EXCEPT !.status = s, !.reviewer = r] \in Desk!Activity
      BY <1>1 DEF Desk!Activity
    <3> QED
      BY <2>1, <3>1 DEF Desk!UpdateActivityStatus
  <2>2. Desk!DeleteActivity(r, u, a) => Desk!Load(r, "delete", u, a, None, {})
    BY DEF Desk!DeleteActivity
  <2> QED
    BY <2>1, <2>2
<1>3. op \in Steps /\ new \in Desk!RowOf(kind) \cup {None} /\ {} \in SUBSET People
  BY RowsOfKinds DEF Steps
<1>4. /\ deskOrder'[r].op = op /\ deskOrder'[r].new = new /\ loaded'[r] = row[a] /\ kind' = kind /\ Moves(r)
  BY <1>2, <1>3, Loads DEF Moves
<1>5. row[a].reviewer # None => deskPc'[row[a].reviewer] = "done"
  <2>1. row[a].reviewer # None => row[a].reviewer \in DeskRequests /\ deskPc[row[a].reviewer] = "done"
    BY <1>1, DeskFields DEF DeskInv, RowsMade, RowMade
  <2> QED
    BY <2>1, <1>4 DEF Moves
<1>6. ReviewKept(r)'
  BY <1>2, <1>4, <1>5 DEF ReviewKept
<1>7. TaskKept(r)' /\ ProfileKept(r)' /\ AuthorKept(r)' /\ ShareKept(r)'
  BY <1>4 DEF TaskKept, ProfileKept, AuthorKept, ShareKept
<1> QED
  BY <1>2, <1>3, <1>6, <1>7, LoadKeeps

LEMMA PosterLoadsKeep ==
  ASSUME Desk!DeskAssumption, DeskInv, NEW r \in DeskRequests, kind = "poster", NEW u \in People,
    NEW p \in Desk!Rows
  PROVE  /\ \A to \in SUBSET People : Desk!ShareDesign(r, u, p, to) => DeskInv'
         /\ Desk!DeleteDesign(r, u, p) => DeskInv'
<1>1. ASSUME NEW to \in SUBSET People, Desk!ShareDesign(r, u, p, to) PROVE DeskInv'
  <2>1. Desk!Load(r, "share", u, p, row[p], Desk!Fresh(p, to)) /\ "share" \in Steps /\
          row[p] \in Desk!RowOf(kind) \cup {None}
    BY <1>1, DeskTypes DEF Desk!ShareDesign, Steps
  <2>2. Desk!Fresh(p, to) \in SUBSET People
    BY DEF Desk!Fresh
  <2>3. /\ deskOrder'[r].op = "share" /\ deskOrder'[r].id = p /\ deskOrder'[r].to = Desk!Fresh(p, to) /\
             shares' = shares /\ kind' = kind
    BY <2>1, <2>2, Loads DEF Moves
  <2>4. \A s \in shares : s.poster = p => s.with \notin Desk!Fresh(p, to)
    BY DEF Desk!Fresh, Desk!SharedWith
  <2>5. ShareKept(r)'
    BY <2>3, <2>4 DEF ShareKept
  <2>6. TaskKept(r)' /\ ProfileKept(r)' /\ AuthorKept(r)' /\ ReviewKept(r)'
    BY <2>3 DEF TaskKept, ProfileKept, AuthorKept, ReviewKept
  <2> QED
    BY <2>1, <2>2, <2>5, <2>6, LoadKeeps
<1>2. ASSUME Desk!DeleteDesign(r, u, p) PROVE DeskInv'
  <2>1. Desk!Load(r, "discard", u, p, None, {}) /\ "discard" \in Steps /\ {} \in SUBSET People
    BY <1>2 DEF Desk!DeleteDesign, Steps
  <2>2. deskOrder'[r].op = "discard" /\ kind' = kind
    BY <2>1, Loads DEF Moves
  <2>3. TaskKept(r)' /\ ProfileKept(r)' /\ AuthorKept(r)' /\ ReviewKept(r)' /\ ShareKept(r)'
    BY <2>2 DEF TaskKept, ProfileKept, AuthorKept, ReviewKept, ShareKept
  <2> QED
    BY <2>1, <2>3, LoadKeeps
<1> QED
  BY <1>1, <1>2

LEMMA LookForSharesKeeps ==
  ASSUME Desk!DeskAssumption, DeskInv, NEW r \in DeskRequests, Desk!LookForShares(r)
  PROVE  DeskInv'
<1>1. /\ deskPc[r] = "shares" /\ deskPc' = [deskPc EXCEPT ![r] = "commit"]
      /\ kind' = kind /\ row' = row /\ targets' = targets /\ shares' = shares /\ notes' = notes
      /\ deskOrder' = deskOrder /\ loaded' = loaded /\ asked' = asked /\ direct' = direct /\
           deskOverlapped' = deskOverlapped
  BY DEF Desk!LookForShares, Desk!tables, Desk!locals, Desk!history
<1>2. /\ deskPc'[r] = "commit" /\ \A q \in DeskRequests \ {r} : deskPc'[q] = deskPc[q]
      /\ deskPc' \in [DeskRequests -> {"new", "shares", "commit", "done", "failed"}]
  BY <1>1, DeskTypes
<1>3. Desk!InFlight' = Desk!InFlight /\ Desk!Rows' = Desk!Rows /\ r \in Desk!InFlight
  BY <1>1, <1>2 DEF Desk!InFlight, Desk!Rows
<1>4. DeskTyped' /\ DeskFlightsKnown'
  BY <1>1, <1>2, <1>3 DEF DeskInv, DeskTyped, Desk!TypeOK, Orders, DeskFlightsKnown
<1>5. Desk!TargetsAgree' /\ Desk!SharedOnce' /\ Desk!ReviewerAnswers'
  BY <1>1, <1>3 DEF DeskInv, Desk!TargetsAgree, Desk!SharedOnce, Desk!ReviewerAnswers
<1>6. /\ \A x : deskPc[x] = "done" => deskPc'[x] = "done"
      /\ \A x : deskPc[x] # "new" => deskPc'[x] # "new"
  BY <1>1, DeskTypes
<1>7. RowsMade'
  <2>1. \A j \in Desk!Rows : RowMade(j)
    BY DEF DeskInv, RowsMade
  <2> QED
    BY <2>1, <1>1, <1>3, <1>6 DEF RowsMade, RowMade
<1>8. \A q \in Desk!InFlight' : WorkKept(q)'
  <2> SUFFICES ASSUME NEW q \in Desk!InFlight PROVE WorkKept(q)'
    BY <1>3
  <2>1. LoadKept(q) /\ TaskKept(q) /\ ProfileKept(q) /\ AuthorKept(q) /\ ReviewKept(q) /\ ShareKept(q)
    BY DEF DeskInv, WorkKept
  <2>2. deskPc'[q] = "shares" => deskPc[q] = "shares"
    BY <1>1, <1>2, DeskTypes
  <2>3. LoadKept(q)'
    BY <2>1, <2>2, <1>1, <1>6 DEF LoadKept
  <2>4. TaskKept(q)' /\ ProfileKept(q)' /\ ShareKept(q)'
    BY <2>1, <1>1, <1>3 DEF TaskKept, ProfileKept, ShareKept
  <2>5. AuthorKept(q)'
    BY <2>1, <1>1, <1>3, <1>6 DEF AuthorKept
  <2>6. ReviewKept(q)'
    BY <2>1, <1>1, <1>6 DEF ReviewKept
  <2> QED
    BY <2>3, <2>4, <2>5, <2>6 DEF WorkKept
<1> QED
  BY <1>4, <1>5, <1>7, <1>8 DEF DeskInv

-----------------------------------------------------------------------------
\* What the commit of r may make of the row that it works on.
RowFollows(r) ==
  LET i == deskOrder[r].id IN
  \/ row'[i] = None
  \/ /\ row[i] # None
     /\ row'[i] \in Desk!RowOf(kind)
     /\ kind = "task" =>
          /\ row[i].dated => row'[i].dated
          /\ row'[i] = row[i] \/ (row'[i].status = "COMPLETED" => row'[i].dated)
     /\ kind = "complaint" => row'[i].born = row[i].born /\ row'[i].author = row[i].author
     /\ kind = "activity" => row'[i].reviewer = row[i].reviewer \/ (row'[i].reviewer = r /\
          deskPc'[r] = "done")

\* What holds when r ends.
LEMMA EndsAt ==
  ASSUME Desk!DeskAssumption, DeskInv, NEW r \in Desk!InFlight, NEW how \in {"done", "failed"}, Desk!End(r, how),
         kind' = kind, deskOverlapped' = deskOverlapped
  PROVE  /\ Moves(r) /\ deskPc'[r] = how /\ deskPc[r] \in {"commit", "shares"} /\ r \in DeskRequests
         /\ deskPc' \in [DeskRequests -> {"new", "shares", "commit", "done", "failed"}]
         /\ deskOrder' \in [DeskRequests -> Orders'] /\
              loaded' \in [DeskRequests -> Desk!RowOf(kind) \cup {None}]
         /\ Desk!InFlight' = Desk!InFlight \ {r} /\ DeskFlightsKnown'
<1>1. /\ deskPc' = [deskPc EXCEPT ![r] = how] /\ deskOrder' = [deskOrder EXCEPT ![r] = Desk!NoOrder]
      /\ loaded' = [loaded EXCEPT ![r] = None] /\ r \in DeskRequests /\ deskPc[r] \in {"commit", "shares"}
  BY DEF Desk!End, Desk!InFlight
<1>2. Desk!NoOrder \in Orders /\ Orders' = Orders
  BY DEF Desk!NoOrder, Orders, Steps
<1>3. /\ deskPc'[r] = how /\ deskPc' \in [DeskRequests -> {"new", "shares", "commit", "done", "failed"}]
      /\ deskOrder' \in [DeskRequests -> Orders] /\ loaded' \in [DeskRequests -> Desk!RowOf(kind) \cup {None}]
      /\ \A q \in DeskRequests \ {r} :
           deskPc'[q] = deskPc[q] /\ deskOrder'[q] = deskOrder[q] /\ loaded'[q] = loaded[q]
  BY <1>1, <1>2, DeskTypes
<1>4. Desk!InFlight' = Desk!InFlight \ {r}
  BY <1>1, <1>3 DEF Desk!InFlight
<1>5. DeskFlightsKnown'
  BY <1>4 DEF DeskInv, DeskFlightsKnown
<1> QED
  BY <1>1, <1>2, <1>3, <1>4, <1>5 DEF Moves

\* What others go by, when r ends.
LEMMA EndingKept ==
  ASSUME Desk!DeskAssumption, DeskInv, NEW r \in Desk!InFlight, Moves(r),
         deskPc'[r] \in {"done", "failed"}, deskOverlapped' = deskOverlapped,
         \A j \in Desk!Ids \ {deskOrder[r].id} : row'[j] = row[j], RowFollows(r),
         \A s \in shares' : s \in shares \/ s.by = r,
         NEW q \in Desk!InFlight \ {r}
  PROVE  WorkKept(q)'
<1>1. /\ q \in DeskRequests /\ deskPc'[q] = deskPc[q] /\ deskOrder'[q] = deskOrder[q] /\
           loaded'[q] = loaded[q] /\ kind' = kind
  BY DEF Moves, Desk!InFlight
<1>2. LoadKept(q) /\ TaskKept(q) /\ ProfileKept(q) /\ AuthorKept(q) /\ ReviewKept(q) /\ ShareKept(q)
  BY DEF DeskInv, WorkKept
<1>3. \A p \in DeskRequests : (deskPc[p] # "new" => deskPc'[p] # "new") /\ (deskPc[p] = "done" =>
        deskPc'[p] = "done")
  BY DEF Moves
<1>4. {r, q} \in deskOverlapped /\ {q, r} \in deskOverlapped /\ r \in DeskRequests
  BY DEF DeskInv, DeskFlightsKnown, Desk!InFlight
<1>5. loaded[q] \in Desk!RowOf(kind) /\ deskOrder[q].id \in Desk!Ids
  BY <1>2 DEF LoadKept
<1>6. deskOrder[q].id \in Desk!Rows' =>
        /\ deskOrder[q].id \in Desk!Rows
        /\ row'[deskOrder[q].id] = row[deskOrder[q].id] \/ (deskOrder[q].id = deskOrder[r].id /\
             row'[deskOrder[r].id] # None)
  BY <1>5 DEF Desk!Rows, RowFollows
<1>7. LoadKept(q)'
  BY <1>1, <1>2, <1>3, <1>4 DEF LoadKept
<1>8. TaskKept(q)'
  <2> SUFFICES ASSUME kind = "task", deskOrder[q].id \in Desk!Rows'
               PROVE  /\ loaded[q].dated => row'[deskOrder[q].id].dated
                      /\ row'[deskOrder[q].id].status = "COMPLETED" /\ loaded[q].status # "COMPLETED"
                         => row'[deskOrder[q].id].dated
    BY <1>1, <1>2 DEF TaskKept
  <2>1. CASE row'[deskOrder[q].id] = row[deskOrder[q].id]
    BY <2>1, <1>2, <1>6 DEF TaskKept
  <2>2. CASE deskOrder[q].id = deskOrder[r].id /\ row'[deskOrder[r].id] # None
    BY <2>2, <1>2, <1>6 DEF TaskKept, RowFollows
  <2> QED
    BY <2>1, <2>2, <1>6
<1>9. ProfileKept(q)'
  BY <1>1, <1>2 DEF ProfileKept
<1>10. ShareKept(q)'
  BY <1>1, <1>2, <1>4 DEF ShareKept
<1>11. AuthorKept(q)'
  <2> SUFFICES ASSUME kind = "complaint" PROVE AuthorKept(q)'
    BY <1>1 DEF AuthorKept
  <2>1. loaded[q].born \in DeskRequests
    BY <1>5, RowsOfKinds, DeskFields
  <2>2. deskOrder[q].id \in Desk!Rows' /\ row'[deskOrder[q].id].born = loaded[q].born =>
          row'[deskOrder[q].id].author = loaded[q].author
    <3>1. CASE row'[deskOrder[q].id] = row[deskOrder[q].id]
      BY <3>1, <1>2, <1>6 DEF AuthorKept
    <3>2. CASE deskOrder[q].id = deskOrder[r].id /\ row'[deskOrder[r].id] # None
      BY <3>2, <1>2, <1>6 DEF AuthorKept, RowFollows
    <3> QED
      BY <3>1, <3>2, <1>6
  <2> QED
    BY <2>1, <2>2, <1>1, <1>2, <1>3 DEF AuthorKept
<1>12. ReviewKept(q)'
  <2>1. kind = "activity" => loaded[q].reviewer \in DeskRequests \cup {None}
    BY <1>5, RowsOfKinds, DeskFields
  <2> QED
    BY <2>1, <1>1, <1>2, <1>3 DEF ReviewKept
<1> QED
  BY <1>7, <1>8, <1>9, <1>10, <1>11, <1>12 DEF WorkKept

LEMMA EndKeeps ==
  ASSUME Desk!DeskAssumption, DeskInv, NEW r \in Desk!InFlight, NEW how \in {"done", "failed"}, Desk!End(r, how),
         kind' = kind, deskOverlapped' = deskOverlapped,
         row' \in [Desk!Ids -> Desk!RowOf(kind) \cup {None}], \A j \in Desk!Ids \ {deskOrder[r].id} :
           row'[j] = row[j], RowFollows(r),
         shares' \subseteq [poster : Desk!Ids, with : People, by : DeskRequests], \A s \in shares' :
           s \in shares \/ s.by = r,
         notes' \subseteq [to : People, of : Desk!Ids, by : DeskRequests],
         targets' \in [Desk!Ids -> Seq([by : DeskRequests, set : Desk!Profile])],
         asked' \in [DeskRequests -> Desk!ActivityStatus \cup {None}], direct' \subseteq Desk!Ids,
         Desk!TargetsAgree', Desk!SharedOnce', Desk!ReviewerAnswers'
  PROVE  DeskInv'
<1>1. /\ Moves(r) /\ deskPc'[r] = how /\ r \in DeskRequests
      /\ deskPc' \in [DeskRequests -> {"new", "shares", "commit", "done", "failed"}]
      /\ deskOrder' \in [DeskRequests -> Orders'] /\
           loaded' \in [DeskRequests -> Desk!RowOf(kind) \cup {None}]
      /\ Desk!InFlight' = Desk!InFlight \ {r} /\ DeskFlightsKnown'
  BY EndsAt
<1>2. DeskTyped'
  <2>1. \A j \in Desk!Ids : \A k \in 1..Len(targets'[j]) : targets'[j][k] \in [by : DeskRequests, set : Desk!Profile]
    BY TargetsRead
  <2> QED
    BY <2>1, <1>1 DEF DeskInv, DeskTyped, Desk!TypeOK
<1>3. \A q \in Desk!InFlight' : WorkKept(q)'
  BY <1>1, EndingKept
<1>4. RowsMade'
  <2> SUFFICES ASSUME NEW j \in Desk!Rows' PROVE RowMade(j)'
    BY DEF RowsMade
  <2>1. j \in Desk!Rows /\ j \in Desk!Ids /\ row[j] \in Desk!RowOf(kind) /\ row'[j] \in Desk!RowOf(kind)
    BY DeskTypes DEF Desk!Rows, RowFollows
  <2>2. RowMade(j)
    BY <2>1 DEF DeskInv, RowsMade
  <2>3. /\ kind = "complaint" => row[j].born \in DeskRequests /\ row'[j].born = row[j].born
        /\ kind = "activity" =>
             /\ row[j].reviewer \in DeskRequests \cup {None}
             /\ row'[j].reviewer = row[j].reviewer \/ (row'[j].reviewer = r /\ deskPc'[r] = "done")
    <3>1. CASE j = deskOrder[r].id
      <4>1. row'[j] # None
        BY DEF Desk!Rows
      <4> QED
        BY <3>1, <4>1, <2>1, RowsOfKinds, DeskFields DEF RowFollows
    <3>2. CASE j # deskOrder[r].id
      BY <3>2, <2>1, RowsOfKinds, DeskFields
    <3> QED
      BY <3>1, <3>2
  <2>4. \A p \in DeskRequests : (deskPc[p] # "new" => deskPc'[p] # "new") /\ (deskPc[p] = "done" =>
          deskPc'[p] = "done")
    BY <1>1 DEF Moves
  <2> QED
    BY <2>2, <2>3, <2>4, <1>1 DEF RowMade
<1> QED
  BY <1>1, <1>2, <1>3, <1>4 DEF DeskInv

LEMMA DeskFailKeeps ==
  ASSUME Desk!DeskAssumption, DeskInv, NEW r \in DeskRequests, Desk!Fail(r)
  PROVE  DeskInv'
<1>1. /\ r \in Desk!InFlight /\ Desk!End(r, "failed")
      /\ kind' = kind /\ row' = row /\ targets' = targets /\ shares' = shares /\ notes' = notes
      /\ asked' = asked /\ direct' = direct /\ deskOverlapped' = deskOverlapped
  BY DEF Desk!Fail, Desk!tables, Desk!history
<1>2. Desk!TargetsAgree' /\ Desk!SharedOnce' /\ Desk!ReviewerAnswers'
  BY <1>1 DEF DeskInv, Desk!TargetsAgree, Desk!SharedOnce, Desk!ReviewerAnswers, Desk!Rows
<1>3. RowFollows(r)
  <2>1. deskOrder[r].id \in Desk!Ids
    BY <1>1 DEF DeskInv, WorkKept, LoadKept
  <2>2. row[deskOrder[r].id] \in Desk!RowOf(kind) \cup {None}
    BY <2>1, DeskTypes
  <2> QED
    BY <2>2, <1>1 DEF RowFollows
<1> QED
  BY <1>1, <1>2, <1>3, EndKeeps, DeskTypes

-----------------------------------------------------------------------------
\* What a row is after r has written its columns.
LEMMA TaskFlushed ==
  ASSUME NEW r, NEW x \in Desk!Task, loaded[r] \in Desk!Task, deskOrder[r].new \in Desk!Task,
         deskOrder[r].new.dated = (loaded[r].dated \/ deskOrder[r].new.status = "COMPLETED"),
         loaded[r].dated => x.dated, x.status = "COMPLETED" /\ loaded[r].status # "COMPLETED" => x.dated
  PROVE  LET y == Desk!Flushed(r, x) IN
         y \in Desk!Task /\ (x.dated => y.dated) /\ (y.status = "COMPLETED" => y.dated)
<1> DEFINE y == Desk!Flushed(r, x)
<1>1. y \in Desk!Task
  BY DEF Desk!Task, Desk!Flushed
<1>2. /\ y.dated = IF deskOrder[r].new.dated = loaded[r].dated THEN x.dated ELSE deskOrder[r].new.dated
      /\ y.status = IF deskOrder[r].new.status = loaded[r].status THEN x.status ELSE deskOrder[r].new.status
  BY DEF Desk!Task, Desk!Flushed
<1>3. /\ x.dated \in BOOLEAN /\ loaded[r].dated \in BOOLEAN /\ deskOrder[r].new.dated \in BOOLEAN
  BY DeskFields
<1> HIDE DEF y
<1>4. x.dated => y.dated
  BY <1>2, <1>3
<1>5. y.status = "COMPLETED" => y.dated
  BY <1>2, <1>3
<1> QED
  BY <1>1, <1>4, <1>5 DEF y

LEMMA ProfileFlushed ==
  ASSUME NEW r, NEW x \in Desk!Profile, loaded[r] \in Desk!Profile, deskOrder[r].new \in Desk!Profile
  PROVE  Desk!Flushed(r, x) \in Desk!Profile /\ (x = loaded[r] => Desk!Flushed(r, x) = deskOrder[r].new)
BY DEF Desk!Profile, Desk!Flushed

LEMMA ComplaintFlushed ==
  ASSUME NEW r, NEW x \in Desk!Complaint, loaded[r] \in Desk!Complaint, deskOrder[r].new \in Desk!Complaint
  PROVE  LET y == Desk!Flushed(r, x) IN
         /\ y \in Desk!Complaint
         /\ deskOrder[r].new.born = loaded[r].born => y.born = x.born
         /\ deskOrder[r].new.author = loaded[r].author => y.author = x.author
         /\ deskOrder[r].new.text = loaded[r].text => y.text = x.text
         /\ deskOrder[r].new.status = loaded[r].status => y.status = x.status
BY DEF Desk!Complaint, Desk!Flushed

LEMMA ActivityFlushed ==
  ASSUME NEW r, NEW x \in Desk!Activity, loaded[r] \in Desk!Activity, deskOrder[r].new \in Desk!Activity
  PROVE  LET y == Desk!Flushed(r, x) IN
         /\ y \in Desk!Activity
         /\ y.status = IF deskOrder[r].new.status = loaded[r].status THEN x.status ELSE deskOrder[r].new.status
         /\ y.reviewer = IF deskOrder[r].new.reviewer = loaded[r].reviewer THEN x.reviewer ELSE deskOrder[r].new.reviewer
BY DEF Desk!Activity, Desk!Flushed

\* What r writes, when it may be written.
LEMMA Writes ==
  ASSUME Desk!DeskAssumption, DeskInv, NEW r \in Desk!InFlight, Desk!Write(r),
         deskOrder[r].id \in Desk!Rows => Desk!Flushed(r, row[deskOrder[r].id]) \in Desk!RowOf(kind)
  PROVE  /\ deskOrder[r].id \in Desk!Ids /\ row' \in [Desk!Ids -> Desk!RowOf(kind) \cup {None}]
         /\ \A j \in Desk!Ids \ {deskOrder[r].id} : row'[j] = row[j]
         /\ deskOrder[r].id \in Desk!Rows => row'[deskOrder[r].id] = Desk!Flushed(r, row[deskOrder[r].id])
         /\ deskOrder[r].id \notin Desk!Rows => row'[deskOrder[r].id] = None
         /\ Desk!Rows' = Desk!Rows
<1>1. deskOrder[r].id \in Desk!Ids
  BY DEF DeskInv, WorkKept, LoadKept
<1>2. /\ row \in [Desk!Ids -> Desk!RowOf(kind) \cup {None}] /\ None \notin Desk!RowOf(kind)
      /\ row' = IF row[deskOrder[r].id] = None THEN row
                 ELSE [row EXCEPT ![deskOrder[r].id] = Desk!Flushed(r, row[deskOrder[r].id])]
  BY DeskTypes DEF Desk!Write
<1>3. deskOrder[r].id \in Desk!Rows <=> row[deskOrder[r].id] # None
  BY <1>1 DEF Desk!Rows
<1> PICK y : y = Desk!Flushed(r, row[deskOrder[r].id])
  OBVIOUS
<1>4. /\ row' \in [Desk!Ids -> Desk!RowOf(kind) \cup {None}]
      /\ \A j \in Desk!Ids \ {deskOrder[r].id} : row'[j] = row[j]
      /\ deskOrder[r].id \in Desk!Rows => row'[deskOrder[r].id] = y
      /\ deskOrder[r].id \notin Desk!Rows => row'[deskOrder[r].id] = None
  BY <1>1, <1>2, <1>3
<1>5. Desk!Rows' = Desk!Rows
  <2>1. deskOrder[r].id \in Desk!Rows => row'[deskOrder[r].id] # None
    BY <1>2, <1>4
  <2>2. \A j \in Desk!Ids : row'[j] # None <=> row[j] # None
    BY <2>1, <1>3, <1>4
  <2> QED
    BY <2>2 DEF Desk!Rows
<1> QED
  BY <1>1, <1>4, <1>5

\* What holds of r, when it commits.
LEMMA CommitsAt ==
  ASSUME Desk!DeskAssumption, DeskInv, NEW r \in DeskRequests, NEW op, Desk!Commit(r, op)
  PROVE  /\ r \in Desk!InFlight /\ deskPc[r] = "commit" /\ deskOrder[r].op = op /\ Desk!End(r, "done") /\
           kind' = kind
         /\ deskOverlapped' = deskOverlapped
         /\ Moves(r) /\ deskPc'[r] = "done"
         /\ deskOrder[r].id \in Desk!Ids /\ loaded[r] \in Desk!RowOf(kind) /\ kind \in Desk!Kinds /\
              deskOrder[r].to \subseteq People
         /\ LoadKept(r) /\ TaskKept(r) /\ ProfileKept(r) /\ AuthorKept(r) /\ ReviewKept(r) /\ ShareKept(r)
<1>1. /\ r \in Desk!InFlight /\ deskPc[r] = "commit" /\ deskOrder[r].op = op /\ Desk!End(r, "done") /\
           kind' = kind
      /\ deskOverlapped' = deskOverlapped
  BY DEF Desk!Commit, Desk!InFlight
<1>2. Moves(r) /\ deskPc'[r] = "done"
  BY <1>1, EndsAt
<1>3. LoadKept(r) /\ TaskKept(r) /\ ProfileKept(r) /\ AuthorKept(r) /\ ReviewKept(r) /\ ShareKept(r)
  BY <1>1 DEF DeskInv, WorkKept
<1>4. deskOrder[r].to \subseteq People
  BY DeskTypes DEF Orders
<1> QED
  BY <1>1, <1>2, <1>3, <1>4, DeskTypes DEF LoadKept

\* The kind of rows is known by the request that is committed.
LEMMA KindTold ==
  ASSUME Desk!DeskAssumption, DeskInv, NEW r \in DeskRequests, NEW op, Desk!Commit(r, op)
  PROVE  /\ op = "edit" => kind \in {"task", "complaint"}
         /\ op = "status" => kind = "complaint"
         /\ op = "review" => kind = "activity"
         /\ op = "delete" => kind \in {"task", "complaint", "activity"}
         /\ op \in {"update", "target"} => kind = "profile"
         /\ op \in {"share", "discard"} => kind = "poster"
<1>1. deskOrder[r].op = op /\ kind \in Desk!Kinds
  BY CommitsAt
<1>2. kind = "task" => op \in {"edit", "delete"}
  BY <1>1, CommitsAt DEF TaskKept
<1>3. kind = "profile" => op \in {"update", "target"}
  BY <1>1, CommitsAt DEF ProfileKept
<1>4. kind = "complaint" => op \in {"edit", "delete", "status"}
  BY <1>1, CommitsAt DEF AuthorKept
<1>5. kind = "activity" => op \in {"review", "delete"}
  BY <1>1, CommitsAt DEF ReviewKept
<1>6. kind = "poster" => op \in {"share", "discard"}
  BY <1>1, CommitsAt DEF ShareKept
<1> QED
  BY <1>1, <1>2, <1>3, <1>4, <1>5, <1>6 DEF Desk!Kinds

\* An edit of a task.
LEMMA TaskEdited ==
  ASSUME Desk!DeskAssumption, DeskInv, NEW r \in DeskRequests, kind = "task", Desk!Commit(r, "edit"),
    Desk!Write(r)
  PROVE  /\ row' \in [Desk!Ids -> Desk!RowOf(kind) \cup {None}]
         /\ \A j \in Desk!Ids \ {deskOrder[r].id} : row'[j] = row[j]
         /\ RowFollows(r)
         /\ deskOrder[r].id \in Desk!Rows => Desk!TaskDated(deskOrder[r].id)
<1> DEFINE i == deskOrder[r].id
<1>1. r \in Desk!InFlight /\ i \in Desk!Ids /\ loaded[r] \in Desk!Task /\ TaskKept(r) /\
        deskOrder[r].op = "edit"
  BY CommitsAt, RowsOfKinds
<1>2. i \in Desk!Rows =>
        /\ row[i] \in Desk!Task /\ Desk!Flushed(r, row[i]) \in Desk!Task
        /\ row[i].dated => Desk!Flushed(r, row[i]).dated
        /\ Desk!Flushed(r, row[i]).status = "COMPLETED" => Desk!Flushed(r, row[i]).dated
  <2> SUFFICES ASSUME i \in Desk!Rows
               PROVE  /\ row[i] \in Desk!Task /\ Desk!Flushed(r, row[i]) \in Desk!Task
                      /\ row[i].dated => Desk!Flushed(r, row[i]).dated
                      /\ Desk!Flushed(r, row[i]).status = "COMPLETED" => Desk!Flushed(r, row[i]).dated
    OBVIOUS
  <2>1. row[i] \in Desk!Task
    BY DeskTypes, RowsOfKinds
  <2>2. /\ deskOrder[r].new \in Desk!Task /\
             deskOrder[r].new.dated = (loaded[r].dated \/ deskOrder[r].new.status = "COMPLETED")
        /\ loaded[r].dated => row[i].dated
        /\ row[i].status = "COMPLETED" /\ loaded[r].status # "COMPLETED" => row[i].dated
    BY <1>1 DEF TaskKept
  <2> QED
    BY <2>1, <2>2, <1>1, TaskFlushed
<1>3. /\ row' \in [Desk!Ids -> Desk!RowOf(kind) \cup {None}] /\ \A j \in Desk!Ids \ {i} : row'[j] = row[j]
      /\ i \in Desk!Rows => row'[i] = Desk!Flushed(r, row[i])
      /\ i \notin Desk!Rows => row'[i] = None
  BY <1>1, <1>2, Writes, RowsOfKinds
<1>4. RowFollows(r)
  <2>1. i \in Desk!Rows => row[i] # None
    BY DEF Desk!Rows
  <2> QED
    BY <2>1, <1>2, <1>3, RowsOfKinds DEF RowFollows
<1>5. i \in Desk!Rows => Desk!TaskDated(i)
  BY <1>2, <1>3 DEF Desk!TaskDated
<1> QED
  BY <1>3, <1>4, <1>5

\* An edit of a complaint or of its status.
LEMMA ComplaintEdited ==
  ASSUME Desk!DeskAssumption, DeskInv, NEW r \in DeskRequests, kind = "complaint", NEW op \in {"edit", "status"},
         Desk!Commit(r, op), Desk!Write(r)
  PROVE  /\ row' \in [Desk!Ids -> Desk!RowOf(kind) \cup {None}]
         /\ \A j \in Desk!Ids \ {deskOrder[r].id} : row'[j] = row[j]
         /\ RowFollows(r)
         /\ deskOrder[r].id \in Desk!Rows => Desk!ComplaintKept(r, deskOrder[r].id)
<1> DEFINE i == deskOrder[r].id
<1>1. r \in Desk!InFlight /\ i \in Desk!Ids /\ loaded[r] \in Desk!Complaint /\ AuthorKept(r) /\
        deskOrder[r].op = op
  BY CommitsAt, RowsOfKinds
<1>2. /\ deskOrder[r].new \in Desk!Complaint
      /\ deskOrder[r].new.born = loaded[r].born /\ deskOrder[r].new.author = loaded[r].author
      /\ op = "edit" => deskOrder[r].new.status = loaded[r].status /\ deskOrder[r].user = loaded[r].author
      /\ op = "status" => deskOrder[r].new.text = loaded[r].text /\ Desk!IsSuper(deskOrder[r].user)
  <2>1. CASE op = "edit"
    <3>1. deskOrder[r].new = [loaded[r] EXCEPT !.text = r] /\ deskOrder[r].user = loaded[r].author
      BY <2>1, <1>1 DEF AuthorKept
    <3> QED
      BY <2>1, <3>1, <1>1 DEF Desk!Complaint
  <2>2. CASE op = "status"
    <3>1. PICK s \in Desk!ComplaintStatus : deskOrder[r].new = [loaded[r] EXCEPT !.status = s]
      BY <2>2, <1>1 DEF AuthorKept
    <3>2. Desk!IsSuper(deskOrder[r].user)
      BY <2>2, <1>1 DEF AuthorKept
    <3>3. /\ deskOrder[r].new \in Desk!Complaint /\ deskOrder[r].new.text = loaded[r].text
          /\ deskOrder[r].new.born = loaded[r].born /\ deskOrder[r].new.author = loaded[r].author
      BY <3>1, <1>1 DEF Desk!Complaint
    <3> QED
      BY <2>2, <3>2, <3>3
  <2> QED
    BY <2>1, <2>2
<1>3. i \in Desk!Rows => row[i] \in Desk!Complaint
  BY DeskTypes, RowsOfKinds
<1> PICK y : y = Desk!Flushed(r, row[i])
  OBVIOUS
<1>4. i \in Desk!Rows =>
        /\ y \in Desk!Complaint /\ y.born = row[i].born /\ y.author = row[i].author
        /\ op = "edit" => y.status = row[i].status
        /\ op = "status" => y.text = row[i].text
  BY <1>1, <1>2, <1>3, ComplaintFlushed
<1>5. /\ row' \in [Desk!Ids -> Desk!RowOf(kind) \cup {None}] /\ \A j \in Desk!Ids \ {i} : row'[j] = row[j]
      /\ i \in Desk!Rows => row'[i] = y
      /\ i \notin Desk!Rows => row'[i] = None
  BY <1>1, <1>4, Writes, RowsOfKinds
<1>6. RowFollows(r)
  <2>1. i \in Desk!Rows => row[i] # None
    BY DEF Desk!Rows
  <2> QED
    BY <2>1, <1>4, <1>5, RowsOfKinds DEF RowFollows
<1>7. i \in Desk!Rows => Desk!ComplaintKept(r, i)
  <2> SUFFICES ASSUME i \in Desk!Rows, row[i].born = loaded[r].born PROVE Desk!ComplaintKept(r, i)
    BY DEF Desk!ComplaintKept
  <2>1. row[i].author = loaded[r].author
    BY <1>1 DEF AuthorKept
  <2>2. y # None
    BY <1>4, DeskTypes, RowsOfKinds
  <2> QED
    BY <2>1, <2>2, <1>2, <1>4, <1>5 DEF Desk!ComplaintKept
<1> QED
  BY <1>5, <1>6, <1>7

LEMMA CommitEditKeeps ==
  ASSUME Desk!DeskAssumption, DeskInv, NEW r \in DeskRequests, Desk!CommitEdit(r)
  PROVE  DeskInv'
<1>1. /\ Desk!Commit(r, "edit") /\ Desk!Write(r)
      /\ targets' = targets /\ shares' = shares /\ notes' = notes /\ asked' = asked /\ direct' = direct
  BY DEF Desk!CommitEdit
<1>2. /\ r \in Desk!InFlight /\ Desk!End(r, "done") /\ kind' = kind /\ deskOverlapped' = deskOverlapped
  BY <1>1, CommitsAt
<1>3. kind \in {"task", "complaint"}
  BY <1>1, KindTold
<1>4. /\ row' \in [Desk!Ids -> Desk!RowOf(kind) \cup {None}] /\ \A j \in Desk!Ids \ {deskOrder[r].id} :
           row'[j] = row[j]
      /\ RowFollows(r)
  BY <1>1, <1>3, TaskEdited, ComplaintEdited
<1>5. Desk!TargetsAgree' /\ Desk!SharedOnce' /\ Desk!ReviewerAnswers'
  BY <1>2, <1>3 DEF Desk!TargetsAgree, Desk!SharedOnce, Desk!ReviewerAnswers
<1> QED
  BY <1>1, <1>2, <1>4, <1>5, EndKeeps, DeskTypes

LEMMA CommitStatusKeeps ==
  ASSUME Desk!DeskAssumption, DeskInv, NEW r \in DeskRequests, Desk!CommitStatus(r)
  PROVE  DeskInv'
<1>1. /\ Desk!Commit(r, "status") /\ Desk!Write(r)
      /\ notes' = notes \cup {[to |-> u, of |-> deskOrder[r].id, by |-> r] : u \in deskOrder[r].to}
      /\ targets' = targets /\ shares' = shares /\ asked' = asked /\ direct' = direct
  BY DEF Desk!CommitStatus
<1>2. /\ r \in Desk!InFlight /\ Desk!End(r, "done") /\ kind' = kind /\ deskOverlapped' = deskOverlapped
      /\ deskOrder[r].id \in Desk!Ids /\ deskOrder[r].to \subseteq People
  BY <1>1, CommitsAt
<1>3. kind = "complaint"
  BY <1>1, KindTold
<1>4. /\ row' \in [Desk!Ids -> Desk!RowOf(kind) \cup {None}] /\ \A j \in Desk!Ids \ {deskOrder[r].id} :
           row'[j] = row[j]
      /\ RowFollows(r)
  BY <1>1, <1>3, ComplaintEdited
<1>5. Desk!TargetsAgree' /\ Desk!SharedOnce' /\ Desk!ReviewerAnswers'
  BY <1>2, <1>3 DEF Desk!TargetsAgree, Desk!SharedOnce, Desk!ReviewerAnswers
<1>6. notes' \subseteq [to : People, of : Desk!Ids, by : DeskRequests]
  BY <1>1, <1>2, DeskTypes
<1> QED
  BY <1>1, <1>2, <1>4, <1>5, <1>6, EndKeeps, DeskTypes

LEMMA CommitReviewKeeps ==
  ASSUME Desk!DeskAssumption, DeskInv, NEW r \in DeskRequests, Desk!CommitReview(r)
  PROVE  DeskInv'
<1> DEFINE i == deskOrder[r].id
<1>1. /\ Desk!Commit(r, "review") /\ Desk!Write(r) /\ asked' = [asked EXCEPT ![r] = deskOrder[r].new.status]
      /\ targets' = targets /\ shares' = shares /\ notes' = notes /\ direct' = direct
  BY DEF Desk!CommitReview
<1>2. /\ r \in Desk!InFlight /\ Desk!End(r, "done") /\ kind' = kind /\ deskOverlapped' = deskOverlapped /\
           i \in Desk!Ids
      /\ deskOrder[r].op = "review" /\ deskPc'[r] = "done" /\ deskPc[r] = "commit"
      /\ ReviewKept(r) /\ LoadKept(r)
  BY <1>1, CommitsAt
<1>3. kind = "activity"
  BY <1>1, KindTold
<1>4. loaded[r] \in Desk!Activity /\ \A j \in Desk!Rows : j \in Desk!Ids /\ row[j] \in Desk!Activity
  BY <1>2, <1>3, DeskTypes, RowsOfKinds DEF LoadKept
<1>5. PICK s \in Desk!ActivityStatus : deskOrder[r].new = [loaded[r] EXCEPT !.status = s, !.reviewer = r]
  BY <1>2, <1>3 DEF ReviewKept
<1>6. deskOrder[r].new \in Desk!Activity /\ deskOrder[r].new.status = s /\ deskOrder[r].new.reviewer = r
  BY <1>4, <1>5 DEF Desk!Activity
<1>7. loaded[r].reviewer # r
  BY <1>2, <1>3, DeskTypes DEF ReviewKept
<1> PICK y : y = Desk!Flushed(r, row[i])
  OBVIOUS
<1>8. i \in Desk!Rows =>
        /\ y \in Desk!Activity /\ y.reviewer = r
        /\ y.status = IF s = loaded[r].status THEN row[i].status ELSE s
  BY <1>4, <1>6, <1>7, ActivityFlushed
<1>9. /\ row' \in [Desk!Ids -> Desk!RowOf(kind) \cup {None}] /\ \A j \in Desk!Ids \ {i} : row'[j] = row[j]
      /\ i \in Desk!Rows => row'[i] = y
      /\ i \notin Desk!Rows => row'[i] = None
      /\ Desk!Rows' = Desk!Rows
  BY <1>1, <1>2, <1>3, <1>8, Writes, RowsOfKinds
<1>10. RowFollows(r)
  <2>1. i \in Desk!Rows => row[i] # None
    BY DEF Desk!Rows
  <2> QED
    BY <2>1, <1>2, <1>3, <1>8, <1>9, RowsOfKinds DEF RowFollows
<1>11. /\ asked' \in [DeskRequests -> Desk!ActivityStatus \cup {None}] /\ asked'[r] = s
       /\ \A q \in DeskRequests \ {r} : asked'[q] = asked[q]
  BY <1>1, <1>6, DeskTypes
<1>12. Desk!ReviewerAnswers'
  <2> SUFFICES ASSUME NEW a \in Desk!Rows, row'[a].reviewer # None
               PROVE  \/ asked'[row'[a].reviewer] = row'[a].status
                      \/ \E q \in DeskRequests : {row'[a].reviewer, q} \in deskOverlapped
    BY <1>2, <1>9 DEF Desk!ReviewerAnswers
  <2>1. CASE a = i
    <3>1. row'[a] = y /\ y.reviewer = r
      BY <2>1, <1>8, <1>9
    <3>2. CASE row[i] = loaded[r]
      <4>1. y.status = s
        BY <2>1, <3>2, <1>8
      <4> QED
        BY <3>1, <4>1, <1>11
    <3>3. CASE row[i] # loaded[r]
      <4>1. \E q \in DeskRequests : {r, q} \in deskOverlapped
        BY <3>3, <1>2 DEF LoadKept
      <4> QED
        BY <3>1, <4>1
    <3> QED
      BY <3>2, <3>3
  <2>2. CASE a # i
    <3>1. row'[a] = row[a] /\ row[a].reviewer \in DeskRequests /\ deskPc[row[a].reviewer] = "done"
      <4>1. row'[a] = row[a] /\ row[a].reviewer \in DeskRequests
        BY <2>2, <1>4, <1>9, DeskFields
      <4> QED
        BY <4>1, <1>3 DEF DeskInv, RowsMade, RowMade
    <3>2. asked'[row[a].reviewer] = asked[row[a].reviewer]
      BY <3>1, <1>2, <1>11
    <3> QED
      BY <3>1, <3>2, <1>3 DEF DeskInv, Desk!ReviewerAnswers
  <2> QED
    BY <2>1, <2>2
<1>13. Desk!TargetsAgree' /\ Desk!SharedOnce'
  BY <1>2, <1>3 DEF Desk!TargetsAgree, Desk!SharedOnce
<1> QED
  BY <1>1, <1>2, <1>9, <1>10, <1>11, <1>12, <1>13, EndKeeps, DeskTypes

LEMMA CommitUpdateKeeps ==
  ASSUME Desk!DeskAssumption, DeskInv, NEW r \in DeskRequests, Desk!CommitUpdate(r)
  PROVE  DeskInv'
<1> DEFINE i == deskOrder[r].id
<1>1. /\ Desk!Commit(r, "update") /\ Desk!Write(r) /\ direct' = direct \cup {i}
      /\ targets' = targets /\ shares' = shares /\ notes' = notes /\ asked' = asked
  BY DEF Desk!CommitUpdate
<1>2. kind = "profile"
  BY <1>1, KindTold
<1>3. /\ r \in Desk!InFlight /\ Desk!End(r, "done") /\ kind' = kind /\ deskOverlapped' = deskOverlapped /\
           i \in Desk!Ids
      /\ loaded[r] \in Desk!Profile /\ deskOrder[r].new \in Desk!Profile
  BY <1>1, <1>2, CommitsAt, RowsOfKinds DEF ProfileKept
<1>4. i \in Desk!Rows => Desk!Flushed(r, row[i]) \in Desk!Profile
  BY <1>2, <1>3, DeskTypes, RowsOfKinds, ProfileFlushed
<1>5. /\ row' \in [Desk!Ids -> Desk!RowOf(kind) \cup {None}] /\ \A j \in Desk!Ids \ {i} : row'[j] = row[j]
      /\ i \in Desk!Rows => row'[i] = Desk!Flushed(r, row[i])
      /\ i \notin Desk!Rows => row'[i] = None
      /\ Desk!Rows' = Desk!Rows
  BY <1>1, <1>2, <1>3, <1>4, Writes, RowsOfKinds
<1>6. RowFollows(r)
  <2>1. i \in Desk!Rows => row[i] # None
    BY DEF Desk!Rows
  <2> QED
    BY <2>1, <1>2, <1>4, <1>5, RowsOfKinds DEF RowFollows
<1>7. Desk!TargetsAgree'
  <2> SUFFICES ASSUME NEW p \in Desk!Rows \ direct'
               PROVE  row'[p] = Desk!Last(targets[p]).set \/ \E x \in DeskRequests :
                        {Desk!Last(targets[p]).by, x} \in deskOverlapped
    BY <1>1, <1>3, <1>5 DEF Desk!TargetsAgree
  <2>1. p \in Desk!Rows \ direct /\ row'[p] = row[p]
    BY <1>1, <1>5, DeskTypes
  <2> QED
    BY <2>1, <1>2 DEF DeskInv, Desk!TargetsAgree
<1>8. Desk!SharedOnce' /\ Desk!ReviewerAnswers' /\ direct' \subseteq Desk!Ids
  BY <1>1, <1>2, <1>3, DeskTypes DEF Desk!SharedOnce, Desk!ReviewerAnswers
<1> QED
  BY <1>1, <1>3, <1>5, <1>6, <1>7, <1>8, EndKeeps, DeskTypes

LEMMA LastAppended ==
  \A S : \A s \in Seq(S) : \A e \in S : Append(s, e) \in Seq(S) /\ Desk!Last(Append(s, e)) = e
BY DEF Desk!Last

LEMMA CommitTargetKeeps ==
  ASSUME Desk!DeskAssumption, DeskInv, NEW r \in DeskRequests, Desk!CommitTarget(r)
  PROVE  DeskInv'
<1> DEFINE i == deskOrder[r].id
<1>1. /\ Desk!Commit(r, "target") /\ Desk!Write(r) /\ direct' = direct \ {i}
      /\ targets' = [targets EXCEPT ![i] = Append(@, [by |-> r, set |-> deskOrder[r].new])]
      /\ shares' = shares /\ notes' = notes /\ asked' = asked
  BY DEF Desk!CommitTarget
<1>2. kind = "profile"
  BY <1>1, KindTold
<1>3. /\ r \in Desk!InFlight /\ Desk!End(r, "done") /\ kind' = kind /\ deskOverlapped' = deskOverlapped /\
           i \in Desk!Ids
      /\ loaded[r] \in Desk!Profile /\ deskOrder[r].new \in Desk!Profile /\ LoadKept(r)
  BY <1>1, <1>2, CommitsAt, RowsOfKinds DEF ProfileKept
<1>t. PICK t \in [by : DeskRequests, set : Desk!Profile] : t = [by |-> r, set |-> deskOrder[r].new]
  BY <1>3
<1>4. t.by = r /\ t.set = deskOrder[r].new
  BY <1>t
<1>5. i \in Desk!Rows =>
        /\ row[i] \in Desk!Profile /\ Desk!Flushed(r, row[i]) \in Desk!Profile
        /\ row[i] = loaded[r] => Desk!Flushed(r, row[i]) = deskOrder[r].new
  <2>1. i \in Desk!Rows => row[i] \in Desk!Profile
    BY <1>2, DeskTypes, RowsOfKinds
  <2> QED
    BY <2>1, <1>3, ProfileFlushed
<1> PICK y : y = Desk!Flushed(r, row[i])
  OBVIOUS
<1>6. /\ row' \in [Desk!Ids -> Desk!RowOf(kind) \cup {None}] /\ \A j \in Desk!Ids \ {i} : row'[j] = row[j]
      /\ i \in Desk!Rows => row'[i] = y
      /\ i \notin Desk!Rows => row'[i] = None
      /\ Desk!Rows' = Desk!Rows
  BY <1>1, <1>2, <1>3, <1>5, Writes, RowsOfKinds
<1>7. RowFollows(r)
  <2>1. i \in Desk!Rows => row[i] # None
    BY DEF Desk!Rows
  <2> QED
    BY <2>1, <1>2, <1>5, <1>6, RowsOfKinds DEF RowFollows
<1>8. /\ targets' \in [Desk!Ids -> Seq([by : DeskRequests, set : Desk!Profile])]
      /\ Desk!Last(targets'[i]) = t /\ \A j \in Desk!Ids \ {i} : targets'[j] = targets[j]
  <2>1. targets \in [Desk!Ids -> Seq([by : DeskRequests, set : Desk!Profile])] /\
          t \in [by : DeskRequests, set : Desk!Profile]
    BY DeskTypes
  <2> DEFINE S == [by : DeskRequests, set : Desk!Profile]
  <2>2. targets' = [targets EXCEPT ![i] = Append(@, t)] /\ i \in Desk!Ids /\
          targets \in [Desk!Ids -> Seq(S)] /\ t \in S
    BY <2>1, <1>1, <1>3, <1>t
  <2> HIDE DEF i, S
  <2> DEFINE s == targets[i]
  <2>3. s \in Seq(S) /\ t \in S
    BY <2>2
  <2>4. Append(s, t) \in Seq(S) /\ Desk!Last(Append(s, t)) = t
    <3> HIDE DEF s
    <3> QED
      BY <2>3, LastAppended, Zenon
  <2>5. targets'[i] = Append(s, t) /\ \A j \in Desk!Ids \ {i} : targets'[j] = targets[j]
    BY <2>2
  <2>6. targets' \in [Desk!Ids -> Seq(S)]
    BY <2>2, <2>4
  <2> QED
    BY <2>4, <2>5, <2>6 DEF S
<1>9. Desk!TargetsAgree'
  <2> SUFFICES ASSUME NEW p \in Desk!Rows \ direct'
               PROVE  row'[p] = Desk!Last(targets'[p]).set \/ \E x \in DeskRequests :
                        {Desk!Last(targets'[p]).by, x} \in deskOverlapped
    BY <1>3, <1>6 DEF Desk!TargetsAgree
  <2>1. CASE p = i
    <3>1. CASE row[i] = loaded[r]
      BY <2>1, <3>1, <1>4, <1>5, <1>6, <1>8
    <3>2. CASE row[i] # loaded[r]
      <4>1. \E x \in DeskRequests : {r, x} \in deskOverlapped
        BY <3>2, <1>3 DEF LoadKept
      <4> QED
        BY <2>1, <4>1, <1>4, <1>8
    <3> QED
      BY <3>1, <3>2
  <2>2. CASE p # i
    <3>1. p \in Desk!Rows \ direct /\ p \in Desk!Ids /\ row'[p] = row[p] /\ targets'[p] = targets[p]
      BY <2>2, <1>1, <1>6, <1>8, DeskTypes
    <3> QED
      BY <3>1, <1>2 DEF DeskInv, Desk!TargetsAgree
  <2> QED
    BY <2>1, <2>2
<1>10. Desk!SharedOnce' /\ Desk!ReviewerAnswers' /\ direct' \subseteq Desk!Ids
  BY <1>1, <1>2, <1>3, DeskTypes DEF Desk!SharedOnce, Desk!ReviewerAnswers
<1> QED
  BY <1>1, <1>3, <1>6, <1>7, <1>8, <1>9, <1>10, EndKeeps, DeskTypes

\* What is deleted is gone.
LEMMA Deleted ==
  ASSUME Desk!DeskAssumption, DeskInv, NEW i \in Desk!Ids, row' = [row EXCEPT ![i] = None]
  PROVE  /\ row' \in [Desk!Ids -> Desk!RowOf(kind) \cup {None}] /\ row'[i] = None
         /\ \A j \in Desk!Ids \ {i} : row'[j] = row[j]
         /\ Desk!Rows' = Desk!Rows \ {i}
<1>1. /\ row' \in [Desk!Ids -> Desk!RowOf(kind) \cup {None}] /\ row'[i] = None
      /\ \A j \in Desk!Ids \ {i} : row'[j] = row[j]
  BY DeskTypes
<1> QED
  BY <1>1 DEF Desk!Rows

LEMMA CommitDeleteKeeps ==
  ASSUME Desk!DeskAssumption, DeskInv, NEW r \in DeskRequests, Desk!CommitDelete(r)
  PROVE  DeskInv'
<1> DEFINE i == deskOrder[r].id
<1>1. /\ Desk!Commit(r, "delete") /\ row' = [row EXCEPT ![i] = None]
      /\ targets' = targets /\ shares' = shares /\ notes' = notes /\ asked' = asked /\ direct' = direct
  BY DEF Desk!CommitDelete
<1>2. kind \in {"task", "complaint", "activity"}
  BY <1>1, KindTold
<1>3. /\ r \in Desk!InFlight /\ Desk!End(r, "done") /\ kind' = kind /\ deskOverlapped' = deskOverlapped /\
           i \in Desk!Ids
  BY <1>1, CommitsAt
<1>4. /\ row' \in [Desk!Ids -> Desk!RowOf(kind) \cup {None}] /\ row'[i] = None
      /\ \A j \in Desk!Ids \ {i} : row'[j] = row[j]
      /\ Desk!Rows' = Desk!Rows \ {i}
  BY <1>1, <1>3, Deleted
<1>5. RowFollows(r)
  BY <1>4 DEF RowFollows
<1>6. Desk!TargetsAgree' /\ Desk!SharedOnce'
  BY <1>2, <1>3 DEF Desk!TargetsAgree, Desk!SharedOnce
<1>7. Desk!ReviewerAnswers'
  <2> SUFFICES ASSUME NEW j \in Desk!Rows', kind = "activity", row'[j].reviewer # None
               PROVE  \/ asked[row'[j].reviewer] = row'[j].status
                      \/ \E q \in DeskRequests : {row'[j].reviewer, q} \in deskOverlapped
    BY <1>1, <1>3 DEF Desk!ReviewerAnswers
  <2>1. j \in Desk!Rows /\ row'[j] = row[j]
    BY <1>4, DeskTypes
  <2> QED
    BY <2>1 DEF DeskInv, Desk!ReviewerAnswers
<1> QED
  BY <1>1, <1>3, <1>4, <1>5, <1>6, <1>7, EndKeeps, DeskTypes

LEMMA CommitShareKeeps ==
  ASSUME Desk!DeskAssumption, DeskInv, NEW r \in DeskRequests, Desk!CommitShare(r)
  PROVE  DeskInv'
<1> DEFINE p == deskOrder[r].id
           news == {[poster |-> p, with |-> u, by |-> r] : u \in deskOrder[r].to}
<1>1. /\ Desk!Commit(r, "share") /\ shares' = shares \cup news
      /\ notes' = notes \cup {[to |-> u, of |-> p, by |-> r] : u \in deskOrder[r].to}
      /\ row' = row /\ targets' = targets /\ asked' = asked /\ direct' = direct
  BY DEF Desk!CommitShare
<1>2. kind = "poster"
  BY <1>1, KindTold
<1>3. /\ r \in Desk!InFlight /\ Desk!End(r, "done") /\ kind' = kind /\ deskOverlapped' = deskOverlapped /\
           p \in Desk!Ids
      /\ deskOrder[r].op = "share" /\ deskOrder[r].to \subseteq People /\ ShareKept(r)
  BY <1>1, CommitsAt
<1>4. /\ \A s \in news : s.poster = p /\ s.with \in deskOrder[r].to /\ s.by = r
      /\ \A s, t \in news : s.with = t.with => s = t
      /\ news \subseteq [poster : Desk!Ids, with : People, by : DeskRequests]
  BY <1>3
<1>5. {[to |-> u, of |-> p, by |-> r] : u \in deskOrder[r].to} =
        {[to |-> s.with, of |-> s.poster, by |-> s.by] : s \in news}
  <2>1. \A u \in deskOrder[r].to :
           /\ [poster |-> p, with |-> u, by |-> r].with = u
           /\ [poster |-> p, with |-> u, by |-> r].poster = p
           /\ [poster |-> p, with |-> u, by |-> r].by = r
    OBVIOUS
  <2> QED
    BY <2>1
<1>6. notes' \subseteq [to : People, of : Desk!Ids, by : DeskRequests]
  <2>1. {[to |-> u, of |-> p, by |-> r] : u \in deskOrder[r].to} \subseteq [to : People, of : Desk!Ids, by : DeskRequests]
    BY <1>3
  <2> QED
    BY <2>1, <1>1, DeskTypes
<1>7. notes' = {[to |-> s.with, of |-> s.poster, by |-> s.by] : s \in shares'}
  <2>1. notes = {[to |-> s.with, of |-> s.poster, by |-> s.by] : s \in shares}
    BY <1>2 DEF DeskInv, Desk!SharedOnce
  <2> HIDE DEF news
  <2>2. {[to |-> s.with, of |-> s.poster, by |-> s.by] : s \in shares \cup news} =
          {[to |-> s.with, of |-> s.poster, by |-> s.by] : s \in shares} \cup
          {[to |-> s.with, of |-> s.poster, by |-> s.by] : s \in news}
    OBVIOUS
  <2> QED
    BY <2>1, <2>2, <1>1, <1>5
<1> HIDE DEF news
<1>8. \A s, t \in shares' : s # t /\ s.poster = t.poster /\ s.with = t.with => {s.by, t.by} \in deskOverlapped
  <2> SUFFICES ASSUME NEW s \in shares', NEW t \in shares', s # t, s.poster = t.poster, s.with = t.with
               PROVE  {s.by, t.by} \in deskOverlapped
    OBVIOUS
  <2>1. {s.by, t.by} = {t.by, s.by}
    OBVIOUS
  <2>2. \A x \in shares : \A z \in news : x.poster = z.poster /\ x.with = z.with =>
          {x.by, z.by} \in deskOverlapped
    BY <1>2, <1>3, <1>4 DEF ShareKept
  <2>3. s \in shares /\ t \in shares => {s.by, t.by} \in deskOverlapped
    BY <1>2 DEF DeskInv, Desk!SharedOnce
  <2> QED
    BY <2>1, <2>2, <2>3, <1>1, <1>4
<1>9. Desk!SharedOnce'
  BY <1>3, <1>7, <1>8 DEF Desk!SharedOnce
<1>10. Desk!TargetsAgree' /\ Desk!ReviewerAnswers'
  BY <1>2, <1>3 DEF Desk!TargetsAgree, Desk!ReviewerAnswers
<1>11. RowFollows(r)
  <2>1. row[p] \in Desk!RowOf(kind) \cup {None}
    BY <1>3, DeskTypes
  <2> QED
    BY <2>1, <1>1, <1>2 DEF RowFollows
<1>12. /\ shares' \subseteq [poster : Desk!Ids, with : People, by : DeskRequests]
       /\ \A s \in shares' : s \in shares \/ s.by = r
  BY <1>1, <1>4, DeskTypes
<1> QED
  BY <1>1, <1>3, <1>6, <1>9, <1>10, <1>11, <1>12, EndKeeps, DeskTypes

LEMMA CommitDiscardKeeps ==
  ASSUME Desk!DeskAssumption, DeskInv, NEW r \in DeskRequests, Desk!CommitDiscard(r)
  PROVE  DeskInv'
<1> DEFINE p == deskOrder[r].id
<1>1. /\ Desk!Commit(r, "discard") /\ row' = [row EXCEPT ![p] = None]
      /\ shares' = {s \in shares : s.poster # p}
      /\ notes' = {n \in notes : n.of # p}
      /\ targets' = targets /\ asked' = asked /\ direct' = direct
  BY DEF Desk!CommitDiscard
<1>2. kind = "poster"
  BY <1>1, KindTold
<1>3. /\ r \in Desk!InFlight /\ Desk!End(r, "done") /\ kind' = kind /\ deskOverlapped' = deskOverlapped /\
           p \in Desk!Ids
  BY <1>1, CommitsAt
<1>4. /\ row' \in [Desk!Ids -> Desk!RowOf(kind) \cup {None}] /\ row'[p] = None
      /\ \A j \in Desk!Ids \ {p} : row'[j] = row[j]
  BY <1>1, <1>3, Deleted
<1>5. RowFollows(r)
  BY <1>4 DEF RowFollows
<1>6. Desk!TargetsAgree' /\ Desk!ReviewerAnswers'
  BY <1>2, <1>3 DEF Desk!TargetsAgree, Desk!ReviewerAnswers
<1>7. Desk!SharedOnce'
  <2> HIDE DEF p
  <2>1. /\ notes = {[to |-> s.with, of |-> s.poster, by |-> s.by] : s \in shares}
        /\ \A s, t \in shares :
             s # t /\ s.poster = t.poster /\ s.with = t.with => {s.by, t.by} \in deskOverlapped
    BY <1>2 DEF DeskInv, Desk!SharedOnce
  <2>2. \A s \in shares : [to |-> s.with, of |-> s.poster, by |-> s.by].of = s.poster
    OBVIOUS
  <2>3. notes' = {[to |-> s.with, of |-> s.poster, by |-> s.by] : s \in shares'}
    BY <2>1, <2>2, <1>1
  <2> QED
    BY <2>1, <2>3, <1>1, <1>3 DEF Desk!SharedOnce
<1>8. shares' \subseteq [poster : Desk!Ids, with : People, by : DeskRequests] /\
        notes' \subseteq [to : People, of : Desk!Ids, by : DeskRequests]
  BY <1>1, DeskTypes
<1> QED
  BY <1>1, <1>3, <1>4, <1>5, <1>6, <1>7, <1>8, EndKeeps, DeskTypes

LEMMA DeskInitInv ==
  ASSUME Desk!DeskAssumption, Desk!Init
  PROVE  DeskInv
<1>1. /\ row = [i \in Desk!Ids |-> None] /\ targets = [i \in Desk!Ids |-> <<>>] /\ shares = {} /\ notes = {}
      /\ deskPc = [r \in DeskRequests |-> "new"] /\ direct = {} /\ deskOverlapped = {}
  BY DEF Desk!Init
<1>2. Desk!Rows = {} /\ Desk!InFlight = {}
  BY <1>1 DEF Desk!Rows, Desk!InFlight
<1>3. deskOrder \in [DeskRequests -> Orders]
  <2>1. Desk!NoOrder \in Orders
    BY DEF Desk!NoOrder, Orders, Steps
  <2> QED
    BY <2>1 DEF Desk!Init
<1>4. loaded \in [DeskRequests -> Desk!RowOf(kind) \cup {None}] /\
        targets \in [Desk!Ids -> Seq([by : DeskRequests, set : Desk!Profile])]
  BY DEF Desk!Init
<1>5. Desk!TypeOK
  BY <1>1 DEF Desk!Init, Desk!TypeOK
<1>6. Desk!TargetsAgree /\ Desk!ReviewerAnswers /\ DeskFlightsKnown /\ RowsMade
  BY <1>2 DEF Desk!TargetsAgree, Desk!ReviewerAnswers, DeskFlightsKnown, RowsMade
<1>7. Desk!SharedOnce
  BY <1>1 DEF Desk!SharedOnce
<1> QED
  BY <1>2, <1>3, <1>4, <1>5, <1>6, <1>7 DEF DeskInv, DeskTyped

LEMMA DeskStands ==
  ASSUME DeskInv, UNCHANGED Desk!vars
  PROVE  DeskInv'
<1> USE DEF Desk!vars, Desk!tables, Desk!locals, Desk!history
<1>1. Desk!Rows' = Desk!Rows /\ Desk!InFlight' = Desk!InFlight
  BY DEF Desk!Rows, Desk!InFlight
<1>2. DeskTyped'
  BY DEF DeskInv, DeskTyped, Desk!TypeOK, Orders
<1>3. Desk!TargetsAgree' /\ Desk!SharedOnce' /\ Desk!ReviewerAnswers'
  BY <1>1 DEF DeskInv, Desk!TargetsAgree, Desk!SharedOnce, Desk!ReviewerAnswers
<1>4. DeskFlightsKnown' /\ RowsMade'
  BY <1>1 DEF DeskInv, DeskFlightsKnown, RowsMade, RowMade
<1>5. ASSUME NEW r \in Desk!InFlight' PROVE WorkKept(r)'
  <2>1. WorkKept(r)
    BY <1>1, <1>5 DEF DeskInv
  <2>2. LoadKept(r)' /\ TaskKept(r)' /\ ProfileKept(r)'
    BY <1>1, <2>1 DEF WorkKept, LoadKept, TaskKept, ProfileKept
  <2>3. AuthorKept(r)' /\ ReviewKept(r)' /\ ShareKept(r)'
    BY <1>1, <2>1 DEF WorkKept, AuthorKept, ReviewKept, ShareKept
  <2> QED
    BY <2>2, <2>3 DEF WorkKept
<1> QED
  BY <1>2, <1>3, <1>4, <1>5 DEF DeskInv

LEMMA FinishKeeps ==
  ASSUME Desk!DeskAssumption, DeskInv, NEW r \in DeskRequests, Desk!Finish(r)
  PROVE  DeskInv'
BY LookForSharesKeeps, CommitEditKeeps, CommitStatusKeeps, CommitReviewKeeps, CommitUpdateKeeps,
   CommitTargetKeeps,
   CommitDeleteKeeps, CommitShareKeeps, CommitDiscardKeeps, DeskFailKeeps DEF Desk!Finish

\* Whatever the desk does keeps its invariant.
LEMMA DeskStep ==
  ASSUME Desk!DeskAssumption, DeskInv, [Desk!Next]_Desk!vars
  PROVE  DeskInv'
<1> SUFFICES ASSUME Desk!Next PROVE DeskInv'
  BY DeskStands
<1>1. ASSUME NEW r \in DeskRequests, Desk!WorkOnTasks(r) PROVE DeskInv'
  BY <1>1, CreateTaskKeeps, TaskLoadsKeep DEF Desk!WorkOnTasks
<1>2. ASSUME NEW r \in DeskRequests, Desk!WorkOnVolunteers(r) PROVE DeskInv'
  BY <1>2, CreateVolunteerKeeps, VolunteerLoadsKeep DEF Desk!WorkOnVolunteers
<1>3. ASSUME NEW r \in DeskRequests, Desk!WorkOnComplaints(r) PROVE DeskInv'
  BY <1>3, AddComplaintKeeps, ComplaintLoadsKeep DEF Desk!WorkOnComplaints
<1>4. ASSUME NEW r \in DeskRequests, Desk!WorkOnActivities(r) PROVE DeskInv'
  BY <1>4, SubmitActivityKeeps, ActivityLoadsKeep DEF Desk!WorkOnActivities
<1>5. ASSUME NEW r \in DeskRequests, Desk!WorkOnPosters(r) PROVE DeskInv'
  BY <1>5, SaveDesignKeeps, PosterLoadsKeep DEF Desk!WorkOnPosters
<1>6. Desk!Idle => DeskInv'
  BY DeskStands DEF Desk!Idle
<1> QED
  BY <1>1, <1>2, <1>3, <1>4, <1>5, <1>6, FinishKeeps DEF Desk!Next

LEMMA DeskInvEnough == DeskInv => Desk!DeskInOrder
BY DEF DeskInv, DeskTyped, Desk!DeskInOrder

\* Only a commit ends a request that has something to commit.
LEMMA EndsByCommit ==
  ASSUME Desk!DeskAssumption, DeskInv, NEW r \in DeskRequests, deskPc[r] = "commit", deskPc'[r] = "done",
    [Desk!Next]_Desk!vars
  PROVE  \/ Desk!CommitEdit(r) \/ Desk!CommitStatus(r) \/ Desk!CommitDelete(r)
         \/ \E op \in {"review", "update", "target", "share", "discard"} : Desk!Commit(r, op)
<1>1. PICK q \in DeskRequests :
        \/ Desk!WorkOnTasks(q) \/ Desk!WorkOnVolunteers(q) \/ Desk!WorkOnComplaints(q)
        \/ Desk!WorkOnActivities(q) \/ Desk!WorkOnPosters(q) \/ Desk!Finish(q)
  BY DEF Desk!Next, Desk!Idle, Desk!vars
<1>2. deskPc \in [DeskRequests -> {"new", "shares", "commit", "done", "failed"}]
  BY DeskTypes
<1>3. ASSUME NEW i, NEW new, Desk!Insert(q, i, new) PROVE FALSE
  BY <1>2, <1>3 DEF Desk!Insert
<1>4. ASSUME NEW op, NEW u, NEW i, NEW new, NEW to, Desk!Load(q, op, u, i, new, to) PROVE FALSE
  BY <1>2, <1>4 DEF Desk!Load
<1>5. ~Desk!WorkOnTasks(q)
  BY <1>3, <1>4 DEF Desk!WorkOnTasks, Desk!CreateTask, Desk!UpdateTask, Desk!UpdateTaskStatus, Desk!DeleteTask
<1>6. ~Desk!WorkOnVolunteers(q)
  BY <1>3, <1>4 DEF Desk!WorkOnVolunteers, Desk!CreateVolunteer, Desk!UpdateVolunteer, Desk!SetVolunteerTarget
<1>7. ~Desk!WorkOnComplaints(q)
  BY <1>3, <1>4 DEF Desk!WorkOnComplaints, Desk!AddComplaint, Desk!UpdateComplaint, Desk!DeleteComplaint,
     Desk!UpdateComplaintStatus
<1>8. ~Desk!WorkOnActivities(q)
  BY <1>3, <1>4 DEF Desk!WorkOnActivities, Desk!SubmitActivity, Desk!UpdateActivityStatus, Desk!DeleteActivity
<1>9. ~Desk!WorkOnPosters(q)
  BY <1>3, <1>4 DEF Desk!WorkOnPosters, Desk!SaveDesign, Desk!ShareDesign, Desk!DeleteDesign
<1>10. ~Desk!LookForShares(q) /\ ~Desk!Fail(q)
  BY <1>2 DEF Desk!LookForShares, Desk!Fail, Desk!End
<1>11. ASSUME NEW op, Desk!Commit(q, op) PROVE q = r
  BY <1>2, <1>11 DEF Desk!Commit, Desk!End
<1>12. CASE Desk!CommitEdit(q) \/ Desk!CommitStatus(q) \/ Desk!CommitDelete(q)
  BY <1>11, <1>12 DEF Desk!CommitEdit, Desk!CommitStatus, Desk!CommitDelete
<1>13. CASE Desk!CommitReview(q) \/ Desk!CommitUpdate(q) \/ Desk!CommitTarget(q) \/ Desk!CommitShare(q) \/
         Desk!CommitDiscard(q)
  <2>1. PICK op \in {"review", "update", "target", "share", "discard"} : Desk!Commit(q, op)
    BY <1>13 DEF Desk!CommitReview, Desk!CommitUpdate, Desk!CommitTarget, Desk!CommitShare, Desk!CommitDiscard
  <2> QED
    BY <2>1, <1>11
<1> QED
  BY <1>1, <1>5, <1>6, <1>7, <1>8, <1>9, <1>10, <1>12, <1>13 DEF Desk!Finish

\* A change of a complaint or of a task is one that its handler may make.
LEMMA DeskEdits ==
  ASSUME Desk!DeskAssumption, DeskInv, [Desk!Next]_Desk!vars
  PROVE  Desk!EditInOrder
<1> SUFFICES ASSUME NEW r \in DeskRequests, NEW i \in Desk!Ids,
                    row[i] # None, row'[i] # row[i], deskPc[r] = "commit", deskPc'[r] = "done"
             PROVE  (kind = "complaint" => Desk!ComplaintKept(r, i)) /\ (kind = "task" => Desk!TaskDated(i))
  BY DEF Desk!EditInOrder
<1>1. i \in Desk!Rows
  BY DEF Desk!Rows
<1>2. CASE Desk!CommitEdit(r)
  <2>1. Desk!Commit(r, "edit") /\ Desk!Write(r)
    BY <1>2 DEF Desk!CommitEdit
  <2>2. kind = "task" => Desk!TaskDated(i)
    BY <2>1, <1>1, TaskEdited
  <2>3. kind = "complaint" => Desk!ComplaintKept(r, i)
    BY <2>1, <1>1, ComplaintEdited
  <2> QED
    BY <2>2, <2>3
<1>3. CASE Desk!CommitStatus(r)
  <2>1. Desk!Commit(r, "status") /\ Desk!Write(r) /\ kind = "complaint"
    BY <1>3, KindTold DEF Desk!CommitStatus
  <2> QED
    BY <2>1, <1>1, ComplaintEdited
<1>4. CASE Desk!CommitDelete(r)
  <2>1. Desk!Commit(r, "delete") /\ row' = [row EXCEPT ![deskOrder[r].id] = None]
    BY <1>4 DEF Desk!CommitDelete
  <2>2. deskOrder[r].id = i /\ row'[i] = None
    BY <2>1, DeskTypes
  <2>3. AuthorKept(r) /\ deskOrder[r].op = "delete"
    BY <2>1, CommitsAt
  <2>4. kind = "complaint" /\ row[i].born = loaded[r].born => row[i].author = deskOrder[r].user
    BY <2>2, <2>3, <1>1 DEF AuthorKept
  <2> QED
    BY <2>2, <2>4 DEF Desk!ComplaintKept, Desk!TaskDated
<1>5. CASE \E op \in {"review", "update", "target", "share", "discard"} : Desk!Commit(r, op)
  BY <1>5, KindTold
<1> QED
  BY <1>2, <1>3, <1>4, <1>5, EndsByCommit

LEMMA DeskStepOfOffice == [OfficeNext]_all => [Desk!Next]_Desk!vars
<1>1. DeskSteps => Desk!Next
  BY DEF DeskSteps
<1>2. desk' = desk => UNCHANGED Desk!vars
  BY DEF desk, Desk!vars, Desk!tables, Desk!locals, Desk!history
<1>3. BudgetSteps \/ OutreachSteps \/ RateLimiterSteps \/ AccessSteps \/ UNCHANGED all => desk' = desk
  BY DEF BudgetSteps, OutreachSteps, RateLimiterSteps, AccessSteps, all
<1> QED
  BY <1>1, <1>2, <1>3 DEF OfficeNext

LEMMA DeskOfOffice == OfficeSpec => []DeskInv
<1>1. Desk!DeskAssumption
  BY OfficeAssumption
<1>2. OfficeInit => DeskInv
  BY <1>1, DeskInitInv DEF OfficeInit
<1>3. DeskInv /\ [OfficeNext]_all => DeskInv'
  BY <1>1, DeskStep, DeskStepOfOffice
<1> QED
  BY <1>2, <1>3, PTL DEF OfficeSpec

\* Whichever requests of the desk overlap, a poster is shared once and with one
\* notification, the reviewer whom an activity names has given it its status,
\* and the targets of a volunteer are those of his last row of targets, save
\* for the overlaps that each of these names (endpoints/design_templates.py,
\* endpoints/activities.py, services/volunteer_service.py).
THEOREM OfficeDeskInOrder == OfficeSpec => []DeskInOrder
<1>1. DeskInv => DeskInOrder
  BY DeskInvEnough DEF DeskInOrder
<1> QED
  BY <1>1, DeskOfOffice, PTL

\* A complaint is edited and deleted by its author alone, its status set by the
\* super admin alone, and a task that is completed later is dated
\* (services/complaint_service.py, endpoints/tasks.py).
THEOREM OfficeEditsInOrder == OfficeSpec => EditsInOrder
<1>1. DeskInv /\ [OfficeNext]_all => [Desk!EditInOrder]_desk
  BY DeskEdits, DeskStepOfOffice, OfficeAssumption
<1> QED
  BY <1>1, DeskOfOffice, PTL DEF OfficeSpec, EditsInOrder

-----------------------------------------------------------------------------
(***************************************************************************)
(* Nobody is served what the role forbids, however many people there are:  *)
(* every file of routes keeps what is prohibited behind a guard that those *)
(* to whom it is do not pass, so the router does, and the route that       *)
(* answers is one of the router's.                                         *)
(***************************************************************************)
\* What super admins, administrators and volunteers must be kept from.
Complaining == {"add_complaint", "add_election_complaint", "update_complaint", "delete_complaint"}

Platform ==
  {"create_organization", "list_permissions", "get_super_admin_dashboard", "purge_user",
   "update_complaint_status"}

Managing ==
  {"create_election", "update_election", "transition_election_lifecycle", "update_election_settings",
   "create_position", "update_position", "create_constituency", "update_constituency",
   "add_candidate", "update_candidate", "delete_candidate", "update_candidate_status",
   "delete_voter", "delete_voters_bulk", "upload_voters_file", "confirm_import",
   "tally_election_results_by_param", "tally_election_results_by_body", "publish_results",
   "export_volunteers_csv", "export_data_csv"}

\* The permissions that guard what is kept from volunteers.
ManagersOnly ==
  {"election.create", "election.update", "position.manage", "constituency.manage", "candidate.update",
   "candidate.approve", "voter.update", "voter.import", "result.count", "result.publish", "report.generate"}

\* The elements of a sequence.
Outward(s) == {s[i] : i \in DOMAIN s}

IsPath(p) == p \in Seq(Outward(p))

\* Literal paths are sequences.
LEMMA Paths ==
  /\ \A a : IsPath(<<a>>)
  /\ \A a, b : IsPath(<<a, b>>)
  /\ \A a, b, c : IsPath(<<a, b, c>>)
  /\ \A a, b, c, d : IsPath(<<a, b, c, d>>)
<1>1. \A a : IsPath(<<a>>)
  BY DEF IsPath, Outward
<1>2. \A a, b : IsPath(<<a, b>>)
  BY DEF IsPath, Outward
<1>3. \A a, b, c : IsPath(<<a, b, c>>)
  BY DEF IsPath, Outward
<1>4. \A a, b, c, d : IsPath(<<a, b, c, d>>)
  BY DEF IsPath, Outward
<1> QED
  BY <1>1, <1>2, <1>3, <1>4

\* A route has the guard that what it does calls for.
Kept(x) ==
  /\ IsPath(x.path)
  /\ x.handler \in Complaining => x.needs = NotSuper
  /\ x.handler \in Platform => x.needs \in {Super, SuperRole, Permit("permission.manage")}
  /\ x.handler \in Managing => x.needs = Roles(Managers) \/ \E p \in ManagersOnly : x.needs = Permit(p)

\* A sequence is one of its own elements.
LEMMA Enclosed == ASSUME NEW S, NEW s \in Seq(S) PROVE s \in Seq(Outward(s))
<1>1. s \in [1..Len(s) -> S] /\ Len(s) \in Nat /\ DOMAIN s = 1..Len(s)
  OBVIOUS
<1>2. s \in [1..Len(s) -> Outward(s)]
  BY <1>1 DEF Outward
<1> QED
  BY <1>1, <1>2, SeqDef

\* Sequences of routes that all have their guards.
AllKept(s) == s \in Seq(Outward(s)) /\ \A i \in 1..Len(s) : Kept(s[i])

\* Two such sequences one after the other are one.
LEMMA KeptTogether ==
  ASSUME NEW s, NEW t, AllKept(s), AllKept(t)
  PROVE  AllKept(s \o t)
<1> DEFINE both == Outward(s) \cup Outward(t)
<1>1. s \in Seq(both) /\ t \in Seq(both)
  BY DEF AllKept
<1>2. /\ s \o t \in Seq(both) /\ Len(s \o t) = Len(s) + Len(t) /\ Len(s) \in Nat /\ Len(t) \in Nat
      /\ \A i \in 1..Len(s) : (s \o t)[i] = s[i]
      /\ \A i \in Len(s)+1..Len(s)+Len(t) : (s \o t)[i] = t[i - Len(s)]
  BY <1>1
<1>3. \A i \in 1..Len(s) + Len(t) : Kept((s \o t)[i])
  <2> TAKE i \in 1..Len(s) + Len(t)
  <2>1. CASE i <= Len(s)
    BY <1>2, <2>1 DEF AllKept
  <2>2. CASE i > Len(s)
    <3>1. i - Len(s) \in 1..Len(t) /\ i \in Len(s)+1..Len(s)+Len(t)
      BY <1>2, <2>2
    <3> QED
      BY <1>2, <3>1 DEF AllKept
  <2> QED
    BY <1>2, <2>1, <2>2
<1>4. s \o t \in Seq(Outward(s \o t))
  BY <1>2, Enclosed
<1> QED
  BY <1>2, <1>3, <1>4 DEF AllKept

\* The routes of each file.
LEMMA FilesKept ==
  /\ AllKept(HealthRoutes)
  /\ AllKept(AuthRoutes)
  /\ AllKept(UsersRoutes)
  /\ AllKept(OrganizationsRoutes)
  /\ AllKept(ElectionsRoutes)
  /\ AllKept(PositionsRoutes)
  /\ AllKept(ConstituenciesRoutes)
  /\ AllKept(BoothsRoutes)
  /\ AllKept(CandidatesRoutes)
  /\ AllKept(TeamRoutes)
  /\ AllKept(VotersRoutes)
  /\ AllKept(BroadcastRoutes)
  /\ AllKept(ComplaintsRoutes)
  /\ AllKept(ExpensesRoutes)
  /\ AllKept(VolunteerVotersRoutes)
  /\ AllKept(ImportsRoutes)
  /\ AllKept(PollingStationsRoutes)
  /\ AllKept(VolunteersRoutes)
  /\ AllKept(DataCollectionRoutes)
  /\ AllKept(CheckinRoutes)
  /\ AllKept(VotingRoutes)
  /\ AllKept(ResultsRoutes)
  /\ AllKept(TemplatesRoutes)
  /\ AllKept(BannersRoutes)
  /\ AllKept(DesignTemplatesRoutes)
  /\ AllKept(PosterRoutes)
  /\ AllKept(NotificationsRoutes)
  /\ AllKept(DashboardRoutes)
  /\ AllKept(AnalyticsRoutes)
  /\ AllKept(ReportsRoutes)
  /\ AllKept(AlertsRoutes)
  /\ AllKept(AuditLogsRoutes)
  /\ AllKept(WebhooksRoutes)
  /\ AllKept(ActivitiesRoutes)
  /\ AllKept(TasksRoutes)
  /\ AllKept(SubscriptionsRoutes)
<1>1. AllKept(HealthRoutes)
  <2>1. HealthRoutes \in Seq(Outward(HealthRoutes)) /\ Len(HealthRoutes) = 3
    BY DEF HealthRoutes, Outward
  <2>2. \A i \in 1..3 : Kept(HealthRoutes[i])
    BY Paths DEF HealthRoutes, On, Kept, Complaining, Platform, Managing, ManagersOnly
  <2> QED
    BY <2>1, <2>2 DEF AllKept
<1>2. AllKept(AuthRoutes)
  <2>1. AuthRoutes \in Seq(Outward(AuthRoutes)) /\ Len(AuthRoutes) = 15
    BY DEF AuthRoutes, Outward
  <2>2. \A i \in 1..15 : Kept(AuthRoutes[i])
    BY Paths DEF AuthRoutes, On, Kept, Complaining, Platform, Managing, ManagersOnly
  <2> QED
    BY <2>1, <2>2 DEF AllKept
<1>3. AllKept(UsersRoutes)
  <2>1. UsersRoutes \in Seq(Outward(UsersRoutes)) /\ Len(UsersRoutes) = 9
    BY DEF UsersRoutes, Outward
  <2>2. \A i \in 1..9 : Kept(UsersRoutes[i])
    BY Paths DEF UsersRoutes, On, Kept, Complaining, Platform, Managing, ManagersOnly
  <2> QED
    BY <2>1, <2>2 DEF AllKept
<1>4. AllKept(OrganizationsRoutes)
  <2>1. OrganizationsRoutes \in Seq(Outward(OrganizationsRoutes)) /\ Len(OrganizationsRoutes) = 4
    BY DEF OrganizationsRoutes, Outward
  <2>2. \A i \in 1..4 : Kept(OrganizationsRoutes[i])
    BY Paths DEF OrganizationsRoutes, On, Kept, Complaining, Platform, Managing, ManagersOnly
  <2> QED
    BY <2>1, <2>2 DEF AllKept
<1>5. AllKept(ElectionsRoutes)
  <2>1. ElectionsRoutes \in Seq(Outward(ElectionsRoutes)) /\ Len(ElectionsRoutes) = 6
    BY DEF ElectionsRoutes, Outward
  <2>2. \A i \in 1..6 : Kept(ElectionsRoutes[i])
    BY Paths DEF ElectionsRoutes, On, Kept, Complaining, Platform, Managing, ManagersOnly
  <2> QED
    BY <2>1, <2>2 DEF AllKept
<1>6. AllKept(PositionsRoutes)
  <2>1. PositionsRoutes \in Seq(Outward(PositionsRoutes)) /\ Len(PositionsRoutes) = 3
    BY DEF PositionsRoutes, Outward
  <2>2. \A i \in 1..3 : Kept(PositionsRoutes[i])
    BY Paths DEF PositionsRoutes, On, Kept, Complaining, Platform, Managing, ManagersOnly
  <2> QED
    BY <2>1, <2>2 DEF AllKept
<1>7. AllKept(ConstituenciesRoutes)
  <2>1. ConstituenciesRoutes \in Seq(Outward(ConstituenciesRoutes)) /\ Len(ConstituenciesRoutes) = 3
    BY DEF ConstituenciesRoutes, Outward
  <2>2. \A i \in 1..3 : Kept(ConstituenciesRoutes[i])
    BY Paths DEF ConstituenciesRoutes, On, Kept, Complaining, Platform, Managing, ManagersOnly
  <2> QED
    BY <2>1, <2>2 DEF AllKept
<1>8. AllKept(BoothsRoutes)
  <2>1. BoothsRoutes \in Seq(Outward(BoothsRoutes)) /\ Len(BoothsRoutes) = 8
    BY DEF BoothsRoutes, Outward
  <2>2. \A i \in 1..8 : Kept(BoothsRoutes[i])
    BY Paths DEF BoothsRoutes, On, Kept, Complaining, Platform, Managing, ManagersOnly
  <2> QED
    BY <2>1, <2>2 DEF AllKept
<1>9. AllKept(CandidatesRoutes)
  <2>1. CandidatesRoutes \in Seq(Outward(CandidatesRoutes)) /\ Len(CandidatesRoutes) = 7
    BY DEF CandidatesRoutes, Outward
  <2>2. \A i \in 1..7 : Kept(CandidatesRoutes[i])
    BY Paths DEF CandidatesRoutes, On, Kept, Complaining, Platform, Managing, ManagersOnly
  <2> QED
    BY <2>1, <2>2 DEF AllKept
<1>10. AllKept(TeamRoutes)
  <2>1. TeamRoutes \in Seq(Outward(TeamRoutes)) /\ Len(TeamRoutes) = 4
    BY DEF TeamRoutes, Outward
  <2>2. \A i \in 1..4 : Kept(TeamRoutes[i])
    BY Paths DEF TeamRoutes, On, Kept, Complaining, Platform, Managing, ManagersOnly
  <2> QED
    BY <2>1, <2>2 DEF AllKept
<1>11. AllKept(VotersRoutes)
  <2>1. VotersRoutes \in Seq(Outward(VotersRoutes)) /\ Len(VotersRoutes) = 10
    BY DEF VotersRoutes, Outward
  <2>2. \A i \in 1..10 : Kept(VotersRoutes[i])
    BY Paths DEF VotersRoutes, On, Kept, Complaining, Platform, Managing, ManagersOnly
  <2> QED
    BY <2>1, <2>2 DEF AllKept
<1>12. AllKept(BroadcastRoutes)
  <2>1. BroadcastRoutes \in Seq(Outward(BroadcastRoutes)) /\ Len(BroadcastRoutes) = 12
    BY DEF BroadcastRoutes, Outward
  <2>2. \A i \in 1..12 : Kept(BroadcastRoutes[i])
    BY Paths DEF BroadcastRoutes, On, Kept, Complaining, Platform, Managing, ManagersOnly
  <2> QED
    BY <2>1, <2>2 DEF AllKept
<1>13. AllKept(ComplaintsRoutes)
  <2>1. ComplaintsRoutes \in Seq(Outward(ComplaintsRoutes)) /\ Len(ComplaintsRoutes) = 8
    BY DEF ComplaintsRoutes, Outward
  <2>2. \A i \in 1..8 : Kept(ComplaintsRoutes[i])
    BY Paths DEF ComplaintsRoutes, On, Kept, Complaining, Platform, Managing, ManagersOnly
  <2> QED
    BY <2>1, <2>2 DEF AllKept
<1>14. AllKept(ExpensesRoutes)
  <2>1. ExpensesRoutes \in Seq(Outward(ExpensesRoutes)) /\ Len(ExpensesRoutes) = 7
    BY DEF ExpensesRoutes, Outward
  <2>2. \A i \in 1..7 : Kept(ExpensesRoutes[i])
    BY Paths DEF ExpensesRoutes, On, Kept, Complaining, Platform, Managing, ManagersOnly
  <2> QED
    BY <2>1, <2>2 DEF AllKept
<1>15. AllKept(VolunteerVotersRoutes)
  <2>1. VolunteerVotersRoutes \in Seq(Outward(VolunteerVotersRoutes)) /\ Len(VolunteerVotersRoutes) = 4
    BY DEF VolunteerVotersRoutes, Outward
  <2>2. \A i \in 1..4 : Kept(VolunteerVotersRoutes[i])
    BY Paths DEF VolunteerVotersRoutes, On, Kept, Complaining, Platform, Managing, ManagersOnly
  <2> QED
    BY <2>1, <2>2 DEF AllKept
<1>16. AllKept(ImportsRoutes)
  <2>1. ImportsRoutes \in Seq(Outward(ImportsRoutes)) /\ Len(ImportsRoutes) = 3
    BY DEF ImportsRoutes, Outward
  <2>2. \A i \in 1..3 : Kept(ImportsRoutes[i])
    BY Paths DEF ImportsRoutes, On, Kept, Complaining, Platform, Managing, ManagersOnly
  <2> QED
    BY <2>1, <2>2 DEF AllKept
<1>17. AllKept(PollingStationsRoutes)
  <2>1. PollingStationsRoutes \in Seq(Outward(PollingStationsRoutes)) /\ Len(PollingStationsRoutes) = 4
    BY DEF PollingStationsRoutes, Outward
  <2>2. \A i \in 1..4 : Kept(PollingStationsRoutes[i])
    BY Paths DEF PollingStationsRoutes, On, Kept, Complaining, Platform, Managing, ManagersOnly
  <2> QED
    BY <2>1, <2>2 DEF AllKept
<1>18. AllKept(VolunteersRoutes)
  <2>1. VolunteersRoutes \in Seq(Outward(VolunteersRoutes)) /\ Len(VolunteersRoutes) = 13
    BY DEF VolunteersRoutes, Outward
  <2>2. \A i \in 1..13 : Kept(VolunteersRoutes[i])
    BY Paths DEF VolunteersRoutes, On, Kept, Complaining, Platform, Managing, ManagersOnly
  <2> QED
    BY <2>1, <2>2 DEF AllKept
<1>19. AllKept(DataCollectionRoutes)
  <2>1. DataCollectionRoutes \in Seq(Outward(DataCollectionRoutes)) /\ Len(DataCollectionRoutes) = 8
    BY DEF DataCollectionRoutes, Outward
  <2>2. \A i \in 1..8 : Kept(DataCollectionRoutes[i])
    BY Paths DEF DataCollectionRoutes, On, Kept, Complaining, Platform, Managing, ManagersOnly
  <2> QED
    BY <2>1, <2>2 DEF AllKept
<1>20. AllKept(CheckinRoutes)
  <2>1. CheckinRoutes \in Seq(Outward(CheckinRoutes)) /\ Len(CheckinRoutes) = 1
    BY DEF CheckinRoutes, Outward
  <2>2. \A i \in 1..1 : Kept(CheckinRoutes[i])
    BY Paths DEF CheckinRoutes, On, Kept, Complaining, Platform, Managing, ManagersOnly
  <2> QED
    BY <2>1, <2>2 DEF AllKept
<1>21. AllKept(VotingRoutes)
  <2>1. VotingRoutes \in Seq(Outward(VotingRoutes)) /\ Len(VotingRoutes) = 2
    BY DEF VotingRoutes, Outward
  <2>2. \A i \in 1..2 : Kept(VotingRoutes[i])
    BY Paths DEF VotingRoutes, On, Kept, Complaining, Platform, Managing, ManagersOnly
  <2> QED
    BY <2>1, <2>2 DEF AllKept
<1>22. AllKept(ResultsRoutes)
  <2>1. ResultsRoutes \in Seq(Outward(ResultsRoutes)) /\ Len(ResultsRoutes) = 4
    BY DEF ResultsRoutes, Outward
  <2>2. \A i \in 1..4 : Kept(ResultsRoutes[i])
    BY Paths DEF ResultsRoutes, On, Kept, Complaining, Platform, Managing, ManagersOnly
  <2> QED
    BY <2>1, <2>2 DEF AllKept
<1>23. AllKept(TemplatesRoutes)
  <2>1. TemplatesRoutes \in Seq(Outward(TemplatesRoutes)) /\ Len(TemplatesRoutes) = 4
    BY DEF TemplatesRoutes, Outward
  <2>2. \A i \in 1..4 : Kept(TemplatesRoutes[i])
    BY Paths DEF TemplatesRoutes, On, Kept, Complaining, Platform, Managing, ManagersOnly
  <2> QED
    BY <2>1, <2>2 DEF AllKept
<1>24. AllKept(BannersRoutes)
  <2>1. BannersRoutes \in Seq(Outward(BannersRoutes)) /\ Len(BannersRoutes) = 3
    BY DEF BannersRoutes, Outward
  <2>2. \A i \in 1..3 : Kept(BannersRoutes[i])
    BY Paths DEF BannersRoutes, On, Kept, Complaining, Platform, Managing, ManagersOnly
  <2> QED
    BY <2>1, <2>2 DEF AllKept
<1>25. AllKept(DesignTemplatesRoutes)
  <2>1. DesignTemplatesRoutes \in Seq(Outward(DesignTemplatesRoutes)) /\ Len(DesignTemplatesRoutes) = 12
    BY DEF DesignTemplatesRoutes, Outward
  <2>2. \A i \in 1..12 : Kept(DesignTemplatesRoutes[i])
    BY Paths DEF DesignTemplatesRoutes, On, Kept, Complaining, Platform, Managing, ManagersOnly
  <2> QED
    BY <2>1, <2>2 DEF AllKept
<1>26. AllKept(PosterRoutes)
  <2>1. PosterRoutes \in Seq(Outward(PosterRoutes)) /\ Len(PosterRoutes) = 2
    BY DEF PosterRoutes, Outward
  <2>2. \A i \in 1..2 : Kept(PosterRoutes[i])
    BY Paths DEF PosterRoutes, On, Kept, Complaining, Platform, Managing, ManagersOnly
  <2> QED
    BY <2>1, <2>2 DEF AllKept
<1>27. AllKept(NotificationsRoutes)
  <2>1. NotificationsRoutes \in Seq(Outward(NotificationsRoutes)) /\ Len(NotificationsRoutes) = 9
    BY DEF NotificationsRoutes, Outward
  <2>2. \A i \in 1..9 : Kept(NotificationsRoutes[i])
    BY Paths DEF NotificationsRoutes, On, Kept, Complaining, Platform, Managing, ManagersOnly
  <2> QED
    BY <2>1, <2>2 DEF AllKept
<1>28. AllKept(DashboardRoutes)
  <2>1. DashboardRoutes \in Seq(Outward(DashboardRoutes)) /\ Len(DashboardRoutes) = 5
    BY DEF DashboardRoutes, Outward
  <2>2. \A i \in 1..5 : Kept(DashboardRoutes[i])
    BY Paths DEF DashboardRoutes, On, Kept, Complaining, Platform, Managing, ManagersOnly
  <2> QED
    BY <2>1, <2>2 DEF AllKept
<1>29. AllKept(AnalyticsRoutes)
  <2>1. AnalyticsRoutes \in Seq(Outward(AnalyticsRoutes)) /\ Len(AnalyticsRoutes) = 3
    BY DEF AnalyticsRoutes, Outward
  <2>2. \A i \in 1..3 : Kept(AnalyticsRoutes[i])
    BY Paths DEF AnalyticsRoutes, On, Kept, Complaining, Platform, Managing, ManagersOnly
  <2> QED
    BY <2>1, <2>2 DEF AllKept
<1>30. AllKept(ReportsRoutes)
  <2>1. ReportsRoutes \in Seq(Outward(ReportsRoutes)) /\ Len(ReportsRoutes) = 6
    BY DEF ReportsRoutes, Outward
  <2>2. \A i \in 1..6 : Kept(ReportsRoutes[i])
    BY Paths DEF ReportsRoutes, On, Kept, Complaining, Platform, Managing, ManagersOnly
  <2> QED
    BY <2>1, <2>2 DEF AllKept
<1>31. AllKept(AlertsRoutes)
  <2>1. AlertsRoutes \in Seq(Outward(AlertsRoutes)) /\ Len(AlertsRoutes) = 3
    BY DEF AlertsRoutes, Outward
  <2>2. \A i \in 1..3 : Kept(AlertsRoutes[i])
    BY Paths DEF AlertsRoutes, On, Kept, Complaining, Platform, Managing, ManagersOnly
  <2> QED
    BY <2>1, <2>2 DEF AllKept
<1>32. AllKept(AuditLogsRoutes)
  <2>1. AuditLogsRoutes \in Seq(Outward(AuditLogsRoutes)) /\ Len(AuditLogsRoutes) = 4
    BY DEF AuditLogsRoutes, Outward
  <2>2. \A i \in 1..4 : Kept(AuditLogsRoutes[i])
    BY Paths DEF AuditLogsRoutes, On, Kept, Complaining, Platform, Managing, ManagersOnly
  <2> QED
    BY <2>1, <2>2 DEF AllKept
<1>33. AllKept(WebhooksRoutes)
  <2>1. WebhooksRoutes \in Seq(Outward(WebhooksRoutes)) /\ Len(WebhooksRoutes) = 4
    BY DEF WebhooksRoutes, Outward
  <2>2. \A i \in 1..4 : Kept(WebhooksRoutes[i])
    BY Paths DEF WebhooksRoutes, On, Kept, Complaining, Platform, Managing, ManagersOnly
  <2> QED
    BY <2>1, <2>2 DEF AllKept
<1>34. AllKept(ActivitiesRoutes)
  <2>1. ActivitiesRoutes \in Seq(Outward(ActivitiesRoutes)) /\ Len(ActivitiesRoutes) = 10
    BY DEF ActivitiesRoutes, Outward
  <2>2. \A i \in 1..10 : Kept(ActivitiesRoutes[i])
    BY Paths DEF ActivitiesRoutes, On, Kept, Complaining, Platform, Managing, ManagersOnly
  <2> QED
    BY <2>1, <2>2 DEF AllKept
<1>35. AllKept(TasksRoutes)
  <2>1. TasksRoutes \in Seq(Outward(TasksRoutes)) /\ Len(TasksRoutes) = 9
    BY DEF TasksRoutes, Outward
  <2>2. \A i \in 1..9 : Kept(TasksRoutes[i])
    BY Paths DEF TasksRoutes, On, Kept, Complaining, Platform, Managing, ManagersOnly
  <2> QED
    BY <2>1, <2>2 DEF AllKept
<1>36. AllKept(SubscriptionsRoutes)
  <2>1. SubscriptionsRoutes \in Seq(Outward(SubscriptionsRoutes)) /\ Len(SubscriptionsRoutes) = 4
    BY DEF SubscriptionsRoutes, Outward
  <2>2. \A i \in 1..4 : Kept(SubscriptionsRoutes[i])
    BY Paths DEF SubscriptionsRoutes, On, Kept, Complaining, Platform, Managing, ManagersOnly
  <2> QED
    BY <2>1, <2>2 DEF AllKept
<1> QED
  BY <1>1, <1>2, <1>3, <1>4, <1>5, <1>6, <1>7, <1>8, <1>9, <1>10, <1>11, <1>12, <1>13, <1>14,
     <1>15, <1>16, <1>17, <1>18, <1>19, <1>20, <1>21, <1>22, <1>23, <1>24, <1>25, <1>26, <1>27,
     <1>28, <1>29, <1>30, <1>31, <1>32, <1>33, <1>34, <1>35, <1>36

LEMMA RouterKept == AllKept(Router)
<1> DEFINE r1 == HealthRoutes \o AuthRoutes \o UsersRoutes \o OrganizationsRoutes \o ElectionsRoutes
                 \o PositionsRoutes
           r2 == r1 \o ConstituenciesRoutes \o BoothsRoutes \o CandidatesRoutes \o TeamRoutes \o
                 VotersRoutes \o BroadcastRoutes
           r3 == r2 \o ComplaintsRoutes \o ExpensesRoutes \o VolunteerVotersRoutes \o ImportsRoutes
                 \o PollingStationsRoutes \o VolunteersRoutes
           r4 == r3 \o DataCollectionRoutes \o CheckinRoutes \o VotingRoutes \o ResultsRoutes \o
                 TemplatesRoutes \o BannersRoutes
           r5 == r4 \o DesignTemplatesRoutes \o PosterRoutes \o NotificationsRoutes \o
                 DashboardRoutes \o AnalyticsRoutes \o ReportsRoutes
           r6 == r5 \o AlertsRoutes \o AuditLogsRoutes \o WebhooksRoutes \o ActivitiesRoutes \o
                 TasksRoutes \o SubscriptionsRoutes
<1>1. AllKept(r1)
  BY FilesKept, KeptTogether
<1> HIDE DEF r1
<1>2. AllKept(r2)
  BY <1>1, FilesKept, KeptTogether
<1> HIDE DEF r2
<1>3. AllKept(r3)
  BY <1>2, FilesKept, KeptTogether
<1> HIDE DEF r3
<1>4. AllKept(r4)
  BY <1>3, FilesKept, KeptTogether
<1> HIDE DEF r4
<1>5. AllKept(r5)
  BY <1>4, FilesKept, KeptTogether
<1> HIDE DEF r5
<1>6. AllKept(r6)
  BY <1>5, FilesKept, KeptTogether
<1> HIDE DEF r6
<1> QED
  BY <1>6 DEF Router, r1, r2, r3, r4, r5, r6

\* A set of numbers that is not empty has a least one.
LEMMA LeastOf == \A S \in SUBSET Nat : S # {} => \E m \in S : \A j \in S : m <= j
<1> SUFFICES ASSUME NEW S \in SUBSET Nat, S # {} PROVE \E m \in S : \A j \in S : m <= j
  OBVIOUS
<1>1. PICK m \in S : \A j \in S : <<j, m>> \notin OpToRel(<, Nat)
  BY NatLessThanWellFounded, WFMin
<1>2. \A j \in S : j < m => <<j, m>> \in OpToRel(<, Nat)
  BY DEF OpToRel
<1>3. \A j \in S : j \in Nat /\ m \in Nat /\ ~(j < m)
  BY <1>1, <1>2
<1> QED
  BY <1>3

\* A route matches what it was written for.
LEMMA MatchesItself ==
  ASSUME NEW r, IsPath(r.path)
  PROVE  Matches(Asked(r), r)
<1>1. r.path \in Seq(Outward(r.path))
  BY DEF IsPath
<1>2. DOMAIN r.path = 1..Len(r.path) /\ Len(r.path) \in Nat
  BY <1>1
<1>3. /\ Asked(r).method = r.method
      /\ Asked(r).path = [k \in 1..Len(r.path) |-> IF r.path[k] = "*" THEN "x" ELSE r.path[k]]
  BY <1>2 DEF Asked
<1>4. Len(Asked(r).path) = Len(r.path)
  BY <1>2, <1>3
<1> QED
  BY <1>2, <1>3, <1>4 DEF Matches

\* A request is answered by a route, and that has its guard.
LEMMA AnsweringKept == \A i \in DOMAIN Router : Kept(Answers[i])
<1>1. /\ DOMAIN Router = 1..Len(Router) /\ Len(Router) \in Nat
      /\ \A i \in DOMAIN Router : Kept(Router[i])
  BY RouterKept DEF AllKept
<1> SUFFICES ASSUME NEW i \in DOMAIN Router PROVE Kept(Answers[i])
  OBVIOUS
<1> DEFINE r == Router[i]
           matching == {j \in DOMAIN Router : Matches(Asked(r), Router[j])}
<1>2. Matches(Asked(r), r)
  BY <1>1, MatchesItself DEF Kept
<1>3. i \in matching /\ matching \subseteq Nat
  BY <1>1, <1>2
<1>4. \E m \in matching : \A j \in matching : m <= j
  BY <1>3, LeastOf
<1>5. Min(matching) \in matching
  BY <1>4, Zenon DEF Min
<1>6. Answers[i] = Router[Min(matching)]
  BY DEF Answers, AnsweredBy
<1> QED
  BY <1>1, <1>5, <1>6

-----------------------------------------------------------------------------
\* Whom a guard may let in, by the role.
MayPass(needs, role) ==
  \/ needs.kind \in {"anyone", "user"}
  \/ needs.kind = "notsuper" /\ role # "SUPER_ADMIN"
  \/ needs.kind # "notsuper" /\ role = "SUPER_ADMIN"
  \/ needs.kind = "roles" /\ role \in needs.of
  \/ needs.kind = "permission" /\ needs.of \subseteq DefaultRolePermissions[role]

\* A route that has its guard keeps those from it to whom it is prohibited.
LEMMA GuardsProhibit ==
  ASSUME NEW x, Kept(x), NEW role \in {"SUPER_ADMIN", "ADMIN", "VOLUNTEER"}, MayPass(x.needs, role)
  PROVE  x.handler \notin Prohibited[role]
<1>1. role = "SUPER_ADMIN" => x.handler \notin Complaining
  BY DEF Kept, MayPass, NotSuper
<1>2. role # "SUPER_ADMIN" => x.handler \notin Platform
  BY DEF Kept, MayPass, Super, SuperRole, Permit, DefaultRolePermissions,
         AdminPermissions, VolunteerPermissions
<1>3. role = "VOLUNTEER" => x.handler \notin Managing
  <2> SUFFICES ASSUME role = "VOLUNTEER", x.handler \in Managing PROVE FALSE
    OBVIOUS
  <2>1. ~MayPass(Roles(Managers), "VOLUNTEER")
    BY DEF MayPass, Roles, Managers
  <2>2. \A p \in ManagersOnly : ~MayPass(Permit(p), "VOLUNTEER")
    BY DEF MayPass, Permit, ManagersOnly, DefaultRolePermissions, VolunteerPermissions
  <2> QED
    BY <2>1, <2>2 DEF Kept
<1>4. /\ Prohibited["SUPER_ADMIN"] = Complaining /\ Prohibited["ADMIN"] = Platform
      /\ Prohibited["VOLUNTEER"] \subseteq Managing \cup Platform
  BY DEF Prohibited, Complaining, Platform, Managing
<1> QED
  BY <1>1, <1>2, <1>3, <1>4

\* Whoever has been admitted has a role that may pass the guard, whatever has
\* become of the account since.
AccessInv ==
  /\ account \in [People -> {"none", "active", "inactive"}]
  /\ request \in [by : People \cup {None}, route : Nat, step : {"none", "admitted", "refused", "served"}]
  /\ request.step \in {"admitted", "served"} =>
       /\ request.by \in People /\ request.route \in DOMAIN Router
       /\ MayPass(Answers[request.route].needs, RoleOf[request.by])

LEMMA AdmitsMayPass ==
  ASSUME NEW needs, NEW u, Admits(needs, u)
  PROVE  MayPass(needs, RoleOf[u])
BY DEF Admits, MayPass, IsSuper, Granted

LEMMA EffectTyped ==
  ASSUME account \in [People -> {"none", "active", "inactive"}],
         NEW handler, NEW v \in People, Effect(handler, v)
  PROVE  account' \in [People -> {"none", "active", "inactive"}]
BY DEF Effect

LEMMA AccessNextInv ==
  ASSUME AccessInv, Next
  PROVE  AccessInv'
<1>0. DOMAIN Router \subseteq Nat
  BY RouterKept DEF AllKept
<1>1. CASE Seed
  BY <1>1 DEF Seed, AccessInv
<1>2. ASSUME NEW u \in People, NEW i \in DOMAIN Router, Ask(u, i)
      PROVE  AccessInv'
  BY <1>0, <1>2, AdmitsMayPass DEF Ask, AccessInv
<1>3. ASSUME NEW u \in People, NEW v \in People, NEW i \in AccountRoutes, Meanwhile(u, i, v)
      PROVE  AccessInv'
  BY <1>3, EffectTyped DEF Meanwhile, AccessInv
<1>4. CASE Serve
  BY <1>4, EffectTyped DEF Serve, AccessInv
<1>5. CASE Decline
  BY <1>5 DEF Decline, AccessInv
<1>6. CASE Done
  BY <1>6 DEF Done, NoRequest, AccessInv
<1> QED
  BY <1>1, <1>2, <1>3, <1>4, <1>5, <1>6 DEF Next

LEMMA AccessInitInv == Init => AccessInv
BY DEF Init, NoRequest, AccessInv

LEMMA AccessInvProhibits ==
  ASSUME AccessInv, AccessAssumption
  PROVE  ProhibitionsKept
<1> SUFFICES ASSUME request.step \in {"admitted", "served"}
             PROVE  Answers[request.route].handler \notin Prohibited[RoleOf[request.by]]
  BY DEF AccessInv, ProhibitionsKept
<1>1. RoleOf[request.by] \in {"SUPER_ADMIN", "ADMIN", "VOLUNTEER"}
  BY DEF AccessInv, AccessAssumption
<1> QED
  BY <1>1, AnsweringKept, GuardsProhibit DEF AccessInv

-----------------------------------------------------------------------------
LEMMA AccessStepOfOffice ==
  ASSUME AccessInv, [OfficeNext]_all
  PROVE  AccessInv'
<1>1. CASE AccessSteps
  BY <1>1, AccessNextInv DEF AccessSteps
<1>2. CASE DeskSteps \/ BudgetSteps \/ OutreachSteps \/ RateLimiterSteps \/ UNCHANGED all
  <2>1. access' = access
    BY <1>2 DEF DeskSteps, BudgetSteps, OutreachSteps, RateLimiterSteps, all
  <2> QED
    BY <2>1 DEF access, vars, AccessInv
<1> QED
  BY <1>1, <1>2 DEF OfficeNext

\* Nobody is admitted to what the role forbids, for any number of people,
\* whatever becomes of accounts while a request is under way and whether the
\* default permissions are seeded or not (core/dependencies.py,
\* core/permissions.py, api/v1/router.py).
THEOREM OfficeProhibitionsKept == OfficeSpec => []ProhibitionsKept
<1>1. AccessAssumption
  BY OfficeAssumption
<1>2. OfficeInit => AccessInv
  BY AccessInitInv DEF OfficeInit
<1>3. AccessInv /\ [OfficeNext]_all => AccessInv'
  BY AccessStepOfOffice
<1>4. AccessInv => ProhibitionsKept
  BY <1>1, AccessInvProhibits
<1> QED
  BY <1>2, <1>3, <1>4, PTL DEF OfficeSpec

-----------------------------------------------------------------------------
(***************************************************************************)
(* Every request that is served is answered by the handler of the route it *)
(* was written for, but for two: within a file no earlier route takes what *)
(* a later one was written for, and no two files begin their paths with    *)
(* the same segment, but for the list of volunteers, which two of them do. *)
(***************************************************************************)
\* Whether what is asked of r, with "x" for its parameters, is seen by s.
Sees(s, r, k) == k <= Len(r.path) => s.path[k] \in {r.path[k], "*", "x"}

Shadows(s, r) ==
  /\ s.method = r.method /\ Len(s.path) = Len(r.path)
  /\ Sees(s, r, 1) /\ Sees(s, r, 2) /\ Sees(s, r, 3) /\ Sees(s, r, 4)

\* s may come before r.
Orderly(s, r) == Shadows(s, r) => s.handler = r.handler \/ r.handler \in Hidden

\* A route by its method and the length of its path, and by a segment of it.
Asks(r, method, n) == r.method = method /\ Len(r.path) = n
Names(r, k, w) == k \in 1..4 /\ k <= Len(r.path) /\ r.path[k] = w

LEMMA Unlike ==
  \A s, r, a, b, m, n : Asks(s, a, m) /\ Asks(r, b, n) /\ (a # b \/ m # n) => Orderly(s, r)
BY DEF Asks, Orderly, Shadows

LEMMA Apart ==
  \A s, r, k, a, b : Names(s, k, a) /\ Names(r, k, b) /\ a \notin {b, "*", "x"} => Orderly(s, r)
BY DEF Names, Orderly, Shadows, Sees


\* The file whose paths begin with a segment.
Place(w) ==
  CASE w = "health" -> 1
    [] w = "auth" -> 2
    [] w = "users" -> 3
    [] w = "organizations" -> 4
    [] w = "elections" -> 5
    [] w = "positions" -> 6
    [] w = "constituencies" -> 7
    [] w = "geography" -> 8
    [] w = "candidates" -> 9
    [] w \in {"team", "booths"} -> 10
    [] w = "voters" -> 11
    [] w = "broadcast" -> 12
    [] w = "complaints" -> 13
    [] w = "expenses" -> 14
    [] w = "volunteer-voters" -> 15
    [] w = "imports" -> 16
    [] w = "polling-stations" -> 17
    [] w = "volunteers" -> 18
    [] w = "data" -> 19
    [] w = "checkin" -> 20
    [] w = "voting" -> 21
    [] w = "results" -> 22
    [] w = "templates" -> 23
    [] w = "banners" -> 24
    [] w = "design-templates" -> 25
    [] w = "posters" -> 26
    [] w = "notifications" -> 27
    [] w = "dashboard" -> 28
    [] w = "analytics" -> 29
    [] w = "reports" -> 30
    [] w = "alerts" -> 31
    [] w \in {"audit", "audit-logs", "security-events"} -> 32
    [] w = "webhooks" -> 33
    [] w \in {"field-activities", "attendance"} -> 34
    [] w = "tasks" -> 35
    [] w = "subscriptions" -> 36

LEMMA Places ==
  /\ Place("health") = 1 /\ Place("auth") = 2 /\ Place("users") = 3
  /\ Place("organizations") = 4 /\ Place("elections") = 5 /\ Place("positions") = 6
  /\ Place("constituencies") = 7 /\ Place("geography") = 8 /\ Place("candidates") = 9
  /\ Place("team") = 10 /\ Place("booths") = 10 /\ Place("voters") = 11
  /\ Place("broadcast") = 12 /\ Place("complaints") = 13 /\ Place("expenses") = 14
  /\ Place("volunteer-voters") = 15 /\ Place("imports") = 16 /\ Place("polling-stations") = 17
  /\ Place("volunteers") = 18 /\ Place("data") = 19 /\ Place("checkin") = 20
  /\ Place("voting") = 21 /\ Place("results") = 22 /\ Place("templates") = 23
  /\ Place("banners") = 24 /\ Place("design-templates") = 25 /\ Place("posters") = 26
  /\ Place("notifications") = 27 /\ Place("dashboard") = 28 /\ Place("analytics") = 29
  /\ Place("reports") = 30 /\ Place("alerts") = 31 /\ Place("audit") = 32
  /\ Place("audit-logs") = 32 /\ Place("security-events") = 32 /\ Place("webhooks") = 33
  /\ Place("field-activities") = 34 /\ Place("attendance") = 34 /\ Place("tasks") = 35
  /\ Place("subscriptions") = 36
BY SMTT(60) DEF Place

\* The list of volunteers, which belongs to both team.py and volunteers.py,
\* goes to the one that comes first.
IsList(x) == x.path[1] = "volunteers" /\ Asks(x, "GET", 1)
FileOf(x) == IF IsList(x) THEN 10 ELSE Place(x.path[1])

Rooted(x) == Len(x.path) \in 1..4 /\ x.path[1] \notin {"*", "x"}

LEMMA PlainRoute ==
  \A x, w : Len(x.path) \in 1..4 /\ x.path[1] = w /\ w \notin {"*", "x", "volunteers"} =>
              Rooted(x) /\ FileOf(x) = Place(w)
BY DEF Rooted, FileOf, IsList

LEMMA SameFile == \A s, r : Rooted(s) /\ Rooted(r) /\ Shadows(s, r) => FileOf(s) = FileOf(r)
BY DEF Rooted, Shadows, Sees, FileOf, IsList, Asks

\* Routes in an order in which each is answered.
InTurn(G) == \A i, j \in 1..Len(G) : j < i => Orderly(G[j], G[i])

\* Those of a file, and those of the files up to it.
Alone(G, n) ==
  /\ InTurn(G)
  /\ \A i \in 1..Len(G) :
       /\ Rooted(G[i])
       /\ FileOf(G[i]) = n \/ (FileOf(G[i]) \in 1..n /\ G[i].handler \in Hidden)

Upto(G, n) ==
  /\ InTurn(G)
  /\ \A i \in 1..Len(G) : Rooted(G[i]) /\ FileOf(G[i]) \in 1..n

\* Another file may come after those that are there.
LEMMA TurnsTogether ==
  ASSUME NEW s, NEW t, AllKept(s), AllKept(t), NEW n \in Nat, Upto(s, n), Alone(t, n + 1)
  PROVE  Upto(s \o t, n + 1)
<1> DEFINE both == Outward(s) \cup Outward(t)
<1>1. s \in Seq(both) /\ t \in Seq(both)
  BY DEF AllKept
<1>0. Len(s) \in Nat /\ Len(t) \in Nat
  BY <1>1
<1>2. /\ Len(s \o t) = Len(s) + Len(t)
      /\ \A i \in 1..Len(s) : (s \o t)[i] = s[i]
      /\ \A i \in Len(s)+1..Len(s)+Len(t) : (s \o t)[i] = t[i - Len(s)]
  BY <1>1
<1>3. \A i \in 1..Len(s) : Rooted(s[i]) /\ FileOf(s[i]) \in 1..n
  BY DEF Upto
<1>4. \A i \in 1..Len(t) :
        /\ Rooted(t[i]) /\ FileOf(t[i]) \in 1..n + 1
        /\ FileOf(t[i]) = n + 1 \/ t[i].handler \in Hidden
  BY DEF Alone
<1>5. \A i \in 1..Len(s), j \in 1..Len(t) : Orderly(s[i], t[j])
  <2> TAKE i \in 1..Len(s), j \in 1..Len(t)
  <2>1. CASE t[j].handler \in Hidden
    BY <2>1 DEF Orderly
  <2>2. CASE FileOf(t[j]) = n + 1
    <3>1. FileOf(s[i]) # FileOf(t[j])
      BY <1>3, <2>2
    <3> QED
      BY <1>3, <1>4, <3>1, SameFile DEF Orderly
  <2> QED
    BY <1>4, <2>1, <2>2
<1>6. \A i \in Len(s)+1..Len(s)+Len(t) : i - Len(s) \in 1..Len(t)
  BY <1>0
<1>7. ASSUME NEW i \in 1..Len(s) + Len(t), NEW j \in 1..Len(s) + Len(t), j < i
      PROVE  Orderly((s \o t)[j], (s \o t)[i])
  <2>1. CASE i <= Len(s)
    <3>1. i \in 1..Len(s) /\ j \in 1..Len(s)
      BY <1>0, <1>7, <2>1
    <3> QED
      BY <1>2, <1>7, <3>1 DEF Upto, InTurn
  <2>2. CASE i > Len(s) /\ j <= Len(s)
    <3>1. i \in Len(s)+1..Len(s)+Len(t) /\ j \in 1..Len(s)
      BY <1>0, <2>2
    <3> QED
      BY <1>2, <1>5, <1>6, <3>1
  <2>3. CASE j > Len(s)
    <3>1. /\ i \in Len(s)+1..Len(s)+Len(t) /\ j \in Len(s)+1..Len(s)+Len(t)
          /\ j - Len(s) < i - Len(s)
      BY <1>0, <1>7, <2>3
    <3> QED
      BY <1>2, <1>6, <3>1 DEF Alone, InTurn
  <2>4. i <= Len(s) \/ (i > Len(s) /\ j <= Len(s)) \/ j > Len(s)
    BY <1>0
  <2> QED
    BY <2>1, <2>2, <2>3, <2>4
<1>8. ASSUME NEW i \in 1..Len(s) + Len(t)
      PROVE  Rooted((s \o t)[i]) /\ FileOf((s \o t)[i]) \in 1..n + 1
  <2>1. CASE i <= Len(s)
    BY <1>2, <1>3, <2>1
  <2>2. CASE i > Len(s)
    <3>1. i \in Len(s)+1..Len(s)+Len(t)
      BY <1>0, <2>2
    <3> QED
      BY <1>2, <1>4, <1>6, <3>1
  <2> QED
    BY <1>0, <2>1, <2>2
<1> QED
  BY <1>2, <1>7, <1>8 DEF Upto, InTurn

LEMMA AuthInTurn == InTurn(AuthRoutes)
<1> SUFFICES ASSUME NEW i \in 1..15, NEW j \in 1..15, j < i
             PROVE  Orderly(AuthRoutes[j], AuthRoutes[i])
  <2>1. Len(AuthRoutes) = 15
    BY DEF AuthRoutes
  <2> QED
    BY <2>1 DEF InTurn
<1>1. \A k \in {1, 2, 3, 9, 10, 11, 12, 15} : Asks(AuthRoutes[k], "POST", 2)
  BY SMTT(40) DEF AuthRoutes, On, Asks
<1>2. \A k \in {4, 5, 6, 7, 8, 13, 14} : Asks(AuthRoutes[k], "POST", 3)
  BY SMTT(40) DEF AuthRoutes, On, Asks
<1>3. \A k \in {1, 6, 7} : Names(AuthRoutes[k], 2, "login")
  BY SMTT(40) DEF AuthRoutes, On, Names
<1>4. \A k \in {2, 4, 5} : Names(AuthRoutes[k], 2, "signup")
  BY SMTT(40) DEF AuthRoutes, On, Names
<1>5. \A k \in {3} : Names(AuthRoutes[k], 2, "register")
  BY SMTT(40) DEF AuthRoutes, On, Names
<1>6. \A k \in {8, 9} : Names(AuthRoutes[k], 2, "forgot-password")
  BY SMTT(40) DEF AuthRoutes, On, Names
<1>7. \A k \in {10} : Names(AuthRoutes[k], 2, "reset-password")
  BY SMTT(40) DEF AuthRoutes, On, Names
<1>8. \A k \in {11} : Names(AuthRoutes[k], 2, "refresh")
  BY SMTT(40) DEF AuthRoutes, On, Names
<1>9. \A k \in {12} : Names(AuthRoutes[k], 2, "logout")
  BY SMTT(40) DEF AuthRoutes, On, Names
<1>10. \A k \in {13, 14} : Names(AuthRoutes[k], 2, "mfa")
  BY SMTT(40) DEF AuthRoutes, On, Names
<1>11. \A k \in {15} : Names(AuthRoutes[k], 2, "google")
  BY SMTT(40) DEF AuthRoutes, On, Names
<1>12. \A k \in {4, 6} : Names(AuthRoutes[k], 3, "request-otp")
  BY SMTT(40) DEF AuthRoutes, On, Names
<1>13. \A k \in {5, 7} : Names(AuthRoutes[k], 3, "verify-otp")
  BY SMTT(40) DEF AuthRoutes, On, Names
<1>14. \A k \in {13} : Names(AuthRoutes[k], 3, "setup")
  BY SMTT(40) DEF AuthRoutes, On, Names
<1>15. \A k \in {14} : Names(AuthRoutes[k], 3, "confirm")
  BY SMTT(40) DEF AuthRoutes, On, Names
<1>16. Orderly(AuthRoutes[2], AuthRoutes[3])
  BY DEF AuthRoutes, On, Orderly
<1> QED
  BY <1>1, <1>2, <1>3, <1>4, <1>5, <1>6, <1>7, <1>8, <1>9, <1>10, <1>11, <1>12, <1>13, <1>14, <1>15, <1>16,
     Unlike, Apart

LEMMA UsersInTurn == InTurn(UsersRoutes)
<1> SUFFICES ASSUME NEW i \in 1..9, NEW j \in 1..9, j < i
             PROVE  Orderly(UsersRoutes[j], UsersRoutes[i])
  <2>1. Len(UsersRoutes) = 9
    BY DEF UsersRoutes
  <2> QED
    BY <2>1 DEF InTurn
<1>1. \A k \in {1, 6} : Asks(UsersRoutes[k], "GET", 2)
  BY SMTT(40) DEF UsersRoutes, On, Asks
<1>2. \A k \in {2} : Asks(UsersRoutes[k], "GET", 1)
  BY SMTT(40) DEF UsersRoutes, On, Asks
<1>3. \A k \in {3} : Asks(UsersRoutes[k], "POST", 1)
  BY SMTT(40) DEF UsersRoutes, On, Asks
<1>4. \A k \in {4, 5} : Asks(UsersRoutes[k], "GET", 3)
  BY SMTT(40) DEF UsersRoutes, On, Asks
<1>5. \A k \in {7} : Asks(UsersRoutes[k], "PUT", 2)
  BY SMTT(40) DEF UsersRoutes, On, Asks
<1>6. \A k \in {8} : Asks(UsersRoutes[k], "DELETE", 2)
  BY SMTT(40) DEF UsersRoutes, On, Asks
<1>7. \A k \in {9} : Asks(UsersRoutes[k], "DELETE", 3)
  BY SMTT(40) DEF UsersRoutes, On, Asks
<1>8. \A k, m \in {1, 6} : m < k => Orderly(UsersRoutes[m], UsersRoutes[k])
  BY SMTT(40) DEF UsersRoutes, On, Orderly, Shadows, Sees
<1>9. \A k, m \in {4, 5} : m < k => Orderly(UsersRoutes[m], UsersRoutes[k])
  BY SMTT(40) DEF UsersRoutes, On, Orderly, Shadows, Sees
<1> QED
  BY <1>1, <1>2, <1>3, <1>4, <1>5, <1>6, <1>7, <1>8, <1>9, Unlike

LEMMA ElectionsInTurn == InTurn(ElectionsRoutes)
<1> SUFFICES ASSUME NEW i \in 1..6, NEW j \in 1..6, j < i
             PROVE  Orderly(ElectionsRoutes[j], ElectionsRoutes[i])
  <2>1. Len(ElectionsRoutes) = 6
    BY DEF ElectionsRoutes
  <2> QED
    BY <2>1 DEF InTurn
<1>1. \A k \in {1} : Asks(ElectionsRoutes[k], "GET", 1)
  BY SMTT(40) DEF ElectionsRoutes, On, Asks
<1>2. \A k \in {2} : Asks(ElectionsRoutes[k], "POST", 1)
  BY SMTT(40) DEF ElectionsRoutes, On, Asks
<1>3. \A k \in {3} : Asks(ElectionsRoutes[k], "GET", 2)
  BY SMTT(40) DEF ElectionsRoutes, On, Asks
<1>4. \A k \in {4} : Asks(ElectionsRoutes[k], "PUT", 2)
  BY SMTT(40) DEF ElectionsRoutes, On, Asks
<1>5. \A k \in {5} : Asks(ElectionsRoutes[k], "POST", 3)
  BY SMTT(40) DEF ElectionsRoutes, On, Asks
<1>6. \A k \in {6} : Asks(ElectionsRoutes[k], "PUT", 3)
  BY SMTT(40) DEF ElectionsRoutes, On, Asks
<1> QED
  BY <1>1, <1>2, <1>3, <1>4, <1>5, <1>6, Unlike

LEMMA BoothsInTurn == InTurn(BoothsRoutes)
<1> SUFFICES ASSUME NEW i \in 1..8, NEW j \in 1..8, j < i
             PROVE  Orderly(BoothsRoutes[j], BoothsRoutes[i])
  <2>1. Len(BoothsRoutes) = 8
    BY DEF BoothsRoutes
  <2> QED
    BY <2>1 DEF InTurn
<1>1. \A k \in {1, 3, 6} : Asks(BoothsRoutes[k], "POST", 2)
  BY SMTT(40) DEF BoothsRoutes, On, Asks
<1>2. \A k \in {2, 4, 7, 8} : Asks(BoothsRoutes[k], "GET", 2)
  BY SMTT(40) DEF BoothsRoutes, On, Asks
<1>3. \A k \in {5} : Asks(BoothsRoutes[k], "GET", 4)
  BY SMTT(40) DEF BoothsRoutes, On, Asks
<1>4. \A k, m \in {1, 3, 6} : m < k => Orderly(BoothsRoutes[m], BoothsRoutes[k])
  BY SMTT(40) DEF BoothsRoutes, On, Orderly, Shadows, Sees
<1>5. \A k, m \in {2, 4, 7, 8} : m < k => Orderly(BoothsRoutes[m], BoothsRoutes[k])
  BY SMTT(40) DEF BoothsRoutes, On, Orderly, Shadows, Sees
<1> QED
  BY <1>1, <1>2, <1>3, <1>4, <1>5, Unlike

LEMMA BroadcastInTurn == InTurn(BroadcastRoutes)
<1> SUFFICES ASSUME NEW i \in 1..12, NEW j \in 1..12, j < i
             PROVE  Orderly(BroadcastRoutes[j], BroadcastRoutes[i])
  <2>1. Len(BroadcastRoutes) = 12
    BY DEF BroadcastRoutes
  <2> QED
    BY <2>1 DEF InTurn
<1>1. \A k \in {1, 3, 5} : Asks(BroadcastRoutes[k], "GET", 2)
  BY SMTT(40) DEF BroadcastRoutes, On, Asks
<1>2. \A k \in {2, 9, 10} : Asks(BroadcastRoutes[k], "GET", 3)
  BY SMTT(40) DEF BroadcastRoutes, On, Asks
<1>3. \A k \in {4, 6} : Asks(BroadcastRoutes[k], "POST", 2)
  BY SMTT(40) DEF BroadcastRoutes, On, Asks
<1>4. \A k \in {7} : Asks(BroadcastRoutes[k], "PATCH", 4)
  BY SMTT(40) DEF BroadcastRoutes, On, Asks
<1>5. \A k \in {8} : Asks(BroadcastRoutes[k], "POST", 3)
  BY SMTT(40) DEF BroadcastRoutes, On, Asks
<1>6. \A k \in {11, 12} : Asks(BroadcastRoutes[k], "DELETE", 3)
  BY SMTT(40) DEF BroadcastRoutes, On, Asks
<1>7. \A k, m \in {1, 3, 5} : m < k => Orderly(BroadcastRoutes[m], BroadcastRoutes[k])
  BY SMTT(40) DEF BroadcastRoutes, On, Orderly, Shadows, Sees
<1>8. \A k, m \in {2, 9, 10} : m < k => Orderly(BroadcastRoutes[m], BroadcastRoutes[k])
  BY SMTT(40) DEF BroadcastRoutes, On, Orderly, Shadows, Sees
<1>9. \A k, m \in {4, 6} : m < k => Orderly(BroadcastRoutes[m], BroadcastRoutes[k])
  BY SMTT(40) DEF BroadcastRoutes, On, Orderly, Shadows, Sees
<1>10. \A k, m \in {11, 12} : m < k => Orderly(BroadcastRoutes[m], BroadcastRoutes[k])
  BY SMTT(40) DEF BroadcastRoutes, On, Orderly, Shadows, Sees
<1> QED
  BY <1>1, <1>2, <1>3, <1>4, <1>5, <1>6, <1>7, <1>8, <1>9, <1>10, Unlike

LEMMA ComplaintsInTurn == InTurn(ComplaintsRoutes)
<1> SUFFICES ASSUME NEW i \in 1..8, NEW j \in 1..8, j < i
             PROVE  Orderly(ComplaintsRoutes[j], ComplaintsRoutes[i])
  <2>1. Len(ComplaintsRoutes) = 8
    BY DEF ComplaintsRoutes
  <2> QED
    BY <2>1 DEF InTurn
<1>1. \A k \in {1} : Asks(ComplaintsRoutes[k], "GET", 1)
  BY SMTT(40) DEF ComplaintsRoutes, On, Asks
<1>2. \A k \in {2} : Asks(ComplaintsRoutes[k], "GET", 3)
  BY SMTT(40) DEF ComplaintsRoutes, On, Asks
<1>3. \A k \in {3} : Asks(ComplaintsRoutes[k], "POST", 1)
  BY SMTT(40) DEF ComplaintsRoutes, On, Asks
<1>4. \A k \in {4} : Asks(ComplaintsRoutes[k], "POST", 3)
  BY SMTT(40) DEF ComplaintsRoutes, On, Asks
<1>5. \A k \in {5} : Asks(ComplaintsRoutes[k], "PATCH", 3)
  BY SMTT(40) DEF ComplaintsRoutes, On, Asks
<1>6. \A k \in {6} : Asks(ComplaintsRoutes[k], "PUT", 3)
  BY SMTT(40) DEF ComplaintsRoutes, On, Asks
<1>7. \A k \in {7} : Asks(ComplaintsRoutes[k], "PUT", 2)
  BY SMTT(40) DEF ComplaintsRoutes, On, Asks
<1>8. \A k \in {8} : Asks(ComplaintsRoutes[k], "DELETE", 2)
  BY SMTT(40) DEF ComplaintsRoutes, On, Asks
<1> QED
  BY <1>1, <1>2, <1>3, <1>4, <1>5, <1>6, <1>7, <1>8, Unlike

LEMMA ExpensesInTurn == InTurn(ExpensesRoutes)
<1> SUFFICES ASSUME NEW i \in 1..7, NEW j \in 1..7, j < i
             PROVE  Orderly(ExpensesRoutes[j], ExpensesRoutes[i])
  <2>1. Len(ExpensesRoutes) = 7
    BY DEF ExpensesRoutes
  <2> QED
    BY <2>1 DEF InTurn
<1>1. \A k \in {1} : Asks(ExpensesRoutes[k], "GET", 1)
  BY SMTT(40) DEF ExpensesRoutes, On, Asks
<1>2. \A k \in {2} : Asks(ExpensesRoutes[k], "GET", 3)
  BY SMTT(40) DEF ExpensesRoutes, On, Asks
<1>3. \A k \in {3} : Asks(ExpensesRoutes[k], "GET", 4)
  BY SMTT(40) DEF ExpensesRoutes, On, Asks
<1>4. \A k \in {4} : Asks(ExpensesRoutes[k], "POST", 1)
  BY SMTT(40) DEF ExpensesRoutes, On, Asks
<1>5. \A k \in {5} : Asks(ExpensesRoutes[k], "POST", 3)
  BY SMTT(40) DEF ExpensesRoutes, On, Asks
<1>6. \A k \in {6} : Asks(ExpensesRoutes[k], "DELETE", 2)
  BY SMTT(40) DEF ExpensesRoutes, On, Asks
<1>7. \A k \in {7} : Asks(ExpensesRoutes[k], "GET", 2)
  BY SMTT(40) DEF ExpensesRoutes, On, Asks
<1> QED
  BY <1>1, <1>2, <1>3, <1>4, <1>5, <1>6, <1>7, Unlike

LEMMA VolunteersInTurn == InTurn(VolunteersRoutes)
<1> SUFFICES ASSUME NEW i \in 1..13, NEW j \in 1..13, j < i
             PROVE  Orderly(VolunteersRoutes[j], VolunteersRoutes[i])
  <2>1. Len(VolunteersRoutes) = 13
    BY DEF VolunteersRoutes
  <2> QED
    BY <2>1 DEF InTurn
<1>1. \A k \in {1} : Asks(VolunteersRoutes[k], "POST", 1)
  BY SMTT(40) DEF VolunteersRoutes, On, Asks
<1>2. \A k \in {2} : Asks(VolunteersRoutes[k], "GET", 1)
  BY SMTT(40) DEF VolunteersRoutes, On, Asks
<1>3. \A k \in {3, 4} : Asks(VolunteersRoutes[k], "GET", 2)
  BY SMTT(40) DEF VolunteersRoutes, On, Asks
<1>4. \A k \in {5} : Asks(VolunteersRoutes[k], "PATCH", 2)
  BY SMTT(40) DEF VolunteersRoutes, On, Asks
<1>5. \A k \in {6} : Asks(VolunteersRoutes[k], "POST", 3)
  BY SMTT(40) DEF VolunteersRoutes, On, Asks
<1>6. \A k \in {7, 9, 10} : Asks(VolunteersRoutes[k], "GET", 3)
  BY SMTT(40) DEF VolunteersRoutes, On, Asks
<1>7. \A k \in {8, 11} : Asks(VolunteersRoutes[k], "POST", 2)
  BY SMTT(40) DEF VolunteersRoutes, On, Asks
<1>8. \A k \in {12} : Asks(VolunteersRoutes[k], "PATCH", 3)
  BY SMTT(40) DEF VolunteersRoutes, On, Asks
<1>9. \A k \in {13} : Asks(VolunteersRoutes[k], "PUT", 3)
  BY SMTT(40) DEF VolunteersRoutes, On, Asks
<1>10. \A k, m \in {3, 4} : m < k => Orderly(VolunteersRoutes[m], VolunteersRoutes[k])
  BY SMTT(40) DEF VolunteersRoutes, On, Orderly, Shadows, Sees, Hidden
<1>11. Orderly(VolunteersRoutes[7], VolunteersRoutes[9]) /\ Orderly(VolunteersRoutes[7], VolunteersRoutes[10]) /\ Orderly(VolunteersRoutes[9], VolunteersRoutes[10])
  <2>1. Names(VolunteersRoutes[7], 3, "performance")
    BY DEF VolunteersRoutes, On, Names
  <2>2. Names(VolunteersRoutes[9], 3, "list")
    BY DEF VolunteersRoutes, On, Names
  <2>3. Names(VolunteersRoutes[10], 3, "*")
    BY DEF VolunteersRoutes, On, Names
  <2> QED
    BY <2>1, <2>2, <2>3, Apart
<1>12. \A k, m \in {8, 11} : m < k => Orderly(VolunteersRoutes[m], VolunteersRoutes[k])
  BY SMTT(40) DEF VolunteersRoutes, On, Orderly, Shadows, Sees, Hidden
<1> QED
  BY <1>1, <1>2, <1>3, <1>4, <1>5, <1>6, <1>7, <1>8, <1>9, <1>10, <1>11, <1>12, Unlike

LEMMA DataCollectionInTurn == InTurn(DataCollectionRoutes)
<1> SUFFICES ASSUME NEW i \in 1..8, NEW j \in 1..8, j < i
             PROVE  Orderly(DataCollectionRoutes[j], DataCollectionRoutes[i])
  <2>1. Len(DataCollectionRoutes) = 8
    BY DEF DataCollectionRoutes
  <2> QED
    BY <2>1 DEF InTurn
<1>1. \A k \in {1} : Asks(DataCollectionRoutes[k], "POST", 2)
  BY SMTT(40) DEF DataCollectionRoutes, On, Asks
<1>2. \A k \in {2, 6} : Asks(DataCollectionRoutes[k], "GET", 2)
  BY SMTT(40) DEF DataCollectionRoutes, On, Asks
<1>3. \A k \in {3, 8} : Asks(DataCollectionRoutes[k], "GET", 3)
  BY SMTT(40) DEF DataCollectionRoutes, On, Asks
<1>4. \A k \in {4} : Asks(DataCollectionRoutes[k], "POST", 4)
  BY SMTT(40) DEF DataCollectionRoutes, On, Asks
<1>5. \A k \in {5, 7} : Asks(DataCollectionRoutes[k], "POST", 3)
  BY SMTT(40) DEF DataCollectionRoutes, On, Asks
<1>6. \A k, m \in {2, 6} : m < k => Orderly(DataCollectionRoutes[m], DataCollectionRoutes[k])
  BY SMTT(40) DEF DataCollectionRoutes, On, Orderly, Shadows, Sees
<1>7. \A k, m \in {3, 8} : m < k => Orderly(DataCollectionRoutes[m], DataCollectionRoutes[k])
  BY SMTT(40) DEF DataCollectionRoutes, On, Orderly, Shadows, Sees
<1>8. \A k, m \in {5, 7} : m < k => Orderly(DataCollectionRoutes[m], DataCollectionRoutes[k])
  BY SMTT(40) DEF DataCollectionRoutes, On, Orderly, Shadows, Sees
<1> QED
  BY <1>1, <1>2, <1>3, <1>4, <1>5, <1>6, <1>7, <1>8, Unlike

LEMMA TemplatesInTurn == InTurn(TemplatesRoutes)
<1> SUFFICES ASSUME NEW i \in 1..4, NEW j \in 1..4, j < i
             PROVE  Orderly(TemplatesRoutes[j], TemplatesRoutes[i])
  <2>1. Len(TemplatesRoutes) = 4
    BY DEF TemplatesRoutes
  <2> QED
    BY <2>1 DEF InTurn
<1>1. \A k \in {1} : Asks(TemplatesRoutes[k], "POST", 1)
  BY SMTT(40) DEF TemplatesRoutes, On, Asks
<1>2. \A k \in {2} : Asks(TemplatesRoutes[k], "GET", 1)
  BY SMTT(40) DEF TemplatesRoutes, On, Asks
<1>3. \A k \in {3} : Asks(TemplatesRoutes[k], "PATCH", 2)
  BY SMTT(40) DEF TemplatesRoutes, On, Asks
<1>4. \A k \in {4} : Asks(TemplatesRoutes[k], "POST", 2)
  BY SMTT(40) DEF TemplatesRoutes, On, Asks
<1> QED
  BY <1>1, <1>2, <1>3, <1>4, Unlike

LEMMA DesignTemplatesInTurn == InTurn(DesignTemplatesRoutes)
<1> SUFFICES ASSUME NEW i \in 1..12, NEW j \in 1..12, j < i
             PROVE  Orderly(DesignTemplatesRoutes[j], DesignTemplatesRoutes[i])
  <2>1. Len(DesignTemplatesRoutes) = 12
    BY DEF DesignTemplatesRoutes
  <2> QED
    BY <2>1 DEF InTurn
<1>1. \A k \in {1} : Asks(DesignTemplatesRoutes[k], "GET", 1)
  BY SMTT(40) DEF DesignTemplatesRoutes, On, Asks
<1>2. \A k \in {2, 10} : Asks(DesignTemplatesRoutes[k], "GET", 2)
  BY SMTT(40) DEF DesignTemplatesRoutes, On, Asks
<1>3. \A k \in {3} : Asks(DesignTemplatesRoutes[k], "POST", 1)
  BY SMTT(40) DEF DesignTemplatesRoutes, On, Asks
<1>4. \A k \in {4} : Asks(DesignTemplatesRoutes[k], "PUT", 2)
  BY SMTT(40) DEF DesignTemplatesRoutes, On, Asks
<1>5. \A k \in {5} : Asks(DesignTemplatesRoutes[k], "PATCH", 2)
  BY SMTT(40) DEF DesignTemplatesRoutes, On, Asks
<1>6. \A k \in {6} : Asks(DesignTemplatesRoutes[k], "DELETE", 2)
  BY SMTT(40) DEF DesignTemplatesRoutes, On, Asks
<1>7. \A k \in {7, 8} : Asks(DesignTemplatesRoutes[k], "POST", 2)
  BY SMTT(40) DEF DesignTemplatesRoutes, On, Asks
<1>8. \A k \in {9} : Asks(DesignTemplatesRoutes[k], "GET", 3)
  BY SMTT(40) DEF DesignTemplatesRoutes, On, Asks
<1>9. \A k \in {11} : Asks(DesignTemplatesRoutes[k], "POST", 4)
  BY SMTT(40) DEF DesignTemplatesRoutes, On, Asks
<1>10. \A k \in {12} : Asks(DesignTemplatesRoutes[k], "DELETE", 3)
  BY SMTT(40) DEF DesignTemplatesRoutes, On, Asks
<1>11. \A k, m \in {2, 10} : m < k => Orderly(DesignTemplatesRoutes[m], DesignTemplatesRoutes[k])
  BY SMTT(40) DEF DesignTemplatesRoutes, On, Orderly, Shadows, Sees, Hidden
<1>12. \A k, m \in {7, 8} : m < k => Orderly(DesignTemplatesRoutes[m], DesignTemplatesRoutes[k])
  BY SMTT(40) DEF DesignTemplatesRoutes, On, Orderly, Shadows, Sees, Hidden
<1> QED
  BY <1>1, <1>2, <1>3, <1>4, <1>5, <1>6, <1>7, <1>8, <1>9, <1>10, <1>11, <1>12, Unlike

LEMMA ReportsInTurn == InTurn(ReportsRoutes)
<1> SUFFICES ASSUME NEW i \in 1..6, NEW j \in 1..6, j < i
             PROVE  Orderly(ReportsRoutes[j], ReportsRoutes[i])
  <2>1. Len(ReportsRoutes) = 6
    BY DEF ReportsRoutes
  <2> QED
    BY <2>1 DEF InTurn
<1>1. \A k \in {1, 3, 6} : Asks(ReportsRoutes[k], "GET", 2)
  BY SMTT(40) DEF ReportsRoutes, On, Asks
<1>2. \A k \in {2, 4} : Asks(ReportsRoutes[k], "GET", 4)
  BY SMTT(40) DEF ReportsRoutes, On, Asks
<1>3. \A k \in {5} : Asks(ReportsRoutes[k], "GET", 3)
  BY SMTT(40) DEF ReportsRoutes, On, Asks
<1>4. \A k, m \in {1, 3, 6} : m < k => Orderly(ReportsRoutes[m], ReportsRoutes[k])
  BY SMTT(40) DEF ReportsRoutes, On, Orderly, Shadows, Sees
<1>5. \A k, m \in {2, 4} : m < k => Orderly(ReportsRoutes[m], ReportsRoutes[k])
  BY SMTT(40) DEF ReportsRoutes, On, Orderly, Shadows, Sees
<1> QED
  BY <1>1, <1>2, <1>3, <1>4, <1>5, Unlike

LEMMA AuditLogsInTurn == InTurn(AuditLogsRoutes)
<1> SUFFICES ASSUME NEW i \in 1..4, NEW j \in 1..4, j < i
             PROVE  Orderly(AuditLogsRoutes[j], AuditLogsRoutes[i])
  <2>1. Len(AuditLogsRoutes) = 4
    BY DEF AuditLogsRoutes
  <2> QED
    BY <2>1 DEF InTurn
<1>1. \A k \in {1, 4} : Asks(AuditLogsRoutes[k], "GET", 2)
  BY SMTT(40) DEF AuditLogsRoutes, On, Asks
<1>2. \A k \in {2, 3} : Asks(AuditLogsRoutes[k], "GET", 1)
  BY SMTT(40) DEF AuditLogsRoutes, On, Asks
<1>3. \A k, m \in {1, 4} : m < k => Orderly(AuditLogsRoutes[m], AuditLogsRoutes[k])
  BY SMTT(40) DEF AuditLogsRoutes, On, Orderly, Shadows, Sees
<1>4. \A k, m \in {2, 3} : m < k => Orderly(AuditLogsRoutes[m], AuditLogsRoutes[k])
  BY SMTT(40) DEF AuditLogsRoutes, On, Orderly, Shadows, Sees
<1> QED
  BY <1>1, <1>2, <1>3, <1>4, Unlike

LEMMA ActivitiesInTurn == InTurn(ActivitiesRoutes)
<1> SUFFICES ASSUME NEW i \in 1..10, NEW j \in 1..10, j < i
             PROVE  Orderly(ActivitiesRoutes[j], ActivitiesRoutes[i])
  <2>1. Len(ActivitiesRoutes) = 10
    BY DEF ActivitiesRoutes
  <2> QED
    BY <2>1 DEF InTurn
<1>1. \A k \in {1, 9} : Asks(ActivitiesRoutes[k], "GET", 1)
  BY SMTT(40) DEF ActivitiesRoutes, On, Asks
<1>2. \A k \in {2, 10} : Asks(ActivitiesRoutes[k], "POST", 2)
  BY SMTT(40) DEF ActivitiesRoutes, On, Asks
<1>3. \A k \in {3} : Asks(ActivitiesRoutes[k], "POST", 1)
  BY SMTT(40) DEF ActivitiesRoutes, On, Asks
<1>4. \A k \in {4} : Asks(ActivitiesRoutes[k], "PATCH", 3)
  BY SMTT(40) DEF ActivitiesRoutes, On, Asks
<1>5. \A k \in {5, 7, 8} : Asks(ActivitiesRoutes[k], "PUT", 3)
  BY SMTT(40) DEF ActivitiesRoutes, On, Asks
<1>6. \A k \in {6} : Asks(ActivitiesRoutes[k], "DELETE", 2)
  BY SMTT(40) DEF ActivitiesRoutes, On, Asks
<1>7. \A k, m \in {1, 9} : m < k => Orderly(ActivitiesRoutes[m], ActivitiesRoutes[k])
  BY SMTT(40) DEF ActivitiesRoutes, On, Orderly, Shadows, Sees
<1>8. \A k, m \in {2, 10} : m < k => Orderly(ActivitiesRoutes[m], ActivitiesRoutes[k])
  BY SMTT(40) DEF ActivitiesRoutes, On, Orderly, Shadows, Sees
<1>9. \A k, m \in {5, 7, 8} : m < k => Orderly(ActivitiesRoutes[m], ActivitiesRoutes[k])
  BY SMTT(40) DEF ActivitiesRoutes, On, Orderly, Shadows, Sees
<1> QED
  BY <1>1, <1>2, <1>3, <1>4, <1>5, <1>6, <1>7, <1>8, <1>9, Unlike

LEMMA TasksInTurn == InTurn(TasksRoutes)
<1> SUFFICES ASSUME NEW i \in 1..9, NEW j \in 1..9, j < i
             PROVE  Orderly(TasksRoutes[j], TasksRoutes[i])
  <2>1. Len(TasksRoutes) = 9
    BY DEF TasksRoutes
  <2> QED
    BY <2>1 DEF InTurn
<1>1. \A k \in {1} : Asks(TasksRoutes[k], "GET", 1)
  BY SMTT(40) DEF TasksRoutes, On, Asks
<1>2. \A k \in {2} : Asks(TasksRoutes[k], "POST", 2)
  BY SMTT(40) DEF TasksRoutes, On, Asks
<1>3. \A k \in {3} : Asks(TasksRoutes[k], "POST", 1)
  BY SMTT(40) DEF TasksRoutes, On, Asks
<1>4. \A k \in {4} : Asks(TasksRoutes[k], "GET", 2)
  BY SMTT(40) DEF TasksRoutes, On, Asks
<1>5. \A k \in {5} : Asks(TasksRoutes[k], "PATCH", 2)
  BY SMTT(40) DEF TasksRoutes, On, Asks
<1>6. \A k \in {6} : Asks(TasksRoutes[k], "PUT", 2)
  BY SMTT(40) DEF TasksRoutes, On, Asks
<1>7. \A k \in {7} : Asks(TasksRoutes[k], "PATCH", 3)
  BY SMTT(40) DEF TasksRoutes, On, Asks
<1>8. \A k \in {8} : Asks(TasksRoutes[k], "PUT", 3)
  BY SMTT(40) DEF TasksRoutes, On, Asks
<1>9. \A k \in {9} : Asks(TasksRoutes[k], "DELETE", 2)
  BY SMTT(40) DEF TasksRoutes, On, Asks
<1> QED
  BY <1>1, <1>2, <1>3, <1>4, <1>5, <1>6, <1>7, <1>8, <1>9, Unlike

\* The routes of each file.
LEMMA FilesAlone ==
  /\ Alone(HealthRoutes, 1)
  /\ Alone(AuthRoutes, 2)
  /\ Alone(UsersRoutes, 3)
  /\ Alone(OrganizationsRoutes, 4)
  /\ Alone(ElectionsRoutes, 5)
  /\ Alone(PositionsRoutes, 6)
  /\ Alone(ConstituenciesRoutes, 7)
  /\ Alone(BoothsRoutes, 8)
  /\ Alone(CandidatesRoutes, 9)
  /\ Alone(TeamRoutes, 10)
  /\ Alone(VotersRoutes, 11)
  /\ Alone(BroadcastRoutes, 12)
  /\ Alone(ComplaintsRoutes, 13)
  /\ Alone(ExpensesRoutes, 14)
  /\ Alone(VolunteerVotersRoutes, 15)
  /\ Alone(ImportsRoutes, 16)
  /\ Alone(PollingStationsRoutes, 17)
  /\ Alone(VolunteersRoutes, 18)
  /\ Alone(DataCollectionRoutes, 19)
  /\ Alone(CheckinRoutes, 20)
  /\ Alone(VotingRoutes, 21)
  /\ Alone(ResultsRoutes, 22)
  /\ Alone(TemplatesRoutes, 23)
  /\ Alone(BannersRoutes, 24)
  /\ Alone(DesignTemplatesRoutes, 25)
  /\ Alone(PosterRoutes, 26)
  /\ Alone(NotificationsRoutes, 27)
  /\ Alone(DashboardRoutes, 28)
  /\ Alone(AnalyticsRoutes, 29)
  /\ Alone(ReportsRoutes, 30)
  /\ Alone(AlertsRoutes, 31)
  /\ Alone(AuditLogsRoutes, 32)
  /\ Alone(WebhooksRoutes, 33)
  /\ Alone(ActivitiesRoutes, 34)
  /\ Alone(TasksRoutes, 35)
  /\ Alone(SubscriptionsRoutes, 36)
<1>1. Alone(HealthRoutes, 1)
  <2>1. Len(HealthRoutes) = 3
    BY DEF HealthRoutes
  <2>2. \A i \in 1..3 : Len(HealthRoutes[i].path) \in 1..4 /\ HealthRoutes[i].path[1] = "health"
    BY DEF HealthRoutes, On
  <2>3. \A i \in 1..3 : Rooted(HealthRoutes[i]) /\ FileOf(HealthRoutes[i]) = 1
    BY <2>2, PlainRoute, Places
  <2>4. \A i, j \in 1..3 : j < i => Orderly(HealthRoutes[j], HealthRoutes[i])
    BY SMTT(60) DEF HealthRoutes, On, Orderly, Shadows, Sees
  <2> QED
    BY <2>1, <2>3, <2>4 DEF Alone, InTurn
<1>2. Alone(AuthRoutes, 2)
  <2>1. Len(AuthRoutes) = 15
    BY DEF AuthRoutes
  <2>2. \A i \in 1..15 : Len(AuthRoutes[i].path) \in 1..4 /\ AuthRoutes[i].path[1] = "auth"
    BY DEF AuthRoutes, On
  <2>3. \A i \in 1..15 : Rooted(AuthRoutes[i]) /\ FileOf(AuthRoutes[i]) = 2
    BY <2>2, PlainRoute, Places
  <2> QED
    BY <2>1, <2>3, AuthInTurn DEF Alone
<1>3. Alone(UsersRoutes, 3)
  <2>1. Len(UsersRoutes) = 9
    BY DEF UsersRoutes
  <2>2. \A i \in 1..9 : Len(UsersRoutes[i].path) \in 1..4 /\ UsersRoutes[i].path[1] = "users"
    BY DEF UsersRoutes, On
  <2>3. \A i \in 1..9 : Rooted(UsersRoutes[i]) /\ FileOf(UsersRoutes[i]) = 3
    BY <2>2, PlainRoute, Places
  <2> QED
    BY <2>1, <2>3, UsersInTurn DEF Alone
<1>4. Alone(OrganizationsRoutes, 4)
  <2>1. Len(OrganizationsRoutes) = 4
    BY DEF OrganizationsRoutes
  <2>2. \A i \in 1..4 : Len(OrganizationsRoutes[i].path) \in 1..4 /\ OrganizationsRoutes[i].path[1] = "organizations"
    BY DEF OrganizationsRoutes, On
  <2>3. \A i \in 1..4 : Rooted(OrganizationsRoutes[i]) /\ FileOf(OrganizationsRoutes[i]) = 4
    BY <2>2, PlainRoute, Places
  <2>4. \A i, j \in 1..4 : j < i => Orderly(OrganizationsRoutes[j], OrganizationsRoutes[i])
    BY SMTT(60) DEF OrganizationsRoutes, On, Orderly, Shadows, Sees
  <2> QED
    BY <2>1, <2>3, <2>4 DEF Alone, InTurn
<1>5. Alone(ElectionsRoutes, 5)
  <2>1. Len(ElectionsRoutes) = 6
    BY DEF ElectionsRoutes
  <2>2. \A i \in 1..6 : Len(ElectionsRoutes[i].path) \in 1..4 /\ ElectionsRoutes[i].path[1] = "elections"
    BY DEF ElectionsRoutes, On
  <2>3. \A i \in 1..6 : Rooted(ElectionsRoutes[i]) /\ FileOf(ElectionsRoutes[i]) = 5
    BY <2>2, PlainRoute, Places
  <2> QED
    BY <2>1, <2>3, ElectionsInTurn DEF Alone
<1>6. Alone(PositionsRoutes, 6)
  <2>1. Len(PositionsRoutes) = 3
    BY DEF PositionsRoutes
  <2>2. \A i \in 1..3 : Len(PositionsRoutes[i].path) \in 1..4 /\ PositionsRoutes[i].path[1] = "positions"
    BY DEF PositionsRoutes, On
  <2>3. \A i \in 1..3 : Rooted(PositionsRoutes[i]) /\ FileOf(PositionsRoutes[i]) = 6
    BY <2>2, PlainRoute, Places
  <2>4. \A i, j \in 1..3 : j < i => Orderly(PositionsRoutes[j], PositionsRoutes[i])
    BY SMTT(60) DEF PositionsRoutes, On, Orderly, Shadows, Sees
  <2> QED
    BY <2>1, <2>3, <2>4 DEF Alone, InTurn
<1>7. Alone(ConstituenciesRoutes, 7)
  <2>1. Len(ConstituenciesRoutes) = 3
    BY DEF ConstituenciesRoutes
  <2>2. \A i \in 1..3 : Len(ConstituenciesRoutes[i].path) \in 1..4 /\ ConstituenciesRoutes[i].path[1] = "constituencies"
    BY DEF ConstituenciesRoutes, On
  <2>3. \A i \in 1..3 : Rooted(ConstituenciesRoutes[i]) /\ FileOf(ConstituenciesRoutes[i]) = 7
    BY <2>2, PlainRoute, Places
  <2>4. \A i, j \in 1..3 : j < i => Orderly(ConstituenciesRoutes[j], ConstituenciesRoutes[i])
    BY SMTT(60) DEF ConstituenciesRoutes, On, Orderly, Shadows, Sees
  <2> QED
    BY <2>1, <2>3, <2>4 DEF Alone, InTurn
<1>8. Alone(BoothsRoutes, 8)
  <2>1. Len(BoothsRoutes) = 8
    BY DEF BoothsRoutes
  <2>2. \A i \in 1..8 : Len(BoothsRoutes[i].path) \in 1..4 /\ BoothsRoutes[i].path[1] = "geography"
    BY DEF BoothsRoutes, On
  <2>3. \A i \in 1..8 : Rooted(BoothsRoutes[i]) /\ FileOf(BoothsRoutes[i]) = 8
    BY <2>2, PlainRoute, Places
  <2> QED
    BY <2>1, <2>3, BoothsInTurn DEF Alone
<1>9. Alone(CandidatesRoutes, 9)
  <2>1. Len(CandidatesRoutes) = 7
    BY DEF CandidatesRoutes
  <2>2. \A i \in 1..7 : Len(CandidatesRoutes[i].path) \in 1..4 /\ CandidatesRoutes[i].path[1] = "candidates"
    BY DEF CandidatesRoutes, On
  <2>3. \A i \in 1..7 : Rooted(CandidatesRoutes[i]) /\ FileOf(CandidatesRoutes[i]) = 9
    BY <2>2, PlainRoute, Places
  <2>4. \A i, j \in 1..7 : j < i => Orderly(CandidatesRoutes[j], CandidatesRoutes[i])
    BY SMTT(60) DEF CandidatesRoutes, On, Orderly, Shadows, Sees
  <2> QED
    BY <2>1, <2>3, <2>4 DEF Alone, InTurn
<1>10. Alone(TeamRoutes, 10)
  <2>1. Len(TeamRoutes) = 4
    BY DEF TeamRoutes
  <2>2. Rooted(TeamRoutes[3]) /\ IsList(TeamRoutes[3])
    BY DEF TeamRoutes, On, Rooted, IsList, Asks
  <2>3. \A i \in {1, 2, 4} : Len(TeamRoutes[i].path) = 1 /\ TeamRoutes[i].path[1] \in {"team", "booths"}
    BY DEF TeamRoutes, On
  <2>4. \A i \in 1..4 : Rooted(TeamRoutes[i]) /\ FileOf(TeamRoutes[i]) = 10
    <3>1. \A i \in {1, 2, 4} : Rooted(TeamRoutes[i]) /\ FileOf(TeamRoutes[i]) = 10
      BY <2>3, PlainRoute, Places
    <3> QED
      BY <2>2, <3>1 DEF FileOf
  <2>5. \A i, j \in 1..4 : j < i => Orderly(TeamRoutes[j], TeamRoutes[i])
    BY SMTT(60) DEF TeamRoutes, On, Orderly, Shadows, Sees
  <2> QED
    BY <2>1, <2>4, <2>5 DEF Alone, InTurn
<1>11. Alone(VotersRoutes, 11)
  <2>1. Len(VotersRoutes) = 10
    BY DEF VotersRoutes
  <2>2. \A i \in 1..10 : Len(VotersRoutes[i].path) \in 1..4 /\ VotersRoutes[i].path[1] = "voters"
    BY DEF VotersRoutes, On
  <2>3. \A i \in 1..10 : Rooted(VotersRoutes[i]) /\ FileOf(VotersRoutes[i]) = 11
    BY <2>2, PlainRoute, Places
  <2>4. \A i, j \in 1..10 : j < i => Orderly(VotersRoutes[j], VotersRoutes[i])
    BY SMTT(60) DEF VotersRoutes, On, Orderly, Shadows, Sees
  <2> QED
    BY <2>1, <2>3, <2>4 DEF Alone, InTurn
<1>12. Alone(BroadcastRoutes, 12)
  <2>1. Len(BroadcastRoutes) = 12
    BY DEF BroadcastRoutes
  <2>2. \A i \in 1..12 : Len(BroadcastRoutes[i].path) \in 1..4 /\ BroadcastRoutes[i].path[1] = "broadcast"
    BY DEF BroadcastRoutes, On
  <2>3. \A i \in 1..12 : Rooted(BroadcastRoutes[i]) /\ FileOf(BroadcastRoutes[i]) = 12
    BY <2>2, PlainRoute, Places
  <2> QED
    BY <2>1, <2>3, BroadcastInTurn DEF Alone
<1>13. Alone(ComplaintsRoutes, 13)
  <2>1. Len(ComplaintsRoutes) = 8
    BY DEF ComplaintsRoutes
  <2>2. \A i \in 1..8 : Len(ComplaintsRoutes[i].path) \in 1..4 /\ ComplaintsRoutes[i].path[1] = "complaints"
    BY DEF ComplaintsRoutes, On
  <2>3. \A i \in 1..8 : Rooted(ComplaintsRoutes[i]) /\ FileOf(ComplaintsRoutes[i]) = 13
    BY <2>2, PlainRoute, Places
  <2> QED
    BY <2>1, <2>3, ComplaintsInTurn DEF Alone
<1>14. Alone(ExpensesRoutes, 14)
  <2>1. Len(ExpensesRoutes) = 7
    BY DEF ExpensesRoutes
  <2>2. \A i \in 1..7 : Len(ExpensesRoutes[i].path) \in 1..4 /\ ExpensesRoutes[i].path[1] = "expenses"
    BY DEF ExpensesRoutes, On
  <2>3. \A i \in 1..7 : Rooted(ExpensesRoutes[i]) /\ FileOf(ExpensesRoutes[i]) = 14
    BY <2>2, PlainRoute, Places
  <2> QED
    BY <2>1, <2>3, ExpensesInTurn DEF Alone
<1>15. Alone(VolunteerVotersRoutes, 15)
  <2>1. Len(VolunteerVotersRoutes) = 4
    BY DEF VolunteerVotersRoutes
  <2>2. \A i \in 1..4 : Len(VolunteerVotersRoutes[i].path) \in 1..4 /\ VolunteerVotersRoutes[i].path[1] = "volunteer-voters"
    BY DEF VolunteerVotersRoutes, On
  <2>3. \A i \in 1..4 : Rooted(VolunteerVotersRoutes[i]) /\ FileOf(VolunteerVotersRoutes[i]) = 15
    BY <2>2, PlainRoute, Places
  <2>4. \A i, j \in 1..4 : j < i => Orderly(VolunteerVotersRoutes[j], VolunteerVotersRoutes[i])
    BY SMTT(60) DEF VolunteerVotersRoutes, On, Orderly, Shadows, Sees
  <2> QED
    BY <2>1, <2>3, <2>4 DEF Alone, InTurn
<1>16. Alone(ImportsRoutes, 16)
  <2>1. Len(ImportsRoutes) = 3
    BY DEF ImportsRoutes
  <2>2. \A i \in 1..3 : Len(ImportsRoutes[i].path) \in 1..4 /\ ImportsRoutes[i].path[1] = "imports"
    BY DEF ImportsRoutes, On
  <2>3. \A i \in 1..3 : Rooted(ImportsRoutes[i]) /\ FileOf(ImportsRoutes[i]) = 16
    BY <2>2, PlainRoute, Places
  <2>4. \A i, j \in 1..3 : j < i => Orderly(ImportsRoutes[j], ImportsRoutes[i])
    BY SMTT(60) DEF ImportsRoutes, On, Orderly, Shadows, Sees
  <2> QED
    BY <2>1, <2>3, <2>4 DEF Alone, InTurn
<1>17. Alone(PollingStationsRoutes, 17)
  <2>1. Len(PollingStationsRoutes) = 4
    BY DEF PollingStationsRoutes
  <2>2. \A i \in 1..4 : Len(PollingStationsRoutes[i].path) \in 1..4 /\ PollingStationsRoutes[i].path[1] = "polling-stations"
    BY DEF PollingStationsRoutes, On
  <2>3. \A i \in 1..4 : Rooted(PollingStationsRoutes[i]) /\ FileOf(PollingStationsRoutes[i]) = 17
    BY <2>2, PlainRoute, Places
  <2>4. \A i, j \in 1..4 : j < i => Orderly(PollingStationsRoutes[j], PollingStationsRoutes[i])
    BY SMTT(60) DEF PollingStationsRoutes, On, Orderly, Shadows, Sees
  <2> QED
    BY <2>1, <2>3, <2>4 DEF Alone, InTurn
<1>18. Alone(VolunteersRoutes, 18)
  <2>1. Len(VolunteersRoutes) = 13
    BY DEF VolunteersRoutes
  <2>2. IsList(VolunteersRoutes[2]) /\ VolunteersRoutes[2].handler \in Hidden
    BY DEF VolunteersRoutes, On, IsList, Asks, Hidden
  <2>3. \A i \in 1..13 : Len(VolunteersRoutes[i].path) \in 1..4 /\ VolunteersRoutes[i].path[1] = "volunteers"
    BY DEF VolunteersRoutes, On
  <2>4. \A i \in 1..13 : i # 2 => ~Asks(VolunteersRoutes[i], "GET", 1)
    BY DEF VolunteersRoutes, On, Asks
  <2>5. \A i \in 1..13 : Rooted(VolunteersRoutes[i])
    BY <2>3 DEF Rooted
  <2>6. \A i \in 1..13 : IF i = 2 THEN FileOf(VolunteersRoutes[i]) = 10 ELSE FileOf(VolunteersRoutes[i]) = 18
    BY <2>2, <2>3, <2>4, Places DEF FileOf, IsList
  <2> QED
    BY <2>1, <2>2, <2>5, <2>6, VolunteersInTurn DEF Alone
<1>19. Alone(DataCollectionRoutes, 19)
  <2>1. Len(DataCollectionRoutes) = 8
    BY DEF DataCollectionRoutes
  <2>2. \A i \in 1..8 : Len(DataCollectionRoutes[i].path) \in 1..4 /\ DataCollectionRoutes[i].path[1] = "data"
    BY DEF DataCollectionRoutes, On
  <2>3. \A i \in 1..8 : Rooted(DataCollectionRoutes[i]) /\ FileOf(DataCollectionRoutes[i]) = 19
    BY <2>2, PlainRoute, Places
  <2> QED
    BY <2>1, <2>3, DataCollectionInTurn DEF Alone
<1>20. Alone(CheckinRoutes, 20)
  <2>1. Len(CheckinRoutes) = 1
    BY DEF CheckinRoutes
  <2>2. \A i \in 1..1 : Len(CheckinRoutes[i].path) \in 1..4 /\ CheckinRoutes[i].path[1] = "checkin"
    BY DEF CheckinRoutes, On
  <2>3. \A i \in 1..1 : Rooted(CheckinRoutes[i]) /\ FileOf(CheckinRoutes[i]) = 20
    BY <2>2, PlainRoute, Places
  <2>4. \A i, j \in 1..1 : j < i => Orderly(CheckinRoutes[j], CheckinRoutes[i])
    BY SMTT(60) DEF CheckinRoutes, On, Orderly, Shadows, Sees
  <2> QED
    BY <2>1, <2>3, <2>4 DEF Alone, InTurn
<1>21. Alone(VotingRoutes, 21)
  <2>1. Len(VotingRoutes) = 2
    BY DEF VotingRoutes
  <2>2. \A i \in 1..2 : Len(VotingRoutes[i].path) \in 1..4 /\ VotingRoutes[i].path[1] = "voting"
    BY DEF VotingRoutes, On
  <2>3. \A i \in 1..2 : Rooted(VotingRoutes[i]) /\ FileOf(VotingRoutes[i]) = 21
    BY <2>2, PlainRoute, Places
  <2>4. \A i, j \in 1..2 : j < i => Orderly(VotingRoutes[j], VotingRoutes[i])
    BY SMTT(60) DEF VotingRoutes, On, Orderly, Shadows, Sees
  <2> QED
    BY <2>1, <2>3, <2>4 DEF Alone, InTurn
<1>22. Alone(ResultsRoutes, 22)
  <2>1. Len(ResultsRoutes) = 4
    BY DEF ResultsRoutes
  <2>2. \A i \in 1..4 : Len(ResultsRoutes[i].path) \in 1..4 /\ ResultsRoutes[i].path[1] = "results"
    BY DEF ResultsRoutes, On
  <2>3. \A i \in 1..4 : Rooted(ResultsRoutes[i]) /\ FileOf(ResultsRoutes[i]) = 22
    BY <2>2, PlainRoute, Places
  <2>4. \A i, j \in 1..4 : j < i => Orderly(ResultsRoutes[j], ResultsRoutes[i])
    BY SMTT(60) DEF ResultsRoutes, On, Orderly, Shadows, Sees
  <2> QED
    BY <2>1, <2>3, <2>4 DEF Alone, InTurn
<1>23. Alone(TemplatesRoutes, 23)
  <2>1. Len(TemplatesRoutes) = 4
    BY DEF TemplatesRoutes
  <2>2. \A i \in 1..4 : Len(TemplatesRoutes[i].path) \in 1..4 /\ TemplatesRoutes[i].path[1] = "templates"
    BY DEF TemplatesRoutes, On
  <2>3. \A i \in 1..4 : Rooted(TemplatesRoutes[i]) /\ FileOf(TemplatesRoutes[i]) = 23
    BY <2>2, PlainRoute, Places
  <2> QED
    BY <2>1, <2>3, TemplatesInTurn DEF Alone
<1>24. Alone(BannersRoutes, 24)
  <2>1. Len(BannersRoutes) = 3
    BY DEF BannersRoutes
  <2>2. \A i \in 1..3 : Len(BannersRoutes[i].path) \in 1..4 /\ BannersRoutes[i].path[1] = "banners"
    BY DEF BannersRoutes, On
  <2>3. \A i \in 1..3 : Rooted(BannersRoutes[i]) /\ FileOf(BannersRoutes[i]) = 24
    BY <2>2, PlainRoute, Places
  <2>4. \A i, j \in 1..3 : j < i => Orderly(BannersRoutes[j], BannersRoutes[i])
    BY SMTT(60) DEF BannersRoutes, On, Orderly, Shadows, Sees
  <2> QED
    BY <2>1, <2>3, <2>4 DEF Alone, InTurn
<1>25. Alone(DesignTemplatesRoutes, 25)
  <2>1. Len(DesignTemplatesRoutes) = 12
    BY DEF DesignTemplatesRoutes
  <2>2. \A i \in 1..12 : Len(DesignTemplatesRoutes[i].path) \in 1..4 /\ DesignTemplatesRoutes[i].path[1] = "design-templates"
    BY DEF DesignTemplatesRoutes, On
  <2>3. \A i \in 1..12 : Rooted(DesignTemplatesRoutes[i]) /\ FileOf(DesignTemplatesRoutes[i]) = 25
    BY <2>2, PlainRoute, Places
  <2> QED
    BY <2>1, <2>3, DesignTemplatesInTurn DEF Alone
<1>26. Alone(PosterRoutes, 26)
  <2>1. Len(PosterRoutes) = 2
    BY DEF PosterRoutes
  <2>2. \A i \in 1..2 : Len(PosterRoutes[i].path) \in 1..4 /\ PosterRoutes[i].path[1] = "posters"
    BY DEF PosterRoutes, On
  <2>3. \A i \in 1..2 : Rooted(PosterRoutes[i]) /\ FileOf(PosterRoutes[i]) = 26
    BY <2>2, PlainRoute, Places
  <2>4. \A i, j \in 1..2 : j < i => Orderly(PosterRoutes[j], PosterRoutes[i])
    BY SMTT(60) DEF PosterRoutes, On, Orderly, Shadows, Sees
  <2> QED
    BY <2>1, <2>3, <2>4 DEF Alone, InTurn
<1>27. Alone(NotificationsRoutes, 27)
  <2>1. Len(NotificationsRoutes) = 9
    BY DEF NotificationsRoutes
  <2>2. \A i \in 1..9 : Len(NotificationsRoutes[i].path) \in 1..4 /\ NotificationsRoutes[i].path[1] = "notifications"
    BY DEF NotificationsRoutes, On
  <2>3. \A i \in 1..9 : Rooted(NotificationsRoutes[i]) /\ FileOf(NotificationsRoutes[i]) = 27
    BY <2>2, PlainRoute, Places
  <2>4. \A i, j \in 1..9 : j < i => Orderly(NotificationsRoutes[j], NotificationsRoutes[i])
    BY SMTT(60) DEF NotificationsRoutes, On, Orderly, Shadows, Sees
  <2> QED
    BY <2>1, <2>3, <2>4 DEF Alone, InTurn
<1>28. Alone(DashboardRoutes, 28)
  <2>1. Len(DashboardRoutes) = 5
    BY DEF DashboardRoutes
  <2>2. \A i \in 1..5 : Len(DashboardRoutes[i].path) \in 1..4 /\ DashboardRoutes[i].path[1] = "dashboard"
    BY DEF DashboardRoutes, On
  <2>3. \A i \in 1..5 : Rooted(DashboardRoutes[i]) /\ FileOf(DashboardRoutes[i]) = 28
    BY <2>2, PlainRoute, Places
  <2>4. \A i, j \in 1..5 : j < i => Orderly(DashboardRoutes[j], DashboardRoutes[i])
    BY SMTT(60) DEF DashboardRoutes, On, Orderly, Shadows, Sees
  <2> QED
    BY <2>1, <2>3, <2>4 DEF Alone, InTurn
<1>29. Alone(AnalyticsRoutes, 29)
  <2>1. Len(AnalyticsRoutes) = 3
    BY DEF AnalyticsRoutes
  <2>2. \A i \in 1..3 : Len(AnalyticsRoutes[i].path) \in 1..4 /\ AnalyticsRoutes[i].path[1] = "analytics"
    BY DEF AnalyticsRoutes, On
  <2>3. \A i \in 1..3 : Rooted(AnalyticsRoutes[i]) /\ FileOf(AnalyticsRoutes[i]) = 29
    BY <2>2, PlainRoute, Places
  <2>4. \A i, j \in 1..3 : j < i => Orderly(AnalyticsRoutes[j], AnalyticsRoutes[i])
    BY SMTT(60) DEF AnalyticsRoutes, On, Orderly, Shadows, Sees
  <2> QED
    BY <2>1, <2>3, <2>4 DEF Alone, InTurn
<1>30. Alone(ReportsRoutes, 30)
  <2>1. Len(ReportsRoutes) = 6
    BY DEF ReportsRoutes
  <2>2. \A i \in 1..6 : Len(ReportsRoutes[i].path) \in 1..4 /\ ReportsRoutes[i].path[1] = "reports"
    BY DEF ReportsRoutes, On
  <2>3. \A i \in 1..6 : Rooted(ReportsRoutes[i]) /\ FileOf(ReportsRoutes[i]) = 30
    BY <2>2, PlainRoute, Places
  <2> QED
    BY <2>1, <2>3, ReportsInTurn DEF Alone
<1>31. Alone(AlertsRoutes, 31)
  <2>1. Len(AlertsRoutes) = 3
    BY DEF AlertsRoutes
  <2>2. \A i \in 1..3 : Len(AlertsRoutes[i].path) \in 1..4 /\ AlertsRoutes[i].path[1] = "alerts"
    BY DEF AlertsRoutes, On
  <2>3. \A i \in 1..3 : Rooted(AlertsRoutes[i]) /\ FileOf(AlertsRoutes[i]) = 31
    BY <2>2, PlainRoute, Places
  <2>4. \A i, j \in 1..3 : j < i => Orderly(AlertsRoutes[j], AlertsRoutes[i])
    BY SMTT(60) DEF AlertsRoutes, On, Orderly, Shadows, Sees
  <2> QED
    BY <2>1, <2>3, <2>4 DEF Alone, InTurn
<1>32. Alone(AuditLogsRoutes, 32)
  <2>1. Len(AuditLogsRoutes) = 4
    BY DEF AuditLogsRoutes
  <2>2. \A i \in 1..4 : Len(AuditLogsRoutes[i].path) \in 1..4 /\ AuditLogsRoutes[i].path[1] \in {"audit", "audit-logs", "security-events"}
    BY DEF AuditLogsRoutes, On
  <2>3. \A i \in 1..4 : Rooted(AuditLogsRoutes[i]) /\ FileOf(AuditLogsRoutes[i]) = 32
    BY <2>2, PlainRoute, Places
  <2> QED
    BY <2>1, <2>3, AuditLogsInTurn DEF Alone
<1>33. Alone(WebhooksRoutes, 33)
  <2>1. Len(WebhooksRoutes) = 4
    BY DEF WebhooksRoutes
  <2>2. \A i \in 1..4 : Len(WebhooksRoutes[i].path) \in 1..4 /\ WebhooksRoutes[i].path[1] = "webhooks"
    BY DEF WebhooksRoutes, On
  <2>3. \A i \in 1..4 : Rooted(WebhooksRoutes[i]) /\ FileOf(WebhooksRoutes[i]) = 33
    BY <2>2, PlainRoute, Places
  <2>4. \A i, j \in 1..4 : j < i => Orderly(WebhooksRoutes[j], WebhooksRoutes[i])
    BY SMTT(60) DEF WebhooksRoutes, On, Orderly, Shadows, Sees
  <2> QED
    BY <2>1, <2>3, <2>4 DEF Alone, InTurn
<1>34. Alone(ActivitiesRoutes, 34)
  <2>1. Len(ActivitiesRoutes) = 10
    BY DEF ActivitiesRoutes
  <2>2. \A i \in 1..10 : Len(ActivitiesRoutes[i].path) \in 1..4 /\ ActivitiesRoutes[i].path[1] \in {"field-activities", "attendance"}
    BY DEF ActivitiesRoutes, On
  <2>3. \A i \in 1..10 : Rooted(ActivitiesRoutes[i]) /\ FileOf(ActivitiesRoutes[i]) = 34
    BY <2>2, PlainRoute, Places
  <2> QED
    BY <2>1, <2>3, ActivitiesInTurn DEF Alone
<1>35. Alone(TasksRoutes, 35)
  <2>1. Len(TasksRoutes) = 9
    BY DEF TasksRoutes
  <2>2. \A i \in 1..9 : Len(TasksRoutes[i].path) \in 1..4 /\ TasksRoutes[i].path[1] = "tasks"
    BY DEF TasksRoutes, On
  <2>3. \A i \in 1..9 : Rooted(TasksRoutes[i]) /\ FileOf(TasksRoutes[i]) = 35
    BY <2>2, PlainRoute, Places
  <2> QED
    BY <2>1, <2>3, TasksInTurn DEF Alone
<1>36. Alone(SubscriptionsRoutes, 36)
  <2>1. Len(SubscriptionsRoutes) = 4
    BY DEF SubscriptionsRoutes
  <2>2. \A i \in 1..4 : Len(SubscriptionsRoutes[i].path) \in 1..4 /\ SubscriptionsRoutes[i].path[1] = "subscriptions"
    BY DEF SubscriptionsRoutes, On
  <2>3. \A i \in 1..4 : Rooted(SubscriptionsRoutes[i]) /\ FileOf(SubscriptionsRoutes[i]) = 36
    BY <2>2, PlainRoute, Places
  <2>4. \A i, j \in 1..4 : j < i => Orderly(SubscriptionsRoutes[j], SubscriptionsRoutes[i])
    BY SMTT(60) DEF SubscriptionsRoutes, On, Orderly, Shadows, Sees
  <2> QED
    BY <2>1, <2>3, <2>4 DEF Alone, InTurn
<1> QED
  BY <1>1, <1>2, <1>3, <1>4, <1>5, <1>6, <1>7, <1>8, <1>9, <1>10, <1>11, <1>12, <1>13, <1>14, <1>15, <1>16,
     <1>17, <1>18, <1>19, <1>20, <1>21, <1>22, <1>23, <1>24, <1>25, <1>26, <1>27, <1>28, <1>29, <1>30,
     <1>31, <1>32, <1>33, <1>34, <1>35, <1>36

\* The router, one file after another.
LEMMA RouterInTurn == InTurn(Router)
<1> DEFINE r1 == HealthRoutes
           r2 == r1 \o AuthRoutes
           r3 == r2 \o UsersRoutes
           r4 == r3 \o OrganizationsRoutes
           r5 == r4 \o ElectionsRoutes
           r6 == r5 \o PositionsRoutes
           r7 == r6 \o ConstituenciesRoutes
           r8 == r7 \o BoothsRoutes
           r9 == r8 \o CandidatesRoutes
           r10 == r9 \o TeamRoutes
           r11 == r10 \o VotersRoutes
           r12 == r11 \o BroadcastRoutes
           r13 == r12 \o ComplaintsRoutes
           r14 == r13 \o ExpensesRoutes
           r15 == r14 \o VolunteerVotersRoutes
           r16 == r15 \o ImportsRoutes
           r17 == r16 \o PollingStationsRoutes
           r18 == r17 \o VolunteersRoutes
           r19 == r18 \o DataCollectionRoutes
           r20 == r19 \o CheckinRoutes
           r21 == r20 \o VotingRoutes
           r22 == r21 \o ResultsRoutes
           r23 == r22 \o TemplatesRoutes
           r24 == r23 \o BannersRoutes
           r25 == r24 \o DesignTemplatesRoutes
           r26 == r25 \o PosterRoutes
           r27 == r26 \o NotificationsRoutes
           r28 == r27 \o DashboardRoutes
           r29 == r28 \o AnalyticsRoutes
           r30 == r29 \o ReportsRoutes
           r31 == r30 \o AlertsRoutes
           r32 == r31 \o AuditLogsRoutes
           r33 == r32 \o WebhooksRoutes
           r34 == r33 \o ActivitiesRoutes
           r35 == r34 \o TasksRoutes
           r36 == r35 \o SubscriptionsRoutes
<1>1. Upto(r1, 1) /\ AllKept(r1)
  BY FilesAlone, FilesKept DEF Alone, Upto
<1> HIDE DEF r1
<1>2. Upto(r2, 2) /\ AllKept(r2)
  BY <1>1, FilesAlone, FilesKept, TurnsTogether, KeptTogether, 1 + 1 = 2
<1> HIDE DEF r2
<1>3. Upto(r3, 3) /\ AllKept(r3)
  BY <1>2, FilesAlone, FilesKept, TurnsTogether, KeptTogether, 2 + 1 = 3
<1> HIDE DEF r3
<1>4. Upto(r4, 4) /\ AllKept(r4)
  BY <1>3, FilesAlone, FilesKept, TurnsTogether, KeptTogether, 3 + 1 = 4
<1> HIDE DEF r4
<1>5. Upto(r5, 5) /\ AllKept(r5)
  BY <1>4, FilesAlone, FilesKept, TurnsTogether, KeptTogether, 4 + 1 = 5
<1> HIDE DEF r5
<1>6. Upto(r6, 6) /\ AllKept(r6)
  BY <1>5, FilesAlone, FilesKept, TurnsTogether, KeptTogether, 5 + 1 = 6
<1> HIDE DEF r6
<1>7. Upto(r7, 7) /\ AllKept(r7)
  BY <1>6, FilesAlone, FilesKept, TurnsTogether, KeptTogether, 6 + 1 = 7
<1> HIDE DEF r7
<1>8. Upto(r8, 8) /\ AllKept(r8)
  BY <1>7, FilesAlone, FilesKept, TurnsTogether, KeptTogether, 7 + 1 = 8
<1> HIDE DEF r8
<1>9. Upto(r9, 9) /\ AllKept(r9)
  BY <1>8, FilesAlone, FilesKept, TurnsTogether, KeptTogether, 8 + 1 = 9
<1> HIDE DEF r9
<1>10. Upto(r10, 10) /\ AllKept(r10)
  BY <1>9, FilesAlone, FilesKept, TurnsTogether, KeptTogether, 9 + 1 = 10
<1> HIDE DEF r10
<1>11. Upto(r11, 11) /\ AllKept(r11)
  BY <1>10, FilesAlone, FilesKept, TurnsTogether, KeptTogether, 10 + 1 = 11
<1> HIDE DEF r11
<1>12. Upto(r12, 12) /\ AllKept(r12)
  BY <1>11, FilesAlone, FilesKept, TurnsTogether, KeptTogether, 11 + 1 = 12
<1> HIDE DEF r12
<1>13. Upto(r13, 13) /\ AllKept(r13)
  BY <1>12, FilesAlone, FilesKept, TurnsTogether, KeptTogether, 12 + 1 = 13
<1> HIDE DEF r13
<1>14. Upto(r14, 14) /\ AllKept(r14)
  BY <1>13, FilesAlone, FilesKept, TurnsTogether, KeptTogether, 13 + 1 = 14
<1> HIDE DEF r14
<1>15. Upto(r15, 15) /\ AllKept(r15)
  BY <1>14, FilesAlone, FilesKept, TurnsTogether, KeptTogether, 14 + 1 = 15
<1> HIDE DEF r15
<1>16. Upto(r16, 16) /\ AllKept(r16)
  BY <1>15, FilesAlone, FilesKept, TurnsTogether, KeptTogether, 15 + 1 = 16
<1> HIDE DEF r16
<1>17. Upto(r17, 17) /\ AllKept(r17)
  BY <1>16, FilesAlone, FilesKept, TurnsTogether, KeptTogether, 16 + 1 = 17
<1> HIDE DEF r17
<1>18. Upto(r18, 18) /\ AllKept(r18)
  BY <1>17, FilesAlone, FilesKept, TurnsTogether, KeptTogether, 17 + 1 = 18
<1> HIDE DEF r18
<1>19. Upto(r19, 19) /\ AllKept(r19)
  BY <1>18, FilesAlone, FilesKept, TurnsTogether, KeptTogether, 18 + 1 = 19
<1> HIDE DEF r19
<1>20. Upto(r20, 20) /\ AllKept(r20)
  BY <1>19, FilesAlone, FilesKept, TurnsTogether, KeptTogether, 19 + 1 = 20
<1> HIDE DEF r20
<1>21. Upto(r21, 21) /\ AllKept(r21)
  BY <1>20, FilesAlone, FilesKept, TurnsTogether, KeptTogether, 20 + 1 = 21
<1> HIDE DEF r21
<1>22. Upto(r22, 22) /\ AllKept(r22)
  BY <1>21, FilesAlone, FilesKept, TurnsTogether, KeptTogether, 21 + 1 = 22
<1> HIDE DEF r22
<1>23. Upto(r23, 23) /\ AllKept(r23)
  BY <1>22, FilesAlone, FilesKept, TurnsTogether, KeptTogether, 22 + 1 = 23
<1> HIDE DEF r23
<1>24. Upto(r24, 24) /\ AllKept(r24)
  BY <1>23, FilesAlone, FilesKept, TurnsTogether, KeptTogether, 23 + 1 = 24
<1> HIDE DEF r24
<1>25. Upto(r25, 25) /\ AllKept(r25)
  BY <1>24, FilesAlone, FilesKept, TurnsTogether, KeptTogether, 24 + 1 = 25
<1> HIDE DEF r25
<1>26. Upto(r26, 26) /\ AllKept(r26)
  BY <1>25, FilesAlone, FilesKept, TurnsTogether, KeptTogether, 25 + 1 = 26
<1> HIDE DEF r26
<1>27. Upto(r27, 27) /\ AllKept(r27)
  BY <1>26, FilesAlone, FilesKept, TurnsTogether, KeptTogether, 26 + 1 = 27
<1> HIDE DEF r27
<1>28. Upto(r28, 28) /\ AllKept(r28)
  BY <1>27, FilesAlone, FilesKept, TurnsTogether, KeptTogether, 27 + 1 = 28
<1> HIDE DEF r28
<1>29. Upto(r29, 29) /\ AllKept(r29)
  BY <1>28, FilesAlone, FilesKept, TurnsTogether, KeptTogether, 28 + 1 = 29
<1> HIDE DEF r29
<1>30. Upto(r30, 30) /\ AllKept(r30)
  BY <1>29, FilesAlone, FilesKept, TurnsTogether, KeptTogether, 29 + 1 = 30
<1> HIDE DEF r30
<1>31. Upto(r31, 31) /\ AllKept(r31)
  BY <1>30, FilesAlone, FilesKept, TurnsTogether, KeptTogether, 30 + 1 = 31
<1> HIDE DEF r31
<1>32. Upto(r32, 32) /\ AllKept(r32)
  BY <1>31, FilesAlone, FilesKept, TurnsTogether, KeptTogether, 31 + 1 = 32
<1> HIDE DEF r32
<1>33. Upto(r33, 33) /\ AllKept(r33)
  BY <1>32, FilesAlone, FilesKept, TurnsTogether, KeptTogether, 32 + 1 = 33
<1> HIDE DEF r33
<1>34. Upto(r34, 34) /\ AllKept(r34)
  BY <1>33, FilesAlone, FilesKept, TurnsTogether, KeptTogether, 33 + 1 = 34
<1> HIDE DEF r34
<1>35. Upto(r35, 35) /\ AllKept(r35)
  BY <1>34, FilesAlone, FilesKept, TurnsTogether, KeptTogether, 34 + 1 = 35
<1> HIDE DEF r35
<1>36. Upto(r36, 36) /\ AllKept(r36)
  BY <1>35, FilesAlone, FilesKept, TurnsTogether, KeptTogether, 35 + 1 = 36
<1> HIDE DEF r36
<1>37. Router = r36
  BY DEF Router, r1, r2, r3, r4, r5, r6, r7, r8, r9, r10, r11, r12, r13, r14, r15, r16, r17, r18, r19, r20,
     r21, r22, r23, r24, r25, r26, r27, r28, r29, r30, r31, r32, r33, r34, r35, r36
<1> QED
  BY <1>36, <1>37 DEF Upto

\* A route that matches what another was written for sees all its segments.
LEMMA MatchesShadows ==
  ASSUME NEW r, NEW s, IsPath(r.path), Matches(Asked(r), s)
  PROVE  Shadows(s, r)
<1>1. DOMAIN r.path = 1..Len(r.path) /\ Len(r.path) \in Nat
  <2>1. r.path \in Seq(Outward(r.path))
    BY DEF IsPath
  <2> QED
    BY <2>1
<1>2. /\ Asked(r).method = r.method
      /\ Asked(r).path = [k \in 1..Len(r.path) |-> IF r.path[k] = "*" THEN "x" ELSE r.path[k]]
  BY <1>1 DEF Asked
<1>3. Len(Asked(r).path) = Len(r.path) /\ DOMAIN Asked(r).path = 1..Len(r.path)
  BY <1>1, <1>2
<1>4. \A k \in 1..Len(r.path) : s.path[k] \in {r.path[k], "*", "x"}
  BY <1>2, <1>3 DEF Matches
<1>5. Sees(s, r, 1) /\ Sees(s, r, 2) /\ Sees(s, r, 3) /\ Sees(s, r, 4)
  BY <1>1, <1>4 DEF Sees
<1> QED
  BY <1>2, <1>3, <1>5 DEF Matches, Shadows

\* Who answers is the one who should, but for the two that are hidden.
LEMMA AnsweredInTurn ==
  \A i \in DOMAIN Router :
    Answers[i].handler = Router[i].handler \/ Router[i].handler \in Hidden
<1>1. /\ DOMAIN Router = 1..Len(Router) /\ Len(Router) \in Nat
      /\ \A i \in DOMAIN Router : IsPath(Router[i].path)
  BY RouterKept DEF AllKept, Kept
<1> SUFFICES ASSUME NEW i \in DOMAIN Router
             PROVE  Answers[i].handler = Router[i].handler \/ Router[i].handler \in Hidden
  OBVIOUS
<1> DEFINE matching == {j \in DOMAIN Router : Matches(Asked(Router[i]), Router[j])}
<1>2. i \in matching /\ matching \subseteq Nat
  BY <1>1, MatchesItself
<1>3. \E m \in matching : \A j \in matching : m <= j
  BY <1>2, LeastOf
<1>4. Min(matching) \in matching /\ \A j \in matching : Min(matching) <= j
  BY <1>3, Zenon DEF Min
<1>5. PICK m \in matching : m = Min(matching) /\ m <= i
  BY <1>2, <1>4
<1>6. Answers[i] = Router[m]
  BY <1>5 DEF Answers, AnsweredBy
<1>7. m \in 1..Len(Router) /\ i \in 1..Len(Router) /\ Shadows(Router[m], Router[i])
  BY <1>1, <1>5, MatchesShadows
<1>8. CASE m = i
  BY <1>6, <1>8
<1>9. CASE m # i
  <2>1. m < i
    BY <1>5, <1>7, <1>9
  <2> QED
    BY <1>6, <1>7, <2>1, RouterInTurn DEF InTurn, Orderly
<1> QED
  BY <1>8, <1>9

LEMMA AccessInvAnswers ==
  ASSUME AccessInv
  PROVE  AnswersItsPath
BY AnsweredInTurn DEF AccessInv, AnswersItsPath

\* Every request that is served is served by the handler of the route it was
\* written for, but for the two that team.py and a template's id hide, in any
\* order of requests (the order of the routes in api/v1/endpoints/ and of
\* their files in api/v1/router.py).
THEOREM OfficeAnswersItsPath == OfficeSpec => []AnswersItsPath
<1>1. AccessAssumption
  BY OfficeAssumption
<1>2. OfficeInit => AccessInv
  BY AccessInitInv DEF OfficeInit
<1>3. AccessInv /\ [OfficeNext]_all => AccessInv'
  BY AccessStepOfOffice
<1>4. AccessInv => AnswersItsPath
  BY AccessInvAnswers
<1> QED
  BY <1>2, <1>3, <1>4, PTL DEF OfficeSpec
=============================================================================
