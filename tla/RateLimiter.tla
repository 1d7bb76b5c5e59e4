---------------------------- MODULE RateLimiter -----------------------------
(***************************************************************************)
(* The rate limiter (core/rate_limit.py): a sliding window of the requests *)
(* of one client, which Redis keeps for all workers.  A worker whose call  *)
(* to Redis fails counts in a list of its own.  Time is a number of units, *)
(* Window of which make the sixty seconds.                                 *)
(***************************************************************************)
EXTENDS Naturals, FiniteSets

CONSTANTS
  Workers,     \* processes that serve requests
  Redis,       \* the store they share
  Calls,       \* requests of the client
  Limit,       \* requests in a window
  Window,
  MaxTime      \* bound: the clock

Stores == Workers \cup {Redis}

\* What the constants are.
RateLimiterAssumption ==
  /\ Redis \notin Workers
  /\ Limit \in Nat /\ Window \in Nat \ {0} /\ MaxTime \in Nat

VARIABLES
  now,         \* the clock
  window,      \* what a store keeps: calls with their time
  pc,          \* a call is new, goes to a worker's own list, or is answered
  by,          \* the worker that serves a call; Redis for none
  at,          \* when a call began
  accepted,    \* the calls that passed, with their time and the store that counted them
  late         \* history: calls that a store counted after a call that began later

vars == <<now, window, pc, by, at, accepted, late>>

Init ==
  /\ now = 0
  /\ window = [s \in Stores |-> {}]
  /\ pc = [c \in Calls |-> "new"]
  /\ by = [c \in Calls |-> Redis]
  /\ at = [c \in Calls |-> 0]
  /\ accepted = {}
  /\ late = {}

Tick ==
  /\ now < MaxTime
  /\ now' = now + 1
  /\ UNCHANGED <<window, pc, by, at, accepted, late>>

\* Mutant of Kept: the window is cut one unit short.
KeptShort(s, t) == {x \in window[s] : x.at + Window > t + 1}

\* What is left of a store's window at time t.
Kept(s, t) == {x \in window[s] : x.at + Window > t}

\* A call is counted in the store s, whether it is accepted or not.
Count(c, s, t) ==
  LET kept == Kept(s, t) \cup {[call |-> c, at |-> t]} IN
  /\ window' = [window EXCEPT ![s] = kept]
  /\ accepted' = IF Cardinality(kept) <= Limit THEN accepted \cup {[call |-> c, at |-> t, in |-> s]} ELSE accepted
  /\ late' = IF \E x \in window[s] : x.at > t THEN late \cup {c} ELSE late

\* The time is taken before Redis is asked.
Begin(c, w) ==
  /\ pc[c] = "new"
  /\ pc' = [pc EXCEPT ![c] = "redis"]
  /\ by' = [by EXCEPT ![c] = w]
  /\ at' = [at EXCEPT ![c] = now]
  /\ UNCHANGED <<now, window, accepted, late>>

\* The pipeline runs as a whole.
AskRedis(c) ==
  /\ pc[c] = "redis"
  /\ Count(c, Redis, at[c])
  /\ pc' = [pc EXCEPT ![c] = "done"]
  /\ UNCHANGED <<now, by, at>>

\* Redis does not answer in time; it may have counted the call.
RedisFails(c) ==
  /\ pc[c] = "redis"
  /\ \/ UNCHANGED window
     \/ window' = [window EXCEPT ![Redis] = Kept(Redis, at[c]) \cup {[call |-> c, at |-> at[c]]}]
  /\ pc' = [pc EXCEPT ![c] = "own"]
  /\ UNCHANGED <<now, by, at, accepted, late>>

\* The list of the worker, in which nothing awaits.
AskOwn(c) ==
  /\ pc[c] = "own"
  /\ Count(c, by[c], at[c])
  /\ pc' = [pc EXCEPT ![c] = "done"]
  /\ UNCHANGED <<now, by, at>>

\* A worker starts again with an empty list.
Restart(w) ==
  /\ \A c \in Calls : by[c] = w => pc[c] = "done"
  /\ window[w] # {}
  /\ window' = [window EXCEPT ![w] = {}]
  /\ accepted' = {x \in accepted : x.in # w}
  /\ UNCHANGED <<now, pc, by, at, late>>

Next ==
  \/ Tick
  \/ \E c \in Calls, w \in Workers : Begin(c, w)
  \/ \E c \in Calls : AskRedis(c) \/ RedisFails(c) \/ AskOwn(c)
  \/ \E w \in Workers : Restart(w)
  \/ (\A c \in Calls : pc[c] = "done") /\ UNCHANGED vars

Spec == Init /\ [][Next]_vars

-----------------------------------------------------------------------------
(***************************************************************************)
(* Properties.                                                             *)
(***************************************************************************)
\* Every variable has its type.
TypeOK ==
  /\ now \in 0..MaxTime
  /\ window \in [Stores -> SUBSET [call : Calls, at : 0..MaxTime]]
  /\ pc \in [Calls -> {"new", "redis", "own", "done"}]
  /\ by \in [Calls -> Stores]
  /\ at \in [Calls -> 0..MaxTime]
  /\ accepted \subseteq [call : Calls, at : 0..MaxTime, in : Stores]
  /\ late \subseteq Calls

\* In no stretch of time as long as the window does a store let more calls pass
\* than the limit, however calls fail over and workers start again; save those
\* that asked it after a call that began later had cut the window.
WithinLimit ==
  \A s \in Stores, t \in 0..MaxTime :
    Cardinality({x \in accepted : x.in = s /\ x.call \notin late /\ t <= x.at /\ x.at < t + Window}) <= Limit
=============================================================================
