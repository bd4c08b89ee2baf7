---------------------------- MODULE PostureCache ----------------------------
(***************************************************************************)
(* collectPolicyPosture, src/shared/policy-posture.js: one collection per  *)
(* namespace scope at a time, its summary kept for a short time, a bounded *)
(* number of scopes.  All calls are of one transport.                      *)
(***************************************************************************)
EXTENDS Integers, Sequences, FiniteSets, InsertionOrder

CONSTANTS
    Calls, ScopeNames,
    TTL,        \* CACHE_TTL_MS
    MaxScopes,  \* MAX_CACHED_SCOPES
    MaxClock    \* bound on the time a behaviour takes

\* What is asked of the constants; who instances the module assumes it.
BoundAssumption == TTL \in Nat \ {0} /\ MaxScopes \in Nat \ {0} /\ MaxClock \in Nat

VARIABLES
    clock,
    cache,    \* scope -> the time its summary was made (NoTime while inflight)
    order,    \* the scopes of the cache, oldest insertion first
    inflight, \* the scopes being collected
    call      \* call -> phase, scope, forced, at, summary

vars == <<clock, cache, order, inflight, call>>

NoTime == -1

IdleCall == [phase |-> "idle", scope |-> "none", forced |-> FALSE, at |-> 0, summary |-> NoTime]

Init ==
    /\ clock = 0
    /\ cache = [s \in {} |-> NoTime]
    /\ order = <<>>
    /\ inflight = {}
    /\ call = [c \in Calls |-> IdleCall]

Tick ==
    /\ clock < MaxClock
    /\ clock' = clock + 1
    /\ UNCHANGED <<cache, order, inflight, call>>

Usable(s, forced) == s \in DOMAIN cache /\ cache[s] # NoTime /\ ~forced /\ cache[s] + TTL > clock

Enter(c, s, forced, phase, summary) ==
    call' = [call EXCEPT ![c] = [phase |-> phase, scope |-> s, forced |-> forced,
                                 at |-> clock, summary |-> summary]]

Evictable == DOMAIN cache \ inflight

Full(s) == s \notin DOMAIN cache /\ Cardinality(DOMAIN cache) >= MaxScopes

Join(c, s, forced) ==
    /\ s \in inflight
    /\ Enter(c, s, forced, "waiting", NoTime)
    /\ UNCHANGED <<cache, order, inflight>>

Hit(c, s, forced) ==
    /\ s \notin inflight /\ Usable(s, forced)
    /\ Enter(c, s, forced, "answered", cache[s])
    /\ UNCHANGED <<cache, order, inflight>>

\* Every scope of a full cache is being collected.
Refuse(c, s, forced) ==
    /\ s \notin inflight /\ ~Usable(s, forced)
    /\ Full(s) /\ Evictable = {}
    /\ Enter(c, s, forced, "failed", NoTime)
    /\ UNCHANGED <<cache, order, inflight>>

\* cache.set, after the scopes that are not kept were deleted.
Insert(s, kept) ==
    /\ order' = Placed(Only(order, kept), s)
    /\ cache' = [o \in kept \cup {s} |-> IF o = s THEN NoTime ELSE cache[o]]

\* Mutant: the oldest scope is evicted, collected or not.
CollectEvictingOldest(c, s, forced) ==
    /\ s \notin inflight /\ ~Usable(s, forced)
    /\ ~(Full(s) /\ Evictable = {})
    /\ LET kept == IF Full(s) THEN DOMAIN cache \ {Head(order)} ELSE DOMAIN cache
       IN  Insert(s, kept) /\ inflight' = (inflight \cap kept) \cup {s}
    /\ Enter(c, s, forced, "waiting", NoTime)

Collect(c, s, forced) ==
    /\ s \notin inflight /\ ~Usable(s, forced)
    /\ ~(Full(s) /\ Evictable = {})
    /\ Insert(s, IF Full(s) THEN DOMAIN cache \ {Oldest(order, Evictable)} ELSE DOMAIN cache)
    /\ inflight' = inflight \cup {s}
    /\ Enter(c, s, forced, "waiting", NoTime)

Receive(c) == \E s \in ScopeNames, forced \in BOOLEAN :
    /\ call[c].phase # "waiting"
    /\ Join(c, s, forced) \/ Hit(c, s, forced) \/ Refuse(c, s, forced) \/ Collect(c, s, forced)
    /\ UNCHANGED clock

Release(s, phase, summary) ==
    call' = [c \in Calls |-> IF call[c].phase = "waiting" /\ call[c].scope = s
                THEN [call[c] EXCEPT !.phase = phase, !.summary = summary] ELSE call[c]]

Succeed(s) ==
    /\ s \in inflight
    /\ cache' = [cache EXCEPT ![s] = clock]
    /\ inflight' = inflight \ {s}
    /\ Release(s, "answered", clock)
    /\ UNCHANGED <<clock, order>>

\* The collection rejects: the entry goes, and so does the summary it replaced.
Fail(s) ==
    /\ s \in inflight
    /\ cache' = [o \in DOMAIN cache \ {s} |-> cache[o]]
    /\ order' = Only(order, DOMAIN cache \ {s})
    /\ inflight' = inflight \ {s}
    /\ Release(s, "failed", NoTime)
    /\ UNCHANGED clock

Next ==
    \/ Tick
    \/ \E c \in Calls : Receive(c)
    \/ \E s \in ScopeNames : Succeed(s) \/ Fail(s)

Spec == Init /\ [][Next]_vars

-----------------------------------------------------------------------------
\* Types; the scopes are bounded and the order is that of the cache.
TypeOK ==
    /\ clock \in 0..MaxClock
    /\ DOMAIN cache \subseteq ScopeNames /\ \A s \in DOMAIN cache : cache[s] \in NoTime..MaxClock
    /\ Cardinality(DOMAIN cache) =< MaxScopes
    /\ Orders(order, DOMAIN cache)
    /\ inflight = {s \in DOMAIN cache : cache[s] = NoTime}
    /\ call \in [Calls -> [phase : {"idle", "waiting", "answered", "failed"}, scope : ScopeNames \cup {"none"},
                           forced : BOOLEAN, at : 0..MaxClock, summary : NoTime..MaxClock]]

\* "Refresh bypasses settled data, never duplicates a currently running collection"
\* (policy-posture.js:83): what a forced call is given was finished after the call,
\* what any other is given was younger than the cache time.
AnswersAreFresh ==
    \A c \in Calls : call[c].phase = "answered" =>
        IF call[c].forced THEN call[c].summary >= call[c].at
        ELSE call[c].summary + TTL > call[c].at

Collections == INSTANCE SharedLoad WITH
    Readers <- Calls, Keys <- ScopeNames, loads <- inflight,
    waiting <- {<<c, call[c].scope>> : c \in {d \in Calls : call[d].phase = "waiting"}}

\* One collection per scope, shared by all who need it, its end releases them all.
SharesLoads == Collections!Spec
=============================================================================
