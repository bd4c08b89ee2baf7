-------------------------- MODULE AutoscalingCache --------------------------
(***************************************************************************)
(* collectAutoscalingCapacity, src/shared/autoscaling-capacity.js, and the *)
(* cache of the cloud inventory it calls, agent/src/cloud-autoscaling.js.  *)
(* Unlike the posture cache a call that waited looks again: a forced one   *)
(* then starts a collection of its own, and a full cache evicts the oldest *)
(* scope even while it is collected.  An entry is known by who made it.    *)
(***************************************************************************)
EXTENDS Integers, Sequences, FiniteSets, InsertionOrder

CONSTANTS
    Calls, ScopeNames,
    TTL,        \* CACHE_TTL_MS
    FreshTTL,   \* FRESH_MS of the cloud inventory
    MaxScopes,  \* MAX_CACHE_SCOPES
    MaxClock    \* bound on the time a behaviour takes

Nobody == "nobody"

\* What is asked of the constants; who instances the module assumes it.
BoundAssumption ==
    /\ TTL \in Nat \ {0} /\ FreshTTL \in Nat \ {0} /\ MaxScopes \in Nat \ {0} /\ MaxClock \in Nat
    /\ Nobody \notin Calls

VARIABLES
    clock,
    cache,   \* scope -> [by, made]: who made the entry, when it got its value
    order,   \* the scopes of the cache, oldest insertion first
    cloud,   \* [made, good, loading]: the cloud inventory, and whether a provider answered
    call     \* call -> phase, scope, forced, at, on (whose collection it awaits), made

vars == <<clock, cache, order, cloud, call>>

NoTime == -1

IdleCall == [phase |-> "idle", scope |-> "none", forced |-> FALSE, at |-> 0, on |-> Nobody, made |-> NoTime]

Init ==
    /\ clock = 0
    /\ cache = [s \in {} |-> 0]
    /\ order = <<>>
    /\ cloud = [made |-> NoTime, good |-> FALSE, loading |-> FALSE]
    /\ call = [c \in Calls |-> IdleCall]

Tick ==
    /\ clock < MaxClock
    /\ clock' = clock + 1
    /\ UNCHANGED <<cache, order, cloud, call>>

\* entry.inflight is set for as long as its maker collects it.
Collecting(c) == call[c].phase \in {"collecting", "cloud", "analyzing"}

Inflight(s) == s \in DOMAIN cache /\ cache[s].by # Nobody

\* Mutant: a value is used however old it is.
LooksAgainIfForced(forced, made) == forced \/ made = NoTime

LooksAgain(forced, made) == forced \/ made = NoTime \/ made + TTL =< clock

Enter(c, s, forced, phase, on, made) ==
    call' = [call EXCEPT ![c] = [phase |-> phase, scope |-> s, forced |-> forced, at |-> clock,
                                 on |-> on, made |-> made]]

\* cache.set, after the scopes that are not kept were deleted: an entry of the caller's.
Set(c, s, kept) ==
    /\ order' = Placed(Only(order, kept), s)
    /\ cache' = [o \in kept \cup {s} |-> IF o = s THEN [by |-> c, made |-> NoTime] ELSE cache[o]]

Receive(c) == \E s \in ScopeNames, forced \in BOOLEAN :
    /\ call[c].phase \in {"idle", "answered", "failed"}
    /\ \A d \in Calls : call[d].phase # "again"
    /\ \/ /\ Inflight(s)
          /\ Enter(c, s, forced, "waiting", cache[s].by, NoTime)
          /\ UNCHANGED <<cache, order>>
       \/ /\ s \in DOMAIN cache /\ ~Inflight(s) /\ ~LooksAgain(forced, cache[s].made)
          /\ Enter(c, s, forced, "answered", Nobody, cache[s].made)
          /\ UNCHANGED <<cache, order>>
       \/ /\ s \in DOMAIN cache /\ ~Inflight(s) /\ LooksAgain(forced, cache[s].made)
          /\ Set(c, s, DOMAIN cache)
          /\ Enter(c, s, forced, "collecting", c, NoTime)
       \/ /\ s \notin DOMAIN cache
          /\ Set(c, s, IF Cardinality(DOMAIN cache) >= MaxScopes THEN DOMAIN cache \ {Head(order)} ELSE DOMAIN cache)
          /\ Enter(c, s, forced, "collecting", c, NoTime)
    /\ UNCHANGED <<clock, cloud>>

CloudIsFresh == cloud.made # NoTime /\ cloud.made + FreshTTL > clock

\* The sources are read, then the cloud inventory: kept, being loaded, or loaded now.
AskCloud(c) ==
    /\ call[c].phase = "collecting"
    /\ IF CloudIsFresh /\ ~cloud.loading
       THEN call' = [call EXCEPT ![c].phase = "analyzing"] /\ UNCHANGED cloud
       ELSE call' = [call EXCEPT ![c].phase = "cloud"] /\ cloud' = [cloud EXCEPT !.loading = TRUE]
    /\ UNCHANGED <<clock, cache, order>>

\* Every provider error is caught per profile: the load never fails, and what it
\* brings replaces the inventory also when every provider failed.
CloudLoads ==
    /\ cloud.loading
    /\ \E good \in BOOLEAN : cloud' = [made |-> clock, good |-> good, loading |-> FALSE]
    /\ call' = [c \in Calls |-> IF call[c].phase = "cloud" THEN [call[c] EXCEPT !.phase = "analyzing"]
                                ELSE call[c]]
    /\ UNCHANGED <<clock, cache, order>>

Mine(c) == call[c].scope \in DOMAIN cache /\ cache[call[c].scope].by = c

\* Those who waited for the collection of c look at what it brought.
AfterWait(c, d) ==
    IF LooksAgain(call[d].forced, clock) THEN [call[d] EXCEPT !.phase = "again", !.on = Nobody]
    ELSE [call[d] EXCEPT !.phase = "answered", !.on = Nobody, !.made = clock]

Succeed(c) ==
    /\ call[c].phase = "analyzing"
    /\ cache' = IF Mine(c) THEN [cache EXCEPT ![call[c].scope] = [by |-> Nobody, made |-> clock]] ELSE cache
    /\ call' = [d \in Calls |->
                  IF d = c THEN [call[c] EXCEPT !.phase = "answered", !.on = Nobody, !.made = clock]
                  ELSE IF call[d].phase = "waiting" /\ call[d].on = c THEN AfterWait(c, d) ELSE call[d]]
    /\ UNCHANGED <<clock, order, cloud>>

\* collect rejects: the failure is shared, an entry without a value stays.
Fail(c) ==
    /\ Collecting(c)
    /\ cache' = IF Mine(c) THEN [cache EXCEPT ![call[c].scope] = [by |-> Nobody, made |-> NoTime]] ELSE cache
    /\ call' = [d \in Calls |-> IF call[d].on = c
                  THEN [call[d] EXCEPT !.phase = "failed", !.on = Nobody] ELSE call[d]]
    /\ UNCHANGED <<clock, order, cloud>>

\* It held on to an entry, so nothing is evicted, wherever that entry is by now.
CollectAgain(c) ==
    /\ call[c].phase = "again"
    /\ Set(c, call[c].scope, DOMAIN cache)
    /\ call' = [call EXCEPT ![c].phase = "collecting", ![c].on = c]
    /\ UNCHANGED <<clock, cloud>>

Next ==
    \/ Tick \/ CloudLoads
    \/ \E c \in Calls : Receive(c) \/ AskCloud(c) \/ Succeed(c) \/ Fail(c) \/ CollectAgain(c)

Spec == Init /\ [][Next]_vars

-----------------------------------------------------------------------------
TypeOK ==
    /\ clock \in 0..MaxClock
    /\ DOMAIN cache \subseteq ScopeNames
    /\ \A s \in DOMAIN cache : cache[s] \in [by : Calls \cup {Nobody}, made : NoTime..MaxClock]
    /\ Orders(order, DOMAIN cache)
    /\ cloud \in [made : NoTime..MaxClock, good : BOOLEAN, loading : BOOLEAN]
    /\ call \in [Calls -> [phase : {"idle", "waiting", "collecting", "cloud", "analyzing", "again", "answered", "failed"},
                           scope : ScopeNames \cup {"none"}, forced : BOOLEAN, at : 0..MaxClock,
                           on : Calls \cup {Nobody}, made : NoTime..MaxClock]]

\* A forced call is given what was finished after it came in, any other what was
\* younger than the cache time (autoscaling-capacity.js:604-612).
AnswersAreFresh ==
    \A c \in Calls : call[c].phase = "answered" =>
        IF call[c].forced THEN call[c].made >= call[c].at
        ELSE call[c].made + TTL > call[c].at

\* Whoever waits, waits for a collection that runs, even one whose entry was evicted
\* or replaced meanwhile; and an entry in flight has its maker collecting that scope.
NobodyIsLeft ==
    /\ \A c \in Calls : call[c].phase = "waiting" =>
          /\ call[c].on # Nobody /\ Collecting(call[c].on)
          /\ call[call[c].on].scope = call[c].scope
    /\ \A s \in DOMAIN cache : Inflight(s) => Collecting(cache[s].by) /\ call[cache[s].by].scope = s
=============================================================================
