---------------------------- MODULE ServingProofs ----------------------------
(***************************************************************************)
(* Proofs about Serving: the CI cache for any readers, times and bound on  *)
(* the clock; the posture and autoscaling caches for any calls, scopes and *)
(* bounds; and what follows for the whole, the server with it.             *)
(***************************************************************************)
EXTENDS Serving, DataProofs, TLAPS

USE TimeAssumption

LEMMA TypeInit == Init => TypeOK
  BY DEF Init, TypeOK, Given

\* What is stored and given is well typed; expiry never lies further ahead than the
\* longest Retry-After (retryDelayMs, ci/index.js line 45).
LEMMA TypeStep == TypeOK /\ [Next]_vars => TypeOK'
<1> SUFFICES ASSUME TypeOK, [Next]_vars
             PROVE  TypeOK'
  OBVIOUS
<1> USE DEF TypeOK, Given, Entries, Answers, Values
<1>1. CASE Tick
  BY <1>1 DEF Tick
<1>2. ASSUME NEW r \in Readers, Call(r) PROVE TypeOK'
  BY <1>2 DEF Call
<1>3. ASSUME NEW r \in Readers, Hit(r) PROVE TypeOK'
  <2>1. Answer(cache.value, TRUE, FALSE, cache.value.kind = "failure") \in Answers
    BY <1>3 DEF Hit, Usable, Answer
  <2>2. QED
    BY <1>3, <2>1 DEF Hit
<1>4. ASSUME NEW r \in Readers, Join(r) PROVE TypeOK'
  BY <1>4 DEF Join
<1>5. ASSUME NEW r \in Readers, Load(r) PROVE TypeOK'
  BY <1>5 DEF Load
<1>6. ASSUME NEW request \in loading, NEW given \in Answers, Settle(request, given),
             cache' \in Entries, retryAt' \in 0..(MaxClock + MaxRetry), UNCHANGED <<clock, now>>
      PROVE  TypeOK'
  BY <1>6 DEF Settle
<1>7. ASSUME NEW request \in loading, Succeed(request), UNCHANGED <<clock, now>> PROVE TypeOK'
  <2> DEFINE value == [kind |-> "snapshot", at |-> clock]
  <2>1. Answer(value, FALSE, FALSE, FALSE) \in Answers
    BY DEF Answer
  <2>2. cache' \in Entries /\ retryAt' \in 0..(MaxClock + MaxRetry)
    BY <1>7 DEF Succeed, Entry
  <2>3. Settle(request, Answer(value, FALSE, FALSE, FALSE))
    BY <1>7 DEF Succeed
  <2>4. QED
    BY <1>6, <1>7, <2>1, <2>2, <2>3
<1>8. ASSUME NEW request \in loading, NEW delay \in Delays, FailShowingStale(request, delay),
             UNCHANGED <<clock, now>>
      PROVE  TypeOK'
  <2>1. request.found \in Entries
    BY <1>8 DEF FailShowingStale, StillShown
  <2>2. Answer(request.found.value, TRUE, TRUE, TRUE) \in Answers
    BY <2>1 DEF Answer
  <2>3. clock + delay \in 0..(MaxClock + MaxRetry)
    BY DEF Delays
  <2>4. cache' \in Entries /\ retryAt' \in 0..(MaxClock + MaxRetry)
    BY <1>8, <2>1, <2>3 DEF FailShowingStale
  <2>5. Settle(request, Answer(request.found.value, TRUE, TRUE, TRUE))
    BY <1>8 DEF FailShowingStale
  <2>6. QED
    BY <1>6, <1>8, <2>2, <2>4, <2>5
<1>9. ASSUME NEW request \in loading, NEW delay \in Delays, FailWithNothing(request, delay),
             UNCHANGED <<clock, now>>
      PROVE  TypeOK'
  <2> DEFINE failure == [kind |-> "failure", at |-> clock]
  <2>1. clock + delay \in 0..(MaxClock + MaxRetry)
    BY DEF Delays
  <2>2. Answer(failure, FALSE, FALSE, TRUE) \in Answers
    BY DEF Answer
  <2>3. cache' \in Entries /\ retryAt' \in 0..(MaxClock + MaxRetry)
    BY <1>9, <2>1 DEF FailWithNothing, Entry
  <2>4. Settle(request, Answer(failure, FALSE, FALSE, TRUE))
    BY <1>9 DEF FailWithNothing
  <2>5. QED
    BY <1>6, <1>9, <2>2, <2>3, <2>4
<1>10. CASE UNCHANGED vars
  BY <1>10 DEF vars
<1>11. QED
  BY <1>1, <1>2, <1>3, <1>4, <1>5, <1>7, <1>8, <1>9, <1>10 DEF Next, Lookup, LoadSettles

\* Every reachable state is well typed.
THEOREM TypeCorrect == Spec => []TypeOK
  BY TypeInit, TypeStep, PTL DEF Spec

-----------------------------------------------------------------------------
\* What an entry's two times mean: a snapshot is shown for StaleTTL after it was
\* loaded (lines 59-63), a failure until it expires (lines 83-89).
Sound(entry) ==
    /\ entry \in Entries
    /\ entry.value.at =< clock
    /\ entry.value.kind = "snapshot" => entry.staleUntil = entry.value.at + StaleTTL
    /\ entry.value.kind = "failure" => entry.staleUntil = entry.expiresAt

ReadersInThePast == \A r \in Readers : now[r] =< clock

CacheIsSound == cache # None => Sound(cache)

\* A request starts only once the entry it found has expired, so the failure it
\* may have found is never shown.
FoundIsSound ==
    \A request \in loading : request.found # None =>
        /\ Sound(request.found)
        /\ request.found.value.kind = "failure" => request.found.staleUntil =< clock

SingleFlight ==
    /\ \A q1, q2 \in loading : q1 = q2
    /\ (\E r \in Readers : reader[r] = "waiting") => loading # {}

\* A failure always leaves an entry that outlives the wait.
FailureRemembered == retryAt = 0 \/ (cache # None /\ cache.expiresAt >= retryAt)

Inv ==
    /\ TypeOK /\ ReadersInThePast
    /\ CacheIsSound /\ FoundIsSound /\ SingleFlight /\ FailureRemembered
    /\ StaleIsBounded

LEMMA InvInit == Init => Inv
  BY TypeInit DEF Init, Inv, ReadersInThePast, CacheIsSound, FoundIsSound, SingleFlight,
                  FailureRemembered, StaleIsBounded, Given

\* An answer that is given now.
Bounded(given) == given.stale => /\ given.value.kind = "snapshot" /\ given.issues
                                 /\ given.given - given.value.at < StaleTTL

\* Settling a request keeps what concerns the readers, whatever answer is given as
\* long as the answer itself is within the stale bound.
LEMMA SettleStep ==
  ASSUME Inv, NEW request \in loading, NEW given, Bounded(given), Settle(request, given),
         UNCHANGED <<clock, now>>
  PROVE  ReadersInThePast' /\ FoundIsSound' /\ SingleFlight' /\ StaleIsBounded'
<1> USE DEF Inv, TypeOK
<1>1. ReadersInThePast'
  BY DEF ReadersInThePast
<1>2. FoundIsSound'
  BY DEF FoundIsSound, Sound, Settle
<1>3. SingleFlight'
  BY DEF SingleFlight, Settle
<1>4. StaleIsBounded'
  BY DEF StaleIsBounded, Settle, Bounded, Given
<1>5. QED
  BY <1>1, <1>2, <1>3, <1>4

LEMMA InvStep == Inv /\ [Next]_vars => Inv'
<1> SUFFICES ASSUME Inv, [Next]_vars
             PROVE  Inv'
  OBVIOUS
<1>1. TypeOK'
  BY TypeStep DEF Inv
<1> DEFINE Rest == /\ ReadersInThePast /\ CacheIsSound /\ FoundIsSound
                   /\ SingleFlight /\ FailureRemembered /\ StaleIsBounded
<1> USE DEF ReadersInThePast, CacheIsSound, FoundIsSound, SingleFlight, FailureRemembered,
            StaleIsBounded, Sound, Given
<1>2. ASSUME Tick PROVE Rest'
  BY <1>2 DEF Tick, Inv, TypeOK, Entries, Values
<1>3. ASSUME NEW r \in Readers, Call(r) PROVE Rest'
  BY <1>3 DEF Call, Inv, TypeOK
<1>4. ASSUME NEW r \in Readers, Hit(r) PROVE Rest'
  BY <1>4 DEF Hit, Answer, Inv, TypeOK
<1>5. ASSUME NEW r \in Readers, Join(r) PROVE Rest'
  BY <1>5 DEF Join, Inv, TypeOK
<1>6. ASSUME NEW r \in Readers, Load(r) PROVE Rest'
  <2>1. cache # None /\ cache.value.kind = "failure" => cache.staleUntil =< clock
    BY <1>6 DEF Load, Usable, Inv, TypeOK, Entries
  <2>2. FoundIsSound'
    BY <1>6, <2>1 DEF Load, Inv
  <2>3. QED
    BY <1>6, <2>2 DEF Load, Inv, TypeOK
<1>7. ASSUME NEW request \in loading, Succeed(request), UNCHANGED <<clock, now>> PROVE Rest'
  <2> DEFINE given == Answer([kind |-> "snapshot", at |-> clock], FALSE, FALSE, FALSE)
  <2>1. Bounded(given) /\ Settle(request, given)
    BY <1>7 DEF Succeed, Bounded, Answer
  <2>2. ReadersInThePast' /\ FoundIsSound' /\ SingleFlight' /\ StaleIsBounded'
    BY <1>7, <2>1, SettleStep
  <2>3. CacheIsSound' /\ FailureRemembered'
    BY <1>7, <1>1 DEF Succeed, Entry, Inv, TypeOK
  <2>4. QED
    BY <2>2, <2>3
<1>8. ASSUME NEW request \in loading, NEW delay \in Delays, FailShowingStale(request, delay),
             UNCHANGED <<clock, now>>
      PROVE  Rest'
  <2> DEFINE given == Answer(request.found.value, TRUE, TRUE, TRUE)
  <2>1. Sound(request.found) /\ request.found.staleUntil > clock
    BY <1>8 DEF FailShowingStale, StillShown, Inv
  <2>2. request.found.value.kind = "snapshot"
    BY <1>8, <2>1 DEF FailShowingStale, StillShown, Inv, TypeOK, Entries, Values
  <2>3. Bounded(given) /\ Settle(request, given)
    BY <1>8, <2>1, <2>2 DEF FailShowingStale, Bounded, Answer, Inv, TypeOK, Entries, Values
  <2>4. ReadersInThePast' /\ FoundIsSound' /\ SingleFlight' /\ StaleIsBounded'
    BY <1>8, <2>3, SettleStep
  <2>5. CacheIsSound' /\ FailureRemembered'
    <3>1. cache' \in Entries
      BY <1>8, <2>1 DEF FailShowingStale, Inv, TypeOK, Entries, Delays
    <3>2. QED
      BY <1>8, <2>1, <2>2, <3>1, NoneAssumption DEF FailShowingStale, Inv, TypeOK, Entries, Delays
  <2>6. QED
    BY <2>4, <2>5
<1>9. ASSUME NEW request \in loading, NEW delay \in Delays, FailWithNothing(request, delay),
             UNCHANGED <<clock, now>>
      PROVE  Rest'
  <2> DEFINE given == Answer([kind |-> "failure", at |-> clock], FALSE, FALSE, TRUE)
  <2>1. Bounded(given) /\ Settle(request, given)
    BY <1>9 DEF FailWithNothing, Bounded, Answer
  <2>2. ReadersInThePast' /\ FoundIsSound' /\ SingleFlight' /\ StaleIsBounded'
    BY <1>9, <2>1, SettleStep
  <2>3. CacheIsSound' /\ FailureRemembered'
    <3>1. cache' \in Entries
      BY <1>9 DEF FailWithNothing, Entry, Inv, TypeOK, Entries, Values, Delays
    <3>2. QED
      BY <1>9, <3>1, NoneAssumption DEF FailWithNothing, Entry, Inv, TypeOK, Delays
  <2>4. QED
    BY <2>2, <2>3
<1>10. ASSUME UNCHANGED vars PROVE Rest'
  BY <1>10 DEF vars, Inv
<1>11. Rest'
  BY <1>2, <1>3, <1>4, <1>5, <1>6, <1>7, <1>8, <1>9, <1>10 DEF Next, Lookup, LoadSettles
<1>12. QED
  BY <1>1, <1>11 DEF Inv

LEMMA InvCorrect == Spec => []Inv
  BY InvInit, InvStep, PTL DEF Spec

\* The provider of an instance is never asked twice at a time (loadInstance, line
\* 99), and nobody waits without a request.
THEOREM OneRequestCorrect == Spec => []OneRequest
<1>1. ASSUME Inv PROVE OneRequest
  <2>1. CASE loading = {}
    BY <1>1, <2>1, FS_EmptySet DEF Inv, SingleFlight, OneRequest
  <2>2. CASE loading # {}
    <3>1. PICK request \in loading : loading = {request}
      BY <1>1, <2>2 DEF Inv, SingleFlight
    <3>2. QED
      BY <1>1, <3>1, FS_Singleton DEF Inv, SingleFlight, OneRequest
  <2>3. QED
    BY <2>1, <2>2
<1>2. QED
  BY <1>1, InvCorrect, PTL

\* A snapshot shown as stale is younger than StaleTTL, however many failures
\* prolonged its entry (loadInstanceUncached, lines 68-77).
THEOREM StaleIsBoundedCorrect == Spec => []StaleIsBounded
<1>1. Inv => StaleIsBounded
  BY DEF Inv
<1>2. QED
  BY <1>1, InvCorrect, PTL

\* A provider that failed is not asked before the wait it asked for is over
\* (retryDelayMs and loadInstance, lines 97-102), also by a reader whose time is old.
THEOREM RetryAfterCorrect == Spec => RetryAfterHonoured
<1>1. ASSUME Inv, [Next]_vars PROVE [loading' \ loading # {} => clock >= retryAt]_vars
  <2>1. ASSUME NEW r \in Readers, Load(r) PROVE clock >= retryAt
    BY <1>1, <2>1 DEF Load, Usable, Inv, TypeOK, ReadersInThePast, CacheIsSound, Sound,
                      Entries, FailureRemembered
  <2>2. \/ \E r \in Readers : Load(r)
        \/ loading' = loading
        \/ \E request \in loading : loading' = loading \ {request}
    BY <1>1 DEF Next, vars, Tick, Call, Lookup, Hit, Join, LoadSettles, Succeed,
                FailShowingStale, FailWithNothing, Settle
  <2>3. QED
    BY <2>1, <2>2
<1>2. QED
  BY <1>1, InvCorrect, PTL DEF Spec, RetryAfterHonoured

-----------------------------------------------------------------------------
(* The cache implements SharedLoad: the load in flight is the request, who   *)
(* waits for it are the waiting readers.                                     *)

Loads == IF loading = {} THEN {} ELSE {"ci"}
Waiting == {<<r, "ci">> : r \in {q \in Readers : reader[q] = "waiting"}}

LEMMA Mapping == /\ Sharing!Init <=> Loads = {} /\ Waiting = {}
                 /\ (UNCHANGED Sharing!vars) <=> Loads' = Loads /\ Waiting' = Waiting
                 /\ \A r \in Readers : Sharing!Wait(r, "ci") <=>
                       /\ <<r, "ci">> \notin Waiting
                       /\ Loads' = Loads \cup {"ci"}
                       /\ Waiting' = Waiting \cup {<<r, "ci">>}
                 /\ Sharing!Finish("ci") <=>
                       /\ "ci" \in Loads
                       /\ Loads' = Loads \ {"ci"}
                       /\ Waiting' = {w \in Waiting : w[2] # "ci"}
                 /\ Sharing!Next <=> (\E r \in Readers : Sharing!Wait(r, "ci")) \/ Sharing!Finish("ci")
  BY DEF Loads, Waiting, Sharing!Init, Sharing!vars, Sharing!Wait, Sharing!Finish, Sharing!Next

\* What the steps of the cache are to the readers who wait.
LEMMA LoadOrJoinWaits ==
    ASSUME Inv, NEW r \in Readers, Load(r) \/ Join(r)
    PROVE  Sharing!Wait(r, "ci")
<1>1. reader[r] = "called" /\ reader' = [reader EXCEPT ![r] = "waiting"]
  BY DEF Load, Join
<1>2. <<r, "ci">> \notin Waiting
  BY <1>1 DEF Waiting
<1>3. Waiting' = Waiting \cup {<<r, "ci">>}
  BY <1>1 DEF Waiting, Inv, TypeOK
<1>4. Loads' = Loads \cup {"ci"}
  BY DEF Load, Join, Loads
<1> QED
  BY <1>2, <1>3, <1>4, Mapping

LEMMA SettleFinishes ==
    ASSUME Inv, NEW request \in loading, NEW given, Settle(request, given)
    PROVE  Sharing!Finish("ci")
<1>1. loading = {request} /\ loading' = {}
  BY DEF Inv, SingleFlight, Settle
<1>2. Waiting' = {}
  BY DEF Settle, Waiting
<1>3. {w \in Waiting : w[2] # "ci"} = {}
  BY DEF Waiting
<1>4. Loads = {"ci"} /\ Loads' = {}
  BY <1>1 DEF Loads
<1> QED
  BY <1>2, <1>3, <1>4, Mapping

\* The readers of an instance share one load and are all released by its end, as
\* SharedLoad promises (inFlight, ci/index.js lines 99-108).
THEOREM ImplementsSharedLoad == Spec => SharesLoads
<1>1. Init => Sharing!Init
  BY Mapping DEF Init, Loads, Waiting
<1>2. ASSUME Inv, [Next]_vars PROVE [Sharing!Next]_(Sharing!vars)
  <2>1. ASSUME NEW r \in Readers, Load(r) \/ Join(r) PROVE Sharing!Next
    BY <1>2, <2>1, LoadOrJoinWaits, Mapping
  <2>2. CASE LoadSettles
    <3>1. PICK request \in loading : \E given : Settle(request, given)
      BY <2>2 DEF LoadSettles, Succeed, FailShowingStale, FailWithNothing
    <3> QED
      BY <1>2, <3>1, SettleFinishes, Mapping
  <2>3. ASSUME UNCHANGED <<loading, reader>> PROVE UNCHANGED Sharing!vars
    <3>1. Loads' = Loads /\ Waiting' = Waiting
      BY <2>3 DEF Loads, Waiting
    <3> QED
      BY <3>1, Mapping
  <2>4. ASSUME NEW r \in Readers, Call(r) \/ Hit(r) PROVE UNCHANGED Sharing!vars
    <3>1. UNCHANGED loading
      BY <2>4 DEF Call, Hit
    <3>2. \A q \in Readers : reader'[q] = "waiting" <=> reader[q] = "waiting"
      BY <1>2, <2>4 DEF Call, Hit, Inv, TypeOK
    <3>3. Loads' = Loads
      BY <3>1 DEF Loads
    <3>4. Waiting' = Waiting
      BY <3>2 DEF Waiting
    <3> QED
      BY <3>3, <3>4, Mapping
  <2> QED
    BY <1>2, <2>1, <2>2, <2>3, <2>4 DEF Next, Lookup, Tick, vars
<1> QED
  BY <1>1, <1>2, InvCorrect, PTL DEF Spec, SharesLoads, Sharing!Spec

-----------------------------------------------------------------------------
(* The posture cache. *)

PostureCallType ==
    [phase : {"idle", "waiting", "answered", "failed"}, scope : PostureScopes \cup {"none"},
     forced : BOOLEAN, at : 0..PostureMaxClock, summary : Posture!NoTime..PostureMaxClock]

\* What the calls rest on: nobody waits for a scope that is not being collected, and a
\* call came in, and a summary was made, before now.
PostureWaits == \A c \in PostureCalls : poCall[c].phase = "waiting" => poCall[c].scope \in inflight

PosturePast ==
    /\ \A c \in PostureCalls : poCall[c].at =< poClock
    /\ \A s \in DOMAIN poCache : poCache[s] =< poClock

PostureInv ==
    /\ Posture!TypeOK
    /\ poOrder \in Seq(PostureScopes) /\ IsFiniteSet(DOMAIN poCache)
    /\ PostureWaits /\ PosturePast /\ Posture!AnswersAreFresh

LEMMA PostureBounds ==
    /\ PostureTTL \in Nat \ {0} /\ MaxPostureScopes \in Nat \ {0} /\ PostureMaxClock \in Nat
    /\ Posture!NoTime = -1
  BY CachesAssumption DEF Posture!BoundAssumption, Posture!NoTime

\* The order of a cache's keys, as it is called from here.
LEMMA PostureOrder ==
    /\ \A keys, f : Posture!Orders(f, keys) <=> Orders(f, keys)
    /\ \A keys, f : Posture!Only(f, keys) = Only(f, keys)
    /\ \A keys, f : Posture!Oldest(f, keys) = Oldest(f, keys)
    /\ \A key, f : Posture!Placed(f, key) = Placed(f, key)
    /\ \A S : Posture!Cardinality(S) = Cardinality(S)
<1>1. \A f : Posture!Range(f) = Range(f) /\ (Posture!IsInjective(f) <=> IsInjective(f))
  BY DEF Posture!Range, Range, Posture!IsInjective, IsInjective
<1>2. \A keys, f : Posture!Only(f, keys) = Only(f, keys)
  BY DEF Posture!Only, Only
<1>3. \A S : Posture!Cardinality(S) = Cardinality(S)
  BY DEF Posture!Cardinality, Cardinality
<1> QED
  BY <1>1, <1>2, <1>3 DEF Posture!Orders, Orders, Posture!Oldest, Oldest, Posture!Placed, Placed

LEMMA PostureInit == ASSUME Posture!Init PROVE PostureInv
<1>1. DOMAIN poCache = {} /\ poOrder = <<>> /\ inflight = {} /\ poClock = 0
  BY DEF Posture!Init
<1>2. Orders(poOrder, DOMAIN poCache) /\ poOrder \in Seq(PostureScopes)
  BY <1>1 DEF Orders, Range, IsInjective
<1>3. poCall \in [PostureCalls -> PostureCallType]
  BY PostureBounds DEF Posture!Init, Posture!IdleCall, PostureCallType
<1> QED
  BY <1>1, <1>2, <1>3, PostureBounds, PostureOrder, FS_EmptySet
  DEF Posture!Init, Posture!IdleCall, PostureInv, Posture!TypeOK, PostureCallType, PostureWaits, PosturePast,
      Posture!AnswersAreFresh

\* The types, part by part.
LEMMA PostureFacts ==
    ASSUME PostureInv
    PROVE  /\ DOMAIN poCache \subseteq PostureScopes /\ IsFiniteSet(DOMAIN poCache)
           /\ Cardinality(DOMAIN poCache) \in Nat /\ Cardinality(DOMAIN poCache) =< MaxPostureScopes
           /\ poOrder \in Seq(PostureScopes) /\ Orders(poOrder, DOMAIN poCache)
           /\ poClock \in 0..PostureMaxClock
           /\ inflight = {o \in DOMAIN poCache : poCache[o] = Posture!NoTime}
           /\ \A o \in DOMAIN poCache : poCache[o] \in Posture!NoTime..PostureMaxClock /\ poCache[o] =< poClock
<1>1. IsFiniteSet(DOMAIN poCache) /\ Cardinality(DOMAIN poCache) \in Nat
  BY FS_CardinalityType DEF PostureInv
<1>2. inflight = {o \in DOMAIN poCache : poCache[o] = Posture!NoTime}
  BY DEF PostureInv, Posture!TypeOK
<1> QED
  BY <1>1, <1>2, PostureOrder DEF PostureInv, Posture!TypeOK, PosturePast

\* A call that comes in, with what it is given.
LEMMA PostureEnters ==
    ASSUME PostureInv, NEW c \in PostureCalls, NEW s \in PostureScopes, NEW forced \in BOOLEAN,
           NEW phase \in {"waiting", "answered", "failed"}, NEW summary \in Posture!NoTime..PostureMaxClock,
           Posture!Enter(c, s, forced, phase, summary), UNCHANGED poClock,
           phase = "waiting" => s \in inflight',
           phase = "answered" => ~forced /\ summary + PostureTTL > poClock,
           inflight \subseteq inflight'
    PROVE  /\ poCall' \in [PostureCalls -> PostureCallType] /\ PostureWaits' /\ Posture!AnswersAreFresh'
           /\ \A d \in PostureCalls : poCall'[d].at =< poClock'
<1> DEFINE new == [phase |-> phase, scope |-> s, forced |-> forced, at |-> poClock, summary |-> summary]
<1>1. poClock \in 0..PostureMaxClock /\ poCall \in [PostureCalls -> PostureCallType]
  BY DEF PostureInv, Posture!TypeOK, PostureCallType
<1>2. poCall' = [poCall EXCEPT ![c] = new]
  BY DEF Posture!Enter
<1>3. new \in PostureCallType
  BY <1>1, PostureBounds DEF PostureCallType
<1>4. /\ new.phase = phase /\ new.scope = s /\ new.forced = forced /\ new.at = poClock
      /\ new.summary = summary
  OBVIOUS
<1> HIDE DEF new
<1>5. poCall'[c] = new /\ \A d \in PostureCalls \ {c} : poCall'[d] = poCall[d]
  BY <1>1, <1>2
<1>6. PostureWaits'
  BY <1>4, <1>5 DEF PostureInv, PostureWaits
<1>7. Posture!AnswersAreFresh'
  BY <1>4, <1>5 DEF PostureInv, Posture!AnswersAreFresh
<1>8. \A d \in PostureCalls : poCall'[d].at =< poClock'
  BY <1>1, <1>4, <1>5, PostureBounds DEF PostureInv, PosturePast
<1> QED
  BY <1>1, <1>2, <1>3, <1>6, <1>7, <1>8

\* A collection takes the place of a scope that is not being collected, if there is no room.
LEMMA PostureCollects ==
    ASSUME PostureInv, NEW c \in PostureCalls, NEW s \in PostureScopes, NEW forced \in BOOLEAN,
           Posture!Collect(c, s, forced), UNCHANGED poClock
    PROVE  PostureInv'
<1> DEFINE D == DOMAIN poCache
           E == Posture!Evictable
           kept == IF Posture!Full(s) THEN D \ {Oldest(poOrder, E)} ELSE D
<1>0. /\ D \subseteq PostureScopes /\ IsFiniteSet(D) /\ Cardinality(D) \in Nat /\ Cardinality(D) =< MaxPostureScopes
      /\ poOrder \in Seq(PostureScopes) /\ Orders(poOrder, D) /\ poClock \in 0..PostureMaxClock
      /\ inflight = {o \in D : poCache[o] = Posture!NoTime}
      /\ \A o \in D : poCache[o] \in Posture!NoTime..PostureMaxClock /\ poCache[o] =< poClock
  BY PostureFacts
<1>1. /\ s \notin inflight /\ inflight' = inflight \cup {s}
      /\ poOrder' = Placed(Only(poOrder, kept), s)
      /\ poCache' = [o \in kept \cup {s} |-> IF o = s THEN Posture!NoTime ELSE poCache[o]]
      /\ Posture!Enter(c, s, forced, "waiting", Posture!NoTime) /\ ~(Posture!Full(s) /\ E = {})
  BY PostureOrder DEF Posture!Collect, Posture!Insert
<1>2. kept \subseteq D /\ inflight \subseteq kept /\ IsFiniteSet(kept)
      /\ Cardinality(kept \cup {s}) =< MaxPostureScopes
  <2>1. CASE Posture!Full(s)
    <3>1. E # {} /\ E \subseteq Range(poOrder)
      BY <1>0, <1>1, <2>1 DEF Posture!Evictable, Orders
    <3> DEFINE o == Oldest(poOrder, E)
    <3>2. o \in E
      BY <1>0, <3>1, OldestIsOne
    <3> HIDE DEF o
    <3>3. o \in D /\ o \notin inflight
      BY <3>2 DEF Posture!Evictable
    <3>4. IsFiniteSet(D \ {o}) /\ Cardinality(D \ {o}) = Cardinality(D) - 1
      BY <1>0, <3>3, FS_RemoveElement
    <3>5. kept = D \ {o}
      BY <2>1 DEF o
    <3>6. Cardinality(kept \cup {s}) =< Cardinality(D)
      <4>1. \/ Cardinality((D \ {o}) \cup {s}) = Cardinality(D \ {o})
            \/ Cardinality((D \ {o}) \cup {s}) = Cardinality(D \ {o}) + 1
        BY <3>4, FS_AddElement
      <4>2. kept \cup {s} = (D \ {o}) \cup {s}
        BY <3>5
      <4>3. Cardinality(D) \in Nat /\ Cardinality(D \ {o}) = Cardinality(D) - 1
        BY <1>0, <3>4
      <4>4. Cardinality((D \ {o}) \cup {s}) =< Cardinality(D)
        BY <4>1, <4>3
      <4> HIDE DEF D, kept
      <4> QED
        BY <4>2, <4>4
    <3>7. kept \cup {s} = (D \ {o}) \cup {s}
      BY <3>5
    <3>8. IsFiniteSet(kept \cup {s})
      BY <3>4, <3>7, FS_AddElement
    <3>9. Cardinality(kept \cup {s}) \in Nat
      BY <3>8, FS_CardinalityType
    <3> HIDE DEF kept, E
    <3> QED
      BY <1>0, <3>3, <3>4, <3>5, <3>6, <3>9, PostureBounds
  <2>2. CASE ~Posture!Full(s)
    <3>1. kept = D
      BY <2>2
    <3>2. s \in D \/ Cardinality(D) < MaxPostureScopes
      <4>1. s \in D \/ ~(Cardinality(D) >= MaxPostureScopes)
        BY <2>2, PostureOrder DEF Posture!Full
      <4> HIDE DEF D
      <4> QED
        BY <1>0, <4>1, PostureBounds
    <3>3. s \in D => D \cup {s} = D
      OBVIOUS
    <3>4. Cardinality(D \cup {s}) = IF s \in D THEN Cardinality(D) ELSE Cardinality(D) + 1
      BY <1>0, FS_AddElement
    <3>5. Cardinality(D \cup {s}) =< MaxPostureScopes
      BY <1>0, <3>2, <3>4, PostureBounds
    <3> HIDE DEF kept, D, E
    <3>6. inflight \subseteq D
      BY <1>0
    <3> QED
      BY <1>0, <3>1, <3>5, <3>6
  <2> QED
    BY <2>1, <2>2
<1> HIDE DEF kept
<1>3. poOrder' \in Seq(PostureScopes) /\ Orders(poOrder', kept \cup {s})
  BY <1>0, <1>1, <1>2, PlacedOrders
<1>4. poCache' = [o \in kept \cup {s} |-> IF o = s THEN Posture!NoTime ELSE poCache[o]]
  BY <1>1
<1> HIDE DEF D, E
<1>4a. \A o \in kept : o \in D /\ poCache[o] \in Posture!NoTime..PostureMaxClock
  BY <1>0, <1>2
<1>5. /\ DOMAIN poCache' = kept \cup {s}
      /\ \A o \in kept \cup {s} : poCache'[o] = IF o = s THEN Posture!NoTime ELSE poCache[o]
  BY <1>4
<1>6. /\ \A o \in kept \cup {s} : /\ poCache'[o] \in Posture!NoTime..PostureMaxClock
                                  /\ poCache'[o] =< poClock'
      /\ inflight' = {o \in kept \cup {s} : poCache'[o] = Posture!NoTime}
  <2>1. \A o \in kept \cup {s} : poCache'[o] \in Posture!NoTime..PostureMaxClock /\ poCache'[o] =< poClock'
    BY <1>0, <1>4a, <1>5, PostureBounds
  <2>2. \A o : o \in inflight' <=> o \in kept \cup {s} /\ poCache'[o] = Posture!NoTime
    BY <1>0, <1>1, <1>2, <1>4a, <1>5
  <2> QED
    BY <2>1, <2>2
<1>7. IsFiniteSet(kept \cup {s})
  BY <1>2, FS_AddElement
<1>8. /\ poCall' \in [PostureCalls -> PostureCallType] /\ PostureWaits' /\ Posture!AnswersAreFresh'
      /\ \A d \in PostureCalls : poCall'[d].at =< poClock'
  BY <1>1, PostureEnters, PostureBounds
<1>9. kept \cup {s} \subseteq PostureScopes
  BY <1>0, <1>2
<1> QED
  BY <1>0, <1>2, <1>3, <1>5, <1>6, <1>7, <1>8, <1>9, PostureOrder
  DEF PostureInv, Posture!TypeOK, PostureCallType, PosturePast

\* The end of a collection, for those who waited for it.
LEMMA PostureReleases ==
    ASSUME PostureInv, NEW s \in PostureScopes, NEW phase \in {"answered", "failed"},
           NEW summary \in Posture!NoTime..PostureMaxClock, Posture!Release(s, phase, summary),
           phase = "answered" => summary = poClock, UNCHANGED poClock, inflight' = inflight \ {s}
    PROVE  /\ poCall' \in [PostureCalls -> PostureCallType] /\ PostureWaits' /\ Posture!AnswersAreFresh'
           /\ \A d \in PostureCalls : poCall'[d].at =< poClock'
<1>1. poClock \in 0..PostureMaxClock /\ poCall \in [PostureCalls -> PostureCallType]
  BY DEF PostureInv, Posture!TypeOK, PostureCallType
<1>2. \A c \in PostureCalls : [poCall[c] EXCEPT !.phase = phase, !.summary = summary] \in PostureCallType
  BY <1>1 DEF PostureCallType
<1>3. poCall' \in [PostureCalls -> PostureCallType]
  BY <1>1, <1>2 DEF Posture!Release
<1>4. \A c \in PostureCalls : IF poCall[c].phase = "waiting" /\ poCall[c].scope = s
        THEN /\ poCall'[c].phase = phase /\ poCall'[c].summary = summary
             /\ poCall'[c].at = poCall[c].at /\ poCall'[c].forced = poCall[c].forced
        ELSE poCall'[c] = poCall[c]
  BY <1>1 DEF Posture!Release, PostureCallType
<1>5. PostureWaits'
  BY <1>4 DEF PostureInv, PostureWaits
<1>6. \A d \in PostureCalls : poCall'[d].at =< poClock' /\ poCall[d].at \in Nat /\ poCall[d].at =< poClock
  BY <1>1, <1>4 DEF PostureInv, PosturePast, PostureCallType
<1>7. Posture!AnswersAreFresh'
  <2>1. ASSUME NEW c \in PostureCalls, poCall'[c].phase = "answered"
        PROVE  IF poCall'[c].forced THEN poCall'[c].summary >= poCall'[c].at
               ELSE poCall'[c].summary + PostureTTL > poCall'[c].at
    <3>1. CASE poCall[c].phase = "waiting" /\ poCall[c].scope = s
      <4>1. poCall'[c].summary = poClock /\ poCall'[c].at = poCall[c].at
        BY <1>4, <2>1, <3>1
      <4>2. poClock >= poCall[c].at /\ poClock + PostureTTL > poCall[c].at
        BY <1>1, <1>6, PostureBounds
      <4> QED
        BY <4>1, <4>2
    <3>2. CASE ~(poCall[c].phase = "waiting" /\ poCall[c].scope = s)
      <4>1. poCall'[c] = poCall[c]
        BY <1>4, <3>2
      <4> QED
        BY <2>1, <4>1 DEF PostureInv, Posture!AnswersAreFresh
    <3> QED
      BY <3>1, <3>2
  <2> QED
    BY <2>1 DEF Posture!AnswersAreFresh
<1> QED
  BY <1>3, <1>5, <1>6, <1>7

LEMMA PostureEnds ==
    ASSUME PostureInv, NEW s \in PostureScopes, Posture!Succeed(s) \/ Posture!Fail(s)
    PROVE  PostureInv'
<1>0. /\ DOMAIN poCache \subseteq PostureScopes /\ IsFiniteSet(DOMAIN poCache)
      /\ Cardinality(DOMAIN poCache) \in Nat /\ Cardinality(DOMAIN poCache) =< MaxPostureScopes
      /\ poOrder \in Seq(PostureScopes) /\ Orders(poOrder, DOMAIN poCache) /\ poClock \in 0..PostureMaxClock
      /\ inflight = {o \in DOMAIN poCache : poCache[o] = Posture!NoTime}
      /\ \A o \in DOMAIN poCache : poCache[o] \in Posture!NoTime..PostureMaxClock /\ poCache[o] =< poClock
  BY PostureFacts
<1>1. CASE Posture!Succeed(s)
  <2>1. /\ s \in DOMAIN poCache /\ poCache' = [poCache EXCEPT ![s] = poClock] /\ inflight' = inflight \ {s}
        /\ Posture!Release(s, "answered", poClock) /\ UNCHANGED <<poClock, poOrder>>
    BY <1>0, <1>1 DEF Posture!Succeed
  <2>2. /\ poCall' \in [PostureCalls -> PostureCallType] /\ PostureWaits' /\ Posture!AnswersAreFresh'
        /\ \A d \in PostureCalls : poCall'[d].at =< poClock'
    BY <1>0, <2>1, PostureReleases, PostureBounds
  <2>3. DOMAIN poCache' = DOMAIN poCache
        /\ \A o \in DOMAIN poCache : poCache'[o] = IF o = s THEN poClock ELSE poCache[o]
    BY <2>1
  <2>4. \A o \in DOMAIN poCache : poCache'[o] \in Posture!NoTime..PostureMaxClock /\ poCache'[o] =< poClock'
    BY <1>0, <2>1, <2>3, PostureBounds
  <2>5. \A o : o \in inflight' <=> o \in DOMAIN poCache /\ poCache'[o] = Posture!NoTime
    BY <1>0, <2>1, <2>3, PostureBounds
  <2> QED
    BY <1>0, <2>1, <2>2, <2>3, <2>4, <2>5, PostureOrder DEF PostureInv, Posture!TypeOK, PostureCallType, PosturePast
<1>2. CASE Posture!Fail(s)
  <2> DEFINE K == DOMAIN poCache \ {s}
  <2>1. /\ poCache' = [o \in K |-> poCache[o]] /\ inflight' = inflight \ {s} /\ poOrder' = Only(poOrder, K)
        /\ Posture!Release(s, "failed", Posture!NoTime) /\ UNCHANGED poClock
    BY <1>2, PostureOrder DEF Posture!Fail
  <2>2. /\ poCall' \in [PostureCalls -> PostureCallType] /\ PostureWaits' /\ Posture!AnswersAreFresh'
        /\ \A d \in PostureCalls : poCall'[d].at =< poClock'
    BY <1>0, <2>1, PostureReleases, PostureBounds
  <2>3. DOMAIN poCache' = K /\ \A o \in K : poCache'[o] = poCache[o]
    BY <2>1
  <2>4. poOrder' \in Seq(PostureScopes) /\ Orders(poOrder', K)
    BY <1>0, <2>1, OnlyProperties DEF Orders
  <2>5. IsFiniteSet(K) /\ Cardinality(K) =< MaxPostureScopes
    <3>1. IsFiniteSet(K) /\ Cardinality(K) =< Cardinality(DOMAIN poCache)
      BY <1>0, FS_Subset
    <3>2. Cardinality(K) \in Nat
      BY <3>1, FS_CardinalityType
    <3> HIDE DEF K
    <3> QED
      BY <1>0, <3>1, <3>2, PostureBounds
  <2>6. \A o : o \in inflight' <=> o \in K /\ poCache'[o] = Posture!NoTime
    BY <1>0, <2>1, <2>3
  <2>7. K \subseteq PostureScopes /\ \A o \in K : poCache'[o] \in Posture!NoTime..PostureMaxClock /\ poCache'[o] =< poClock'
    BY <1>0, <2>1, <2>3
  <2> HIDE DEF K
  <2> QED
    BY <1>0, <2>1, <2>2, <2>3, <2>4, <2>5, <2>6, <2>7, PostureOrder DEF PostureInv, Posture!TypeOK, PostureCallType, PosturePast
<1> QED
  BY <1>1, <1>2

LEMMA PostureStep == ASSUME PostureInv, [Posture!Next]_(Posture!vars) PROVE PostureInv'
<1>1. CASE UNCHANGED Posture!vars
  BY <1>1 DEF Posture!vars, PostureInv, Posture!TypeOK, PostureWaits, PosturePast, Posture!AnswersAreFresh
<1>2. CASE Posture!Tick
  BY <1>2, PostureBounds
  DEF Posture!Tick, PostureInv, Posture!TypeOK, PostureWaits, PosturePast, Posture!AnswersAreFresh
<1>3. ASSUME NEW c \in PostureCalls, Posture!Receive(c) PROVE PostureInv'
  <2>1. PICK s \in PostureScopes, forced \in BOOLEAN :
           /\ UNCHANGED poClock
           /\ \/ Posture!Join(c, s, forced) \/ Posture!Hit(c, s, forced)
              \/ Posture!Refuse(c, s, forced) \/ Posture!Collect(c, s, forced)
    BY <1>3 DEF Posture!Receive
  <2>2. CASE Posture!Join(c, s, forced) \/ Posture!Hit(c, s, forced) \/ Posture!Refuse(c, s, forced)
    <3>1. UNCHANGED <<poClock, poCache, poOrder, inflight>>
      BY <2>1, <2>2 DEF Posture!Join, Posture!Hit, Posture!Refuse
    <3>2. CASE Posture!Join(c, s, forced) \/ Posture!Refuse(c, s, forced)
      <4>1. \E phase \in {"waiting", "failed"} :
               /\ Posture!Enter(c, s, forced, phase, Posture!NoTime)
               /\ phase = "waiting" => s \in inflight'
        BY <3>1, <3>2 DEF Posture!Join, Posture!Refuse
      <4> QED
        BY <3>1, <4>1, PostureEnters, PostureBounds DEF PostureInv, Posture!TypeOK, PostureCallType, PosturePast
    <3>3. CASE Posture!Hit(c, s, forced)
      <4>1. /\ poCache[s] \in Posture!NoTime..PostureMaxClock /\ ~forced /\ poCache[s] + PostureTTL > poClock
            /\ Posture!Enter(c, s, forced, "answered", poCache[s])
        BY <3>3 DEF Posture!Hit, Posture!Usable, PostureInv, Posture!TypeOK
      <4>2. /\ poCall' \in [PostureCalls -> PostureCallType] /\ PostureWaits' /\ Posture!AnswersAreFresh'
            /\ \A d \in PostureCalls : poCall'[d].at =< poClock'
        BY <3>1, <4>1, PostureEnters
      <4> QED
        BY <3>1, <4>2 DEF PostureInv, Posture!TypeOK, PostureCallType, PosturePast
    <3> QED
      BY <2>2, <3>2, <3>3
  <2> QED
    BY <2>1, <2>2, PostureCollects
<1> QED
  BY <1>1, <1>2, <1>3, PostureEnds DEF Posture!Next

\* For any calls, scopes and bounds: the posture cache holds a scope once, in the order
\* of insertion, and never more scopes than it may; what it gives is as fresh as was
\* asked for (collectPolicyPosture, policy-posture.js:71-106).
LEMMA PostureCorrect == Posture!Spec => []PostureInv
  BY PostureInit, PostureStep, PTL DEF Posture!Spec

\* The collections implement SharedLoad.
PostureWaiting == {<<c, poCall[c].scope>> : c \in {d \in PostureCalls : poCall[d].phase = "waiting"}}

LEMMA PostureMapping ==
    /\ Posture!Collections!Init <=> inflight = {} /\ PostureWaiting = {}
    /\ (UNCHANGED Posture!Collections!vars) <=> inflight' = inflight /\ PostureWaiting' = PostureWaiting
    /\ \A c, s : Posture!Collections!Wait(c, s) <=>
          /\ \A other \in PostureScopes : <<c, other>> \notin PostureWaiting
          /\ inflight' = inflight \cup {s}
          /\ PostureWaiting' = PostureWaiting \cup {<<c, s>>}
    /\ \A s : Posture!Collections!Finish(s) <=>
          /\ s \in inflight
          /\ inflight' = inflight \ {s}
          /\ PostureWaiting' = {w \in PostureWaiting : w[2] # s}
    /\ Posture!Collections!Next <=>
          \/ \E c \in PostureCalls, s \in PostureScopes : Posture!Collections!Wait(c, s)
          \/ \E s \in PostureScopes : Posture!Collections!Finish(s)
  BY DEF PostureWaiting, Posture!Collections!Init, Posture!Collections!vars, Posture!Collections!Wait,
         Posture!Collections!Finish, Posture!Collections!Next

\* What a call that comes in adds to those who wait.
LEMMA PostureJoins ==
    ASSUME PostureInv, NEW c \in PostureCalls, NEW s, NEW forced, NEW phase, NEW summary,
           poCall[c].phase # "waiting", Posture!Enter(c, s, forced, phase, summary)
    PROVE  /\ \A other : <<c, other>> \notin PostureWaiting
           /\ PostureWaiting' = IF phase = "waiting" THEN PostureWaiting \cup {<<c, s>>} ELSE PostureWaiting
<1>1. poCall \in [PostureCalls -> PostureCallType]
  BY DEF PostureInv, Posture!TypeOK, PostureCallType
<1>2. /\ poCall'[c].phase = phase /\ poCall'[c].scope = s
      /\ \A d \in PostureCalls \ {c} : poCall'[d] = poCall[d]
  BY <1>1 DEF Posture!Enter
<1> QED
  BY <1>2 DEF PostureWaiting

LEMMA PostureSharing == Posture!Spec => Posture!SharesLoads
<1>1. Posture!Init => Posture!Collections!Init
  BY PostureMapping DEF Posture!Init, Posture!IdleCall, PostureWaiting
<1>2. ASSUME PostureInv, [Posture!Next]_(Posture!vars)
      PROVE  [Posture!Collections!Next]_(Posture!Collections!vars)
  <2>1. CASE Posture!Tick \/ UNCHANGED Posture!vars
    <3>1. inflight' = inflight /\ PostureWaiting' = PostureWaiting
      BY <2>1 DEF Posture!Tick, Posture!vars, PostureWaiting
    <3> QED
      BY <3>1, PostureMapping
  <2>2. ASSUME NEW c \in PostureCalls, Posture!Receive(c)
        PROVE  Posture!Collections!Next \/ UNCHANGED Posture!Collections!vars
    <3>1. PICK s \in PostureScopes, forced \in BOOLEAN :
             \/ Posture!Join(c, s, forced) \/ Posture!Hit(c, s, forced)
             \/ Posture!Refuse(c, s, forced) \/ Posture!Collect(c, s, forced)
      BY <2>2 DEF Posture!Receive
    <3>2. poCall[c].phase # "waiting"
      BY <2>2 DEF Posture!Receive
    <3>3. CASE Posture!Join(c, s, forced) \/ Posture!Collect(c, s, forced)
      <4>1. Posture!Enter(c, s, forced, "waiting", Posture!NoTime) /\ inflight' = inflight \cup {s}
        BY <3>3 DEF Posture!Join, Posture!Collect
      <4>2. Posture!Collections!Wait(c, s)
        BY <1>2, <3>2, <4>1, PostureJoins, PostureMapping
      <4> QED
        BY <4>2, PostureMapping
    <3>4. CASE Posture!Hit(c, s, forced) \/ Posture!Refuse(c, s, forced)
      <4>1. /\ \E phase \in {"answered", "failed"} : \E summary : Posture!Enter(c, s, forced, phase, summary)
            /\ inflight' = inflight
        BY <3>4 DEF Posture!Hit, Posture!Refuse
      <4>2. PostureWaiting' = PostureWaiting
        BY <1>2, <3>2, <4>1, PostureJoins
      <4> QED
        BY <4>1, <4>2, PostureMapping
    <3> QED
      BY <3>1, <3>3, <3>4
  <2>3. ASSUME NEW s \in PostureScopes, Posture!Succeed(s) \/ Posture!Fail(s)
        PROVE  Posture!Collections!Next
    <3>1. s \in inflight /\ inflight' = inflight \ {s}
          /\ \E phase \in {"answered", "failed"} : \E summary : Posture!Release(s, phase, summary)
      BY <2>3 DEF Posture!Succeed, Posture!Fail
    <3>2. poCall \in [PostureCalls -> PostureCallType]
      BY <1>2 DEF PostureInv, Posture!TypeOK, PostureCallType
    <3>3. \A c \in PostureCalls : IF poCall[c].phase = "waiting" /\ poCall[c].scope = s
             THEN poCall'[c].phase # "waiting" ELSE poCall'[c] = poCall[c]
      BY <3>1, <3>2 DEF Posture!Release, PostureCallType
    <3>4. PostureWaiting' = {w \in PostureWaiting : w[2] # s}
      BY <3>3 DEF PostureWaiting
    <3> QED
      BY <3>1, <3>4, PostureMapping
  <2> QED
    BY <1>2, <2>1, <2>2, <2>3 DEF Posture!Next
<1> QED
  BY <1>1, <1>2, PostureInit, PostureStep, PTL
  DEF Posture!Spec, Posture!SharesLoads, Posture!Collections!Spec

-----------------------------------------------------------------------------
(* The autoscaling cache. *)

CapacityCallType ==
    [phase : {"idle", "waiting", "collecting", "cloud", "analyzing", "again", "answered", "failed"},
     scope : CapacityScopes \cup {"none"}, forced : BOOLEAN, at : 0..CapacityMaxClock,
     on : CapacityCalls \cup {Autoscaling!Nobody}, made : Autoscaling!NoTime..CapacityMaxClock]

CapacityEntryType ==
    [by : CapacityCalls \cup {Autoscaling!Nobody}, made : Autoscaling!NoTime..CapacityMaxClock]

CollectingPhases == {"collecting", "cloud", "analyzing"}

CapacityTyped ==
    /\ asClock \in 0..CapacityMaxClock
    /\ DOMAIN asCache \subseteq CapacityScopes
    /\ \A s \in DOMAIN asCache : asCache[s] \in CapacityEntryType
    /\ asOrder \in Seq(CapacityScopes) /\ Orders(asOrder, DOMAIN asCache)
    /\ cloud \in [made : Autoscaling!NoTime..CapacityMaxClock, good : BOOLEAN, loading : BOOLEAN]
    /\ asCall \in [CapacityCalls -> CapacityCallType]

\* A collection awaits itself, a call that neither collects nor waits awaits nobody.
CapacityOn ==
    \A c \in CapacityCalls :
        /\ Autoscaling!Collecting(c) => asCall[c].on = c
        /\ ~Autoscaling!Collecting(c) /\ asCall[c].phase # "waiting" => asCall[c].on = Autoscaling!Nobody
        /\ asCall[c].phase # "idle" => asCall[c].scope \in CapacityScopes

CapacityPast ==
    /\ \A c \in CapacityCalls : asCall[c].at =< asClock
    /\ \A s \in DOMAIN asCache : asCache[s].made =< asClock

CapacityInv ==
    /\ CapacityTyped /\ CapacityOn /\ CapacityPast
    /\ Autoscaling!NobodyIsLeft /\ Autoscaling!AnswersAreFresh

LEMMA CapacityBounds ==
    /\ CapacityTTL \in Nat \ {0} /\ CapacityMaxClock \in Nat
    /\ Autoscaling!NoTime = -1 /\ Autoscaling!Nobody \notin CapacityCalls
  BY CachesAssumption DEF Autoscaling!BoundAssumption, Autoscaling!NoTime

\* The order of a cache's keys, as it is called from here.
LEMMA CapacityOrder ==
    /\ \A keys, f : Autoscaling!Orders(f, keys) <=> Orders(f, keys)
    /\ \A keys, f : Autoscaling!Only(f, keys) = Only(f, keys)
    /\ \A key, f : Autoscaling!Placed(f, key) = Placed(f, key)
<1>1. \A f : Autoscaling!Range(f) = Range(f) /\ (Autoscaling!IsInjective(f) <=> IsInjective(f))
  BY DEF Autoscaling!Range, Range, Autoscaling!IsInjective, IsInjective
<1>2. \A keys, f : Autoscaling!Only(f, keys) = Only(f, keys)
  BY DEF Autoscaling!Only, Only
<1> QED
  BY <1>1, <1>2 DEF Autoscaling!Orders, Orders, Autoscaling!Placed, Placed

LEMMA CapacityIsTyped == CapacityTyped => Autoscaling!TypeOK
  BY CapacityOrder DEF CapacityTyped, CapacityCallType, CapacityEntryType, Autoscaling!TypeOK

LEMMA CapacityInit == ASSUME Autoscaling!Init PROVE CapacityInv
<1>1. DOMAIN asCache = {} /\ asOrder = <<>> /\ asClock = 0
  BY DEF Autoscaling!Init
<1>2. Orders(asOrder, DOMAIN asCache) /\ asOrder \in Seq(CapacityScopes)
  BY <1>1 DEF Orders, Range, IsInjective
<1>3. asCall \in [CapacityCalls -> CapacityCallType]
  BY CapacityBounds DEF Autoscaling!Init, Autoscaling!IdleCall, CapacityCallType
<1>4. \A c \in CapacityCalls :
         /\ asCall[c].phase = "idle" /\ asCall[c].at = 0 /\ asCall[c].on = Autoscaling!Nobody
  BY DEF Autoscaling!Init, Autoscaling!IdleCall
<1>5. CapacityTyped
  BY <1>1, <1>2, <1>3, CapacityBounds DEF Autoscaling!Init, CapacityTyped
<1>6. CapacityOn /\ CapacityPast
  BY <1>1, <1>4 DEF CapacityOn, CapacityPast, Autoscaling!Collecting, CollectingPhases
<1> QED
  BY <1>1, <1>4, <1>5, <1>6 DEF CapacityInv, Autoscaling!NobodyIsLeft, Autoscaling!AnswersAreFresh

\* A call that collects for nobody comes in, or collects: its entry is its own, the
\* others' are as before or gone.
LEMMA CapacityEnters ==
    ASSUME CapacityInv, NEW c \in CapacityCalls, ~Autoscaling!Collecting(c),
           NEW new \in CapacityCallType, asCall' = [asCall EXCEPT ![c] = new],
           UNCHANGED <<asClock, cloud>>, CapacityTyped', CapacityPast',
           new.scope \in CapacityScopes,
           \/ /\ new.phase = "collecting" /\ new.on = c
              /\ \A s \in DOMAIN asCache' :
                    \/ s = new.scope /\ asCache'[s].by = c
                    \/ s \in DOMAIN asCache /\ asCache'[s] = asCache[s]
           \/ /\ new.phase = "waiting" /\ new.on = asCache[new.scope].by
              /\ Autoscaling!Inflight(new.scope) /\ UNCHANGED asCache
           \/ /\ new.phase = "answered" /\ new.on = Autoscaling!Nobody /\ UNCHANGED asCache
              /\ ~new.forced /\ new.made + CapacityTTL > new.at
    PROVE  CapacityInv'
<1>1. asCall \in [CapacityCalls -> CapacityCallType]
  BY DEF CapacityInv, CapacityTyped
<1>2. asCall'[c] = new /\ \A d \in CapacityCalls \ {c} : asCall'[d] = asCall[d]
  BY <1>1
<1>3. \A d \in CapacityCalls \ {c} : (asCall'[d].phase \in CollectingPhases) <=> Autoscaling!Collecting(d)
  BY <1>2 DEF Autoscaling!Collecting, CollectingPhases
<1>4. CapacityOn'
  BY <1>2, <1>3 DEF CapacityInv, CapacityOn, Autoscaling!Collecting, CollectingPhases
<1>5. \A d \in CapacityCalls : asCall[d].phase = "waiting" =>
         asCall[d].on \in CapacityCalls \ {c} /\ Autoscaling!Collecting(asCall[d].on)
  BY <1>1 DEF CapacityInv, Autoscaling!NobodyIsLeft, CapacityCallType
<1>6. \A s \in DOMAIN asCache : Autoscaling!Inflight(s) =>
         asCache[s].by \in CapacityCalls \ {c} /\ Autoscaling!Collecting(asCache[s].by)
         /\ asCall[asCache[s].by].scope = s
  BY DEF CapacityInv, Autoscaling!NobodyIsLeft, Autoscaling!Inflight, CapacityTyped, CapacityEntryType
<1>7. ASSUME NEW d \in CapacityCalls, asCall'[d].phase = "waiting"
      PROVE  /\ asCall'[d].on # Autoscaling!Nobody /\ asCall'[asCall'[d].on].phase \in CollectingPhases
             /\ asCall'[asCall'[d].on].scope = asCall'[d].scope
  <2>1. CASE d = c
    <3>1. /\ new.phase = "waiting" /\ new.on = asCache[new.scope].by /\ new.scope \in DOMAIN asCache
          /\ Autoscaling!Inflight(new.scope)
      BY <1>2, <1>7, <2>1 DEF Autoscaling!Inflight
    <3>2. new.on \in CapacityCalls \ {c} /\ Autoscaling!Collecting(new.on) /\ asCall[new.on].scope = new.scope
      BY <1>6, <3>1
    <3> QED
      BY <1>2, <1>3, <2>1, <3>2, CapacityBounds DEF Autoscaling!Collecting, CollectingPhases
  <2>2. CASE d # c
    BY <1>2, <1>3, <1>5, <1>7, <2>2, CapacityBounds
    DEF CapacityInv, Autoscaling!NobodyIsLeft, Autoscaling!Collecting, CollectingPhases
  <2> QED
    BY <2>1, <2>2
<1>8. ASSUME NEW s \in DOMAIN asCache', asCache'[s].by # Autoscaling!Nobody
      PROVE  asCall'[asCache'[s].by].phase \in CollectingPhases /\ asCall'[asCache'[s].by].scope = s
  <2>1. CASE s \in DOMAIN asCache /\ asCache'[s] = asCache[s]
    BY <1>2, <1>6, <1>8, <2>1 DEF Autoscaling!Inflight, Autoscaling!Collecting, CollectingPhases
  <2>2. CASE s = new.scope /\ asCache'[s].by = c /\ new.phase = "collecting"
    BY <1>2, <2>2 DEF Autoscaling!Collecting, CollectingPhases
  <2> QED
    BY <1>8, <2>1, <2>2
<1>9. Autoscaling!NobodyIsLeft'
  BY <1>7, <1>8 DEF Autoscaling!NobodyIsLeft, Autoscaling!Inflight, Autoscaling!Collecting, CollectingPhases
<1>10. Autoscaling!AnswersAreFresh'
  BY <1>2 DEF CapacityInv, Autoscaling!AnswersAreFresh
<1> QED
  BY <1>4, <1>9, <1>10 DEF CapacityInv

\* An insertion keeps the cache in order.
LEMMA CapacitySets ==
    ASSUME CapacityInv, NEW c \in CapacityCalls, NEW s \in CapacityScopes,
           NEW kept \in SUBSET DOMAIN asCache, Autoscaling!Set(c, s, kept), UNCHANGED <<asClock, cloud>>,
           asCall' \in [CapacityCalls -> CapacityCallType], \A d \in CapacityCalls : asCall'[d].at =< asClock
    PROVE  /\ CapacityTyped' /\ CapacityPast'
           /\ \A o \in DOMAIN asCache' :
                 \/ o = s /\ asCache'[o].by = c
                 \/ o \in DOMAIN asCache /\ asCache'[o] = asCache[o]
<1> DEFINE new == [by |-> c, made |-> Autoscaling!NoTime]
<1>1. /\ asOrder' = Placed(Only(asOrder, kept), s)
      /\ asCache' = [o \in kept \cup {s} |-> IF o = s THEN new ELSE asCache[o]]
  BY CapacityOrder DEF Autoscaling!Set
<1>2. new \in CapacityEntryType /\ new.by = c /\ new.made = -1
  BY CapacityBounds DEF CapacityEntryType
<1> HIDE DEF new
<1>3. asOrder' \in Seq(CapacityScopes) /\ Orders(asOrder', kept \cup {s})
  BY <1>1, PlacedOrders DEF CapacityInv, CapacityTyped
<1>4. DOMAIN asCache' = kept \cup {s} /\ \A o \in kept \cup {s} : asCache'[o] = IF o = s THEN new ELSE asCache[o]
  BY <1>1
<1>5. CapacityTyped'
  BY <1>2, <1>3, <1>4 DEF CapacityInv, CapacityTyped
<1>6. CapacityPast'
  BY <1>2, <1>4 DEF CapacityInv, CapacityTyped, CapacityPast
<1> QED
  BY <1>2, <1>4, <1>5, <1>6

LEMMA CapacityReceives ==
    ASSUME CapacityInv, NEW c \in CapacityCalls, Autoscaling!Receive(c)
    PROVE  CapacityInv'
<1>1. PICK s \in CapacityScopes, forced \in BOOLEAN :
       /\ asCall[c].phase \in {"idle", "answered", "failed"} /\ UNCHANGED <<asClock, cloud>>
       /\ \/ /\ Autoscaling!Inflight(s)
             /\ Autoscaling!Enter(c, s, forced, "waiting", asCache[s].by, Autoscaling!NoTime)
             /\ UNCHANGED <<asCache, asOrder>>
          \/ /\ s \in DOMAIN asCache /\ ~Autoscaling!LooksAgain(forced, asCache[s].made)
             /\ Autoscaling!Enter(c, s, forced, "answered", Autoscaling!Nobody, asCache[s].made)
             /\ UNCHANGED <<asCache, asOrder>>
          \/ /\ \E kept \in SUBSET DOMAIN asCache : Autoscaling!Set(c, s, kept)
             /\ Autoscaling!Enter(c, s, forced, "collecting", c, Autoscaling!NoTime)
  BY DEF Autoscaling!Receive
<1> DEFINE entering(phase, on, made) ==
              [phase |-> phase, scope |-> s, forced |-> forced, at |-> asClock, on |-> on, made |-> made]
<1>2. asClock \in 0..CapacityMaxClock /\ asCall \in [CapacityCalls -> CapacityCallType]
  BY DEF CapacityInv, CapacityTyped
<1>3. ASSUME NEW phase \in {"waiting", "answered", "collecting"}, NEW on \in CapacityCalls \cup {Autoscaling!Nobody},
             NEW made \in Autoscaling!NoTime..CapacityMaxClock,
             Autoscaling!Enter(c, s, forced, phase, on, made)
      PROVE  /\ entering(phase, on, made) \in CapacityCallType
             /\ asCall' = [asCall EXCEPT ![c] = entering(phase, on, made)]
             /\ asCall' \in [CapacityCalls -> CapacityCallType]
             /\ \A d \in CapacityCalls : asCall'[d].at =< asClock
  <2> DEFINE new == entering(phase, on, made)
  <2>1. new \in CapacityCallType /\ new.at = asClock
    BY <1>2 DEF CapacityCallType
  <2>2. asCall' = [asCall EXCEPT ![c] = new]
    BY <1>3 DEF Autoscaling!Enter
  <2> HIDE DEF new
  <2>3. asCall' \in [CapacityCalls -> CapacityCallType]
    BY <1>2, <2>1, <2>2
  <2>4. \A d \in CapacityCalls : asCall'[d].at =< asClock
    BY <1>2, <2>1, <2>2 DEF CapacityInv, CapacityPast
  <2> QED
    BY <2>1, <2>2, <2>3, <2>4 DEF new
<1>4. ~Autoscaling!Collecting(c)
  BY <1>1 DEF Autoscaling!Collecting, CollectingPhases
<1>5. \A o \in DOMAIN asCache : asCache[o].by \in CapacityCalls \cup {Autoscaling!Nobody}
                                /\ asCache[o].made \in Autoscaling!NoTime..CapacityMaxClock
  BY DEF CapacityInv, CapacityTyped, CapacityEntryType
<1>6. CASE /\ Autoscaling!Inflight(s) /\ UNCHANGED <<asCache, asOrder>>
           /\ Autoscaling!Enter(c, s, forced, "waiting", asCache[s].by, Autoscaling!NoTime)
  <2> DEFINE new == entering("waiting", asCache[s].by, Autoscaling!NoTime)
  <2>1. /\ new \in CapacityCallType /\ asCall' = [asCall EXCEPT ![c] = new]
        /\ asCall' \in [CapacityCalls -> CapacityCallType] /\ \A d \in CapacityCalls : asCall'[d].at =< asClock
    BY <1>3, <1>5, <1>6, CapacityBounds DEF Autoscaling!Inflight
  <2>2. new.phase = "waiting" /\ new.on = asCache[s].by /\ new.scope = s
    OBVIOUS
  <2> HIDE DEF new
  <2>3. CapacityTyped' /\ CapacityPast'
    BY <1>1, <1>6, <2>1 DEF CapacityInv, CapacityTyped, CapacityPast
  <2> QED
    BY <1>1, <1>4, <1>6, <2>1, <2>2, <2>3, CapacityEnters
<1>7. CASE /\ s \in DOMAIN asCache /\ ~Autoscaling!LooksAgain(forced, asCache[s].made)
           /\ Autoscaling!Enter(c, s, forced, "answered", Autoscaling!Nobody, asCache[s].made)
           /\ UNCHANGED <<asCache, asOrder>>
  <2> DEFINE new == entering("answered", Autoscaling!Nobody, asCache[s].made)
  <2>1. /\ new \in CapacityCallType /\ asCall' = [asCall EXCEPT ![c] = new]
        /\ asCall' \in [CapacityCalls -> CapacityCallType] /\ \A d \in CapacityCalls : asCall'[d].at =< asClock
    BY <1>3, <1>5, <1>7
  <2>2. /\ new.phase = "answered" /\ new.on = Autoscaling!Nobody /\ new.scope = s
        /\ ~new.forced /\ new.made + CapacityTTL > new.at
    BY <1>2, <1>5, <1>7, CapacityBounds DEF Autoscaling!LooksAgain
  <2> HIDE DEF new
  <2>3. CapacityTyped' /\ CapacityPast'
    BY <1>1, <1>7, <2>1 DEF CapacityInv, CapacityTyped, CapacityPast
  <2> QED
    BY <1>1, <1>4, <1>7, <2>1, <2>2, <2>3, CapacityEnters
<1>8. ASSUME NEW kept \in SUBSET DOMAIN asCache, Autoscaling!Set(c, s, kept),
             Autoscaling!Enter(c, s, forced, "collecting", c, Autoscaling!NoTime)
      PROVE  CapacityInv'
  <2> DEFINE new == entering("collecting", c, Autoscaling!NoTime)
  <2>1. /\ new \in CapacityCallType /\ asCall' = [asCall EXCEPT ![c] = new]
        /\ asCall' \in [CapacityCalls -> CapacityCallType] /\ \A d \in CapacityCalls : asCall'[d].at =< asClock
    BY <1>3, <1>8, CapacityBounds
  <2>2. new.phase = "collecting" /\ new.on = c /\ new.scope = s
    OBVIOUS
  <2> HIDE DEF new
  <2>3. /\ CapacityTyped' /\ CapacityPast'
        /\ \A o \in DOMAIN asCache' :
              \/ o = s /\ asCache'[o].by = c
              \/ o \in DOMAIN asCache /\ asCache'[o] = asCache[o]
    BY <1>1, <1>8, <2>1, CapacitySets
  <2> QED
    BY <1>1, <1>4, <2>1, <2>2, <2>3, CapacityEnters
<1> QED
  BY <1>1, <1>6, <1>7, <1>8

LEMMA CapacityAgain ==
    ASSUME CapacityInv, NEW c \in CapacityCalls, Autoscaling!CollectAgain(c)
    PROVE  CapacityInv'
<1> DEFINE new == [asCall[c] EXCEPT !.phase = "collecting", !.on = c]
<1>1. asCall \in [CapacityCalls -> CapacityCallType] /\ asCall[c].phase = "again"
  BY DEF CapacityInv, CapacityTyped, Autoscaling!CollectAgain
<1>2. /\ new \in CapacityCallType /\ new.phase = "collecting" /\ new.on = c
      /\ new.scope = asCall[c].scope /\ new.at = asCall[c].at
  BY <1>1 DEF CapacityCallType
<1>3. /\ asCall' = [asCall EXCEPT ![c] = new] /\ UNCHANGED <<asClock, cloud>>
      /\ Autoscaling!Set(c, asCall[c].scope, DOMAIN asCache)
  BY <1>1 DEF Autoscaling!CollectAgain
<1> HIDE DEF new
<1>4. asCall[c].scope \in CapacityScopes /\ ~Autoscaling!Collecting(c)
  BY <1>1 DEF CapacityInv, CapacityOn, Autoscaling!Collecting, CollectingPhases
<1>5. asCall' \in [CapacityCalls -> CapacityCallType] /\ \A d \in CapacityCalls : asCall'[d].at =< asClock
  BY <1>1, <1>2, <1>3 DEF CapacityInv, CapacityPast
<1>6. /\ CapacityTyped' /\ CapacityPast'
      /\ \A o \in DOMAIN asCache' :
            \/ o = asCall[c].scope /\ asCache'[o].by = c
            \/ o \in DOMAIN asCache /\ asCache'[o] = asCache[o]
  BY <1>3, <1>4, <1>5, CapacitySets
<1> QED
  BY <1>2, <1>3, <1>4, <1>6, CapacityEnters

\* The sources and the cloud: a collection goes on.
LEMMA CapacityGoesOn ==
    ASSUME CapacityInv, Autoscaling!CloudLoads \/ \E c \in CapacityCalls : Autoscaling!AskCloud(c)
    PROVE  CapacityInv'
<1>1. /\ asCall \in [CapacityCalls -> CapacityCallType] /\ asClock \in 0..CapacityMaxClock
      /\ cloud \in [made : Autoscaling!NoTime..CapacityMaxClock, good : BOOLEAN, loading : BOOLEAN]
  BY DEF CapacityInv, CapacityTyped
<1>2. UNCHANGED <<asClock, asCache, asOrder>>
      /\ cloud' \in [made : Autoscaling!NoTime..CapacityMaxClock, good : BOOLEAN, loading : BOOLEAN]
  <2>1. \A good \in BOOLEAN : [made |-> asClock, good |-> good, loading |-> FALSE]
            \in [made : Autoscaling!NoTime..CapacityMaxClock, good : BOOLEAN, loading : BOOLEAN]
    BY <1>1, CapacityBounds
  <2>2. [cloud EXCEPT !.loading = TRUE]
            \in [made : Autoscaling!NoTime..CapacityMaxClock, good : BOOLEAN, loading : BOOLEAN]
    BY <1>1
  <2> QED
    BY <1>1, <2>1, <2>2 DEF Autoscaling!CloudLoads, Autoscaling!AskCloud
<1>3. /\ asCall' \in [CapacityCalls -> CapacityCallType]
      /\ \A d \in CapacityCalls :
            \/ asCall'[d] = asCall[d]
            \/ /\ Autoscaling!Collecting(d) /\ asCall'[d].phase \in {"cloud", "analyzing"}
               /\ asCall'[d].scope = asCall[d].scope /\ asCall'[d].on = asCall[d].on /\ asCall'[d].at = asCall[d].at
  <2>1. \A d \in CapacityCalls, phase \in {"cloud", "analyzing"} :
           LET new == [asCall[d] EXCEPT !.phase = phase]
           IN  /\ new \in CapacityCallType /\ new.phase = phase /\ new.scope = asCall[d].scope
               /\ new.on = asCall[d].on /\ new.at = asCall[d].at
    BY <1>1 DEF CapacityCallType
  <2>2. CASE Autoscaling!CloudLoads
    BY <1>1, <2>1, <2>2 DEF Autoscaling!CloudLoads, Autoscaling!Collecting, CollectingPhases
  <2>3. ASSUME NEW c \in CapacityCalls, Autoscaling!AskCloud(c)
        PROVE  \E phase \in {"cloud", "analyzing"} :
                  asCall[c].phase = "collecting" /\ asCall' = [asCall EXCEPT ![c] = [asCall[c] EXCEPT !.phase = phase]]
    BY <2>3 DEF Autoscaling!AskCloud
  <2>4. ASSUME NEW c \in CapacityCalls, NEW phase \in {"cloud", "analyzing"}, NEW new,
               new = [asCall[c] EXCEPT !.phase = phase],
               asCall[c].phase = "collecting", asCall' = [asCall EXCEPT ![c] = new]
        PROVE  /\ asCall' \in [CapacityCalls -> CapacityCallType]
               /\ \A d \in CapacityCalls :
                     \/ asCall'[d] = asCall[d]
                     \/ /\ Autoscaling!Collecting(d) /\ asCall'[d].phase \in {"cloud", "analyzing"}
                        /\ asCall'[d].scope = asCall[d].scope /\ asCall'[d].on = asCall[d].on
                        /\ asCall'[d].at = asCall[d].at
    <3>1. /\ new \in CapacityCallType /\ new.phase = phase /\ new.scope = asCall[c].scope
          /\ new.on = asCall[c].on /\ new.at = asCall[c].at
      BY <2>1, <2>4
    <3>2. Autoscaling!Collecting(c)
      BY <2>4 DEF Autoscaling!Collecting
    <3>3. asCall'[c] = new /\ \A d \in CapacityCalls \ {c} : asCall'[d] = asCall[d]
      BY <1>1, <2>4
    <3>4. asCall' \in [CapacityCalls -> CapacityCallType]
      BY <1>1, <2>4, <3>1
    <3> QED
      BY <3>1, <3>2, <3>3, <3>4
  <2> QED
    BY <2>2, <2>3, <2>4
<1>4. \A d \in CapacityCalls : (asCall'[d].phase \in CollectingPhases) <=> Autoscaling!Collecting(d)
  BY <1>3 DEF Autoscaling!Collecting, CollectingPhases
<1>5. \A d \in CapacityCalls :
         /\ asCall'[d].scope = asCall[d].scope /\ asCall'[d].on = asCall[d].on /\ asCall'[d].at = asCall[d].at
         /\ asCall'[d].phase \in {"waiting", "answered", "idle"} \/ asCall[d].phase \in {"waiting", "answered", "idle"}
               => asCall'[d] = asCall[d]
  BY <1>3 DEF Autoscaling!Collecting, CollectingPhases
<1>6. CapacityTyped' /\ CapacityPast'
  BY <1>1, <1>2, <1>3, <1>5 DEF CapacityInv, CapacityTyped, CapacityPast
<1>7. CapacityOn'
  BY <1>3, <1>4, <1>5 DEF CapacityInv, CapacityOn, Autoscaling!Collecting, CollectingPhases
<1>8. Autoscaling!AnswersAreFresh'
  BY <1>5 DEF CapacityInv, Autoscaling!AnswersAreFresh
<1>9. ASSUME NEW d \in CapacityCalls, asCall'[d].phase = "waiting"
      PROVE  /\ asCall'[d].on # Autoscaling!Nobody /\ asCall'[asCall'[d].on].phase \in CollectingPhases
             /\ asCall'[asCall'[d].on].scope = asCall'[d].scope
  <2>1. asCall'[d] = asCall[d] /\ asCall[d].on \in CapacityCalls
    BY <1>1, <1>5, <1>9 DEF CapacityInv, Autoscaling!NobodyIsLeft, CapacityCallType
  <2> QED
    BY <1>4, <1>5, <1>9, <2>1 DEF CapacityInv, Autoscaling!NobodyIsLeft, Autoscaling!Collecting, CollectingPhases
<1>10. ASSUME NEW s \in DOMAIN asCache, asCache[s].by # Autoscaling!Nobody
       PROVE  asCall'[asCache[s].by].phase \in CollectingPhases /\ asCall'[asCache[s].by].scope = s
  <2>1. asCache[s].by \in CapacityCalls
    BY <1>10 DEF CapacityInv, CapacityTyped, CapacityEntryType
  <2> QED
    BY <1>4, <1>5, <1>10, <2>1
    DEF CapacityInv, Autoscaling!NobodyIsLeft, Autoscaling!Inflight, Autoscaling!Collecting, CollectingPhases
<1>11. Autoscaling!NobodyIsLeft'
  BY <1>2, <1>9, <1>10 DEF Autoscaling!NobodyIsLeft, Autoscaling!Inflight, Autoscaling!Collecting, CollectingPhases
<1> QED
  BY <1>6, <1>7, <1>8, <1>11 DEF CapacityInv

\* A collection ends, and with it the wait of all who waited for it.
LEMMA CapacityEnds ==
    ASSUME CapacityInv, NEW c \in CapacityCalls, Autoscaling!Succeed(c) \/ Autoscaling!Fail(c)
    PROVE  CapacityInv'
<1>1. /\ asCall \in [CapacityCalls -> CapacityCallType] /\ asClock \in 0..CapacityMaxClock
      /\ Autoscaling!Collecting(c) /\ UNCHANGED <<asClock, asOrder, cloud>>
  BY DEF CapacityInv, CapacityTyped, Autoscaling!Succeed, Autoscaling!Fail, Autoscaling!Collecting, CollectingPhases
<1>2. \E made \in {Autoscaling!NoTime, asClock} :
         asCache' = IF Autoscaling!Mine(c)
                    THEN [asCache EXCEPT ![asCall[c].scope] = [by |-> Autoscaling!Nobody, made |-> made]]
                    ELSE asCache
  BY DEF Autoscaling!Succeed, Autoscaling!Fail
<1>3. /\ DOMAIN asCache' = DOMAIN asCache
      /\ \A s \in DOMAIN asCache :
            \/ asCache'[s] = asCache[s] /\ asCache[s].by # c
            \/ /\ asCache'[s] \in CapacityEntryType /\ asCache'[s].by = Autoscaling!Nobody
               /\ asCache'[s].made =< asClock
  <2>1. PICK made \in {Autoscaling!NoTime, asClock} :
           asCache' = IF Autoscaling!Mine(c)
                      THEN [asCache EXCEPT ![asCall[c].scope] = [by |-> Autoscaling!Nobody, made |-> made]]
                      ELSE asCache
    BY <1>2
  <2> DEFINE new == [by |-> Autoscaling!Nobody, made |-> made]
  <2>2. new \in CapacityEntryType /\ new.by = Autoscaling!Nobody /\ new.made =< asClock
    BY <1>1, CapacityBounds DEF CapacityEntryType
  <2>3. asCache' = IF Autoscaling!Mine(c) THEN [asCache EXCEPT ![asCall[c].scope] = new] ELSE asCache
    BY <2>1
  <2> HIDE DEF new
  <2>4. \A s \in DOMAIN asCache : asCache[s].by = c => s = asCall[c].scope
    BY CapacityBounds DEF CapacityInv, Autoscaling!NobodyIsLeft, Autoscaling!Inflight
  <2> QED
    BY <2>2, <2>3, <2>4 DEF Autoscaling!Mine
<1>4. \A d \in CapacityCalls :
         IF asCall[d].on = c
         THEN /\ asCall'[d] \in CapacityCallType
              /\ asCall'[d].phase \in {"answered", "again", "failed"} /\ asCall'[d].on = Autoscaling!Nobody
              /\ asCall'[d].at = asCall[d].at /\ asCall'[d].scope = asCall[d].scope
              /\ asCall'[d].forced = asCall[d].forced
              /\ asCall'[d].phase = "answered" => asCall'[d].made = asClock
         ELSE asCall'[d] = asCall[d]
  <2>0. \A d \in CapacityCalls : asCall[d] \in CapacityCallType
    BY <1>1
  <2>1. ASSUME NEW d \in CapacityCalls, NEW phase \in {"answered", "again", "failed"}, NEW new,
               new = [asCall[d] EXCEPT !.phase = phase, !.on = Autoscaling!Nobody]
        PROVE  /\ new \in CapacityCallType /\ new.phase = phase /\ new.on = Autoscaling!Nobody
               /\ new.at = asCall[d].at /\ new.scope = asCall[d].scope /\ new.forced = asCall[d].forced
    BY <2>0, <2>1 DEF CapacityCallType
  <2>2. ASSUME NEW d \in CapacityCalls, NEW new,
               new = [asCall[d] EXCEPT !.phase = "answered", !.on = Autoscaling!Nobody, !.made = asClock]
        PROVE  /\ new \in CapacityCallType /\ new.phase = "answered" /\ new.on = Autoscaling!Nobody
               /\ new.at = asCall[d].at /\ new.scope = asCall[d].scope /\ new.forced = asCall[d].forced
               /\ new.made = asClock
    <3>1. asClock \in Autoscaling!NoTime..CapacityMaxClock
      BY <1>1, CapacityBounds
    <3> QED
      BY <2>0, <2>2, <3>1 DEF CapacityCallType
  <2>3. \A d \in CapacityCalls : asCall[d].on = c <=> d = c \/ (asCall[d].phase = "waiting" /\ asCall[d].on = c)
    <3>1. asCall[c].on = c
      BY <1>1 DEF CapacityInv, CapacityOn
    <3>2. \A d \in CapacityCalls : asCall[d].on = c /\ d # c => asCall[d].phase = "waiting"
      BY CapacityBounds DEF CapacityInv, CapacityOn
    <3> QED
      BY <3>1, <3>2
  <2>4. CASE Autoscaling!Succeed(c)
    <3>1. asCall' = [d \in CapacityCalls |->
                  IF d = c THEN [asCall[c] EXCEPT !.phase = "answered", !.on = Autoscaling!Nobody, !.made = asClock]
                  ELSE IF asCall[d].phase = "waiting" /\ asCall[d].on = c THEN Autoscaling!AfterWait(c, d) ELSE asCall[d]]
      BY <2>4 DEF Autoscaling!Succeed
    <3>2. \A d \in CapacityCalls :
             \/ Autoscaling!AfterWait(c, d) = [asCall[d] EXCEPT !.phase = "again", !.on = Autoscaling!Nobody]
             \/ Autoscaling!AfterWait(c, d)
                   = [asCall[d] EXCEPT !.phase = "answered", !.on = Autoscaling!Nobody, !.made = asClock]
      BY DEF Autoscaling!AfterWait
    <3>3. ASSUME NEW d \in CapacityCalls, asCall[d].on = c
          PROVE  \/ asCall'[d] = [asCall[d] EXCEPT !.phase = "again", !.on = Autoscaling!Nobody]
                 \/ asCall'[d] = [asCall[d] EXCEPT !.phase = "answered", !.on = Autoscaling!Nobody, !.made = asClock]
      BY <2>3, <3>1, <3>2, <3>3
    <3>4. ASSUME NEW d \in CapacityCalls, asCall[d].on # c PROVE asCall'[d] = asCall[d]
      BY <2>3, <3>1, <3>4
    <3>5. ASSUME NEW d \in CapacityCalls, asCall[d].on = c
          PROVE  /\ asCall'[d] \in CapacityCallType
                 /\ asCall'[d].phase \in {"answered", "again", "failed"} /\ asCall'[d].on = Autoscaling!Nobody
                 /\ asCall'[d].at = asCall[d].at /\ asCall'[d].scope = asCall[d].scope
                 /\ asCall'[d].forced = asCall[d].forced
                 /\ asCall'[d].phase = "answered" => asCall'[d].made = asClock
      <4>1. CASE asCall'[d] = [asCall[d] EXCEPT !.phase = "again", !.on = Autoscaling!Nobody]
        BY <2>0, <4>1 DEF CapacityCallType
      <4>2. CASE asCall'[d] = [asCall[d] EXCEPT !.phase = "answered", !.on = Autoscaling!Nobody, !.made = asClock]
        BY <2>2, <4>2
      <4> QED
        BY <3>3, <3>5, <4>1, <4>2
    <3> QED
      BY <3>4, <3>5
  <2>5. CASE Autoscaling!Fail(c)
    <3>1. \A d \in CapacityCalls : asCall'[d] = IF asCall[d].on = c
             THEN [asCall[d] EXCEPT !.phase = "failed", !.on = Autoscaling!Nobody] ELSE asCall[d]
      BY <2>5 DEF Autoscaling!Fail
    <3>2. ASSUME NEW d \in CapacityCalls, asCall[d].on = c
          PROVE  /\ asCall'[d] \in CapacityCallType
                 /\ asCall'[d].phase = "failed" /\ asCall'[d].on = Autoscaling!Nobody
                 /\ asCall'[d].at = asCall[d].at /\ asCall'[d].scope = asCall[d].scope
                 /\ asCall'[d].forced = asCall[d].forced
      <4>1. asCall'[d] = [asCall[d] EXCEPT !.phase = "failed", !.on = Autoscaling!Nobody]
        BY <3>1, <3>2
      <4> QED
        BY <2>0, <4>1 DEF CapacityCallType
    <3> QED
      BY <3>1, <3>2
  <2> QED
    BY <2>4, <2>5
<1>5. asCall' \in [CapacityCalls -> CapacityCallType]
  <2>1. asCall' = [d \in CapacityCalls |-> asCall'[d]]
    BY DEF Autoscaling!Succeed, Autoscaling!Fail
  <2> QED
    BY <1>1, <1>4, <2>1
<1>6. CapacityTyped' /\ CapacityPast'
  <2>1. \A s \in DOMAIN asCache' : asCache'[s] \in CapacityEntryType /\ asCache'[s].made =< asClock'
    BY <1>1, <1>3 DEF CapacityInv, CapacityTyped, CapacityPast
  <2>2. \A d \in CapacityCalls : asCall'[d].at =< asClock'
    BY <1>1, <1>4 DEF CapacityInv, CapacityPast
  <2>3. DOMAIN asCache' = DOMAIN asCache
    BY <1>3
  <2>4. CapacityTyped'
    BY <1>1, <1>5, <2>1, <2>3 DEF CapacityInv, CapacityTyped
  <2>5. CapacityPast'
    BY <2>1, <2>2 DEF CapacityPast
  <2> QED
    BY <2>4, <2>5
<1>7. CapacityOn'
  <2>1. ASSUME NEW d \in CapacityCalls, asCall[d].on = c PROVE asCall[d].scope \in CapacityScopes
    BY <2>1, CapacityBounds DEF CapacityInv, CapacityOn, Autoscaling!Collecting
  <2>2. ASSUME NEW d \in CapacityCalls
        PROVE  /\ asCall'[d].phase \in CollectingPhases => asCall'[d].on = d
               /\ asCall'[d].phase \notin CollectingPhases \cup {"waiting"} => asCall'[d].on = Autoscaling!Nobody
               /\ asCall'[d].phase # "idle" => asCall'[d].scope \in CapacityScopes
    <3>1. CASE asCall[d].on = c
      BY <1>4, <2>1, <3>1 DEF CollectingPhases
    <3>2. CASE asCall[d].on # c
      <4>1. asCall'[d] = asCall[d]
        BY <1>4, <3>2
      <4> QED
        BY <4>1 DEF CapacityInv, CapacityOn, Autoscaling!Collecting, CollectingPhases
    <3> QED
      BY <3>1, <3>2
  <2> QED
    BY <2>2 DEF CapacityOn, Autoscaling!Collecting, CollectingPhases
<1>8. Autoscaling!AnswersAreFresh'
  <2>1. \A d \in CapacityCalls : asCall[d].at \in Nat /\ asCall[d].at =< asClock
    BY <1>1 DEF CapacityInv, CapacityPast, CapacityCallType
  <2>2. ASSUME NEW d \in CapacityCalls, asCall[d].on = c, asCall'[d].phase = "answered"
        PROVE  asCall'[d].made >= asCall'[d].at /\ asCall'[d].made + CapacityTTL > asCall'[d].at
    BY <1>1, <1>4, <2>1, <2>2, CapacityBounds
  <2> QED
    BY <1>4, <2>2 DEF CapacityInv, Autoscaling!AnswersAreFresh
<1>9. ASSUME NEW d \in CapacityCalls, asCall'[d].phase = "waiting"
      PROVE  /\ asCall'[d].on # Autoscaling!Nobody /\ asCall'[asCall'[d].on].phase \in CollectingPhases
             /\ asCall'[asCall'[d].on].scope = asCall'[d].scope
  <2>1. asCall[d].on # c /\ asCall'[d] = asCall[d]
    BY <1>4, <1>9
  <2>2. /\ asCall[d].on \in CapacityCalls /\ Autoscaling!Collecting(asCall[d].on)
        /\ asCall[d].on # Autoscaling!Nobody /\ asCall[asCall[d].on].scope = asCall[d].scope
    BY <1>1, <1>9, <2>1 DEF CapacityInv, Autoscaling!NobodyIsLeft, CapacityCallType
  <2>3. asCall[asCall[d].on].on = asCall[d].on
    BY <2>2 DEF CapacityInv, CapacityOn
  <2>4. asCall'[asCall[d].on] = asCall[asCall[d].on]
    BY <1>4, <2>1, <2>2, <2>3
  <2> QED
    BY <2>1, <2>2, <2>4 DEF Autoscaling!Collecting, CollectingPhases
<1>10. ASSUME NEW s \in DOMAIN asCache', asCache'[s].by # Autoscaling!Nobody
       PROVE  asCall'[asCache'[s].by].phase \in CollectingPhases /\ asCall'[asCache'[s].by].scope = s
  <2>1. s \in DOMAIN asCache /\ asCache'[s] = asCache[s] /\ asCache[s].by # c
    BY <1>3, <1>10
  <2>2. asCache[s].by \in CapacityCalls /\ Autoscaling!Collecting(asCache[s].by) /\ asCall[asCache[s].by].scope = s
    BY <1>10, <2>1
    DEF CapacityInv, CapacityTyped, CapacityEntryType, Autoscaling!NobodyIsLeft, Autoscaling!Inflight
  <2>3. asCall[asCache[s].by].on = asCache[s].by
    BY <2>2 DEF CapacityInv, CapacityOn
  <2>4. asCall'[asCache[s].by] = asCall[asCache[s].by]
    BY <1>4, <2>1, <2>2, <2>3
  <2> QED
    BY <2>1, <2>2, <2>4 DEF Autoscaling!Collecting, CollectingPhases
<1>11. Autoscaling!NobodyIsLeft'
  BY <1>9, <1>10 DEF Autoscaling!NobodyIsLeft, Autoscaling!Inflight, Autoscaling!Collecting, CollectingPhases
<1> QED
  BY <1>6, <1>7, <1>8, <1>11 DEF CapacityInv

LEMMA CapacityStep == ASSUME CapacityInv, [Autoscaling!Next]_(Autoscaling!vars) PROVE CapacityInv'
<1>1. CASE UNCHANGED Autoscaling!vars
  BY <1>1 DEF Autoscaling!vars, CapacityInv, CapacityTyped, CapacityOn, CapacityPast, Autoscaling!NobodyIsLeft,
              Autoscaling!AnswersAreFresh, Autoscaling!Collecting, Autoscaling!Inflight
<1>2. CASE Autoscaling!Tick
  <2>1. asClock' = asClock + 1 /\ asClock < CapacityMaxClock /\ UNCHANGED <<asCache, asOrder, cloud, asCall>>
    BY <1>2 DEF Autoscaling!Tick
  <2>2. CapacityTyped' /\ CapacityPast'
    BY <2>1, CapacityBounds DEF CapacityInv, CapacityTyped, CapacityPast, CapacityCallType, CapacityEntryType
  <2> QED
    BY <2>1, <2>2 DEF CapacityInv, CapacityOn, Autoscaling!NobodyIsLeft,
              Autoscaling!AnswersAreFresh, Autoscaling!Collecting, Autoscaling!Inflight
<1> QED
  BY <1>1, <1>2, CapacityReceives, CapacityAgain, CapacityGoesOn, CapacityEnds DEF Autoscaling!Next

LEMMA CapacityCorrect == Autoscaling!Spec => []CapacityInv
  BY CapacityInit, CapacityStep, PTL DEF Autoscaling!Spec

-----------------------------------------------------------------------------
(* The whole: each part takes its own steps, whatever the others do. *)

LEMMA ServerAssumptions == Server!Assumptions
  BY ServerAssumption DEF Server!Assumptions

LEMMA PartsRun ==
    AllSpec => Spec /\ Posture!Spec /\ Autoscaling!Spec /\ Server!Spec
<1>1. AllInit => Init /\ Posture!Init /\ Autoscaling!Init /\ Server!Init
  BY DEF AllInit
<1>2. [AllNext]_allVars =>
         [Next]_vars /\ [Posture!Next]_(Posture!vars) /\ [Autoscaling!Next]_(Autoscaling!vars)
         /\ [Server!Next]_(Server!vars)
  BY DEF AllNext, allVars, vars, poVars, asVars, seVars, Posture!vars, Autoscaling!vars, Server!vars
<1> QED
  BY <1>1, <1>2, PTL DEF AllSpec, Spec, Posture!Spec, Autoscaling!Spec, Server!Spec

\* For any calls, tokens, times and bounds every part's state has its types: no cache
\* holds more than it may, or a key twice (ci/index.js, policy-posture.js,
\* autoscaling-capacity.js, server.js).
THEOREM AllTypesCorrect == AllSpec => []AllTypeOK
<1>1. PostureInv => Posture!TypeOK
  BY DEF PostureInv
<1>2. CapacityInv => Autoscaling!TypeOK
  BY CapacityIsTyped DEF CapacityInv
<1>3. TypeOK /\ Posture!TypeOK /\ Autoscaling!TypeOK /\ Server!TypeOK => AllTypeOK
  BY DEF AllTypeOK
<1>4. Server!Spec => []Server!TypeOK
  BY ServerAssumptions, Server!TypeCorrect
<1> QED
  BY <1>1, <1>2, <1>3, <1>4, PartsRun, TypeCorrect, PostureCorrect, CapacityCorrect, PTL

\* For any calls, scopes and bounds: what a call is given was made after it came in if it
\* asked for a refresh, and is younger than the cache time if it did not, whichever of
\* the concurrent collections it waited for (policy-posture.js:83-106,
\* autoscaling-capacity.js:604-612).
THEOREM AnswersAreFreshCorrect == AllSpec => []AnswersAreFresh
<1>1. PostureInv /\ CapacityInv => AnswersAreFresh
  BY DEF PostureInv, CapacityInv, AnswersAreFresh
<1> QED
  BY <1>1, PartsRun, PostureCorrect, CapacityCorrect, PTL

\* For any tokens and times, beside the caches: see LoopbackServerProofs.
THEOREM GrantsAreFreshHere == AllSpec => []GrantsAreFresh
<1>1. Server!Spec => []Server!GrantsAreFresh
  BY ServerAssumptions, Server!GrantsAreFreshCorrect
<1>2. Server!GrantsAreFresh => GrantsAreFresh
  BY DEF GrantsAreFresh
<1> QED
  BY <1>1, <1>2, PartsRun, PTL

\* For any tokens, scopes and requests, beside the caches: see LoopbackServerProofs.
THEOREM OnlyAllowedHere == AllSpec => []OnlyAllowedReached
<1>1. Server!Spec => []Server!OnlyAllowedReached
  BY ServerAssumptions, Server!OnlyAllowedCorrect
<1>2. Server!OnlyAllowedReached => OnlyAllowedReached
  BY DEF OnlyAllowedReached
<1> QED
  BY <1>1, <1>2, PartsRun, PTL

\* For any calls and keys: the CI requests, the posture collections and the introspections
\* implement SharedLoad, and nobody waits for an autoscaling collection that does not run,
\* even one whose entry was evicted or replaced (ci/index.js:99-108, policy-posture.js:82-106,
\* server.js:289-325, autoscaling-capacity.js:604-612).
THEOREM LoadsAreSharedCorrect == AllSpec => LoadsAreShared
<1>1. Server!Spec => Server!SharesLoads
  BY ServerAssumptions, Server!ImplementsSharedLoad
<1>2. CapacityInv => Autoscaling!NobodyIsLeft
  BY DEF CapacityInv
<1> QED
  BY <1>1, <1>2, PartsRun, ImplementsSharedLoad, PostureSharing, CapacityCorrect, PTL DEF LoadsAreShared
=============================================================================
