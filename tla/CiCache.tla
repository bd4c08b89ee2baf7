------------------------------ MODULE CiCache ------------------------------
(***************************************************************************)
(* The cache of one CI provider instance, agent/src/ci/index.js: readers   *)
(* share one request, an answer is kept for a short time, a failure is     *)
(* remembered until the provider may be asked again, and the last good     *)
(* snapshot is shown in the meantime.  Instances do not affect each other, *)
(* except that a reader takes the time once and then waits for a slot      *)
(* among its instances, so its `now' may lie behind the clock.             *)
(***************************************************************************)
EXTENDS Integers, FiniteSets

CONSTANTS
    Readers,     \* calls of loadLocalCiPipelines
    TTL,         \* CACHE_TTL_MS
    StaleTTL,    \* CACHE_STALE_TTL_MS
    FailureTTL,  \* FAILURE_CACHE_TTL_MS: the shortest wait after a failure
    MaxRetry,    \* the longest Retry-After that is honoured (15 min)
    MaxClock,    \* bound on the time a behaviour takes
    None

ASSUME TimeAssumption ==
    /\ {TTL, StaleTTL, FailureTTL, MaxRetry} \subseteq Nat \ {0}
    /\ FailureTTL =< TTL /\ TTL < StaleTTL /\ StaleTTL < MaxRetry
    /\ MaxClock \in Nat

VARIABLES
    clock,
    cache,    \* None, or the entry: value, expiresAt, staleUntil
    loading,  \* the requests in flight, each with the entry it found
    reader,   \* "idle", "called", "waiting" or "answered"
    now,      \* the time a reader took when it was called
    answer,   \* what a reader was given
    retryAt   \* observation: when the provider may be asked again after a failure

vars == <<clock, cache, loading, reader, now, answer, retryAt>>

\* A value is known by the time its request completed; "failure" holds no runs.
Values == [kind : {"snapshot", "failure"}, at : 0..MaxClock]
Entries == [value : Values, expiresAt : 0..(MaxClock + MaxRetry), staleUntil : 0..(MaxClock + MaxRetry)]

ASSUME NoneAssumption == None \notin Entries

Answers == [value : Values, cached : BOOLEAN, stale : BOOLEAN, issues : BOOLEAN, given : 0..MaxClock]

Entry(value, expiresAt, staleUntil) ==
    [value |-> value, expiresAt |-> expiresAt, staleUntil |-> staleUntil]

Answer(value, cached, stale, issues) ==
    [value |-> value, cached |-> cached, stale |-> stale, issues |-> issues, given |-> clock]

Init ==
    /\ clock = 0
    /\ cache = None
    /\ loading = {}
    /\ reader = [r \in Readers |-> "idle"]
    /\ now = [r \in Readers |-> 0]
    /\ answer = [r \in Readers |-> None]
    /\ retryAt = 0

\* Time passes (external).
Tick ==
    /\ clock < MaxClock
    /\ clock' = clock + 1
    /\ UNCHANGED <<cache, loading, reader, now, answer, retryAt>>

\* loadLocalCiPipelines is called and takes the time, once for all instances.
Call(r) ==
    /\ reader[r] \in {"idle", "answered"}
    /\ reader' = [reader EXCEPT ![r] = "called"]
    /\ now' = [now EXCEPT ![r] = clock]
    /\ answer' = [answer EXCEPT ![r] = None]
    /\ UNCHANGED <<clock, cache, loading, retryAt>>

Usable(r) == cache # None /\ cache.expiresAt > now[r]

\* loadInstance finds an entry that has not expired: it is given as it is, never
\* marked stale, with the issues it was stored with.
Hit(r) ==
    /\ reader[r] = "called"
    /\ Usable(r)
    /\ reader' = [reader EXCEPT ![r] = "answered"]
    /\ answer' = [answer EXCEPT ![r] =
                    Answer(cache.value, TRUE, FALSE, cache.value.kind = "failure")]
    /\ UNCHANGED <<clock, cache, loading, now, retryAt>>

\* loadInstance joins the request in flight.
Join(r) ==
    /\ reader[r] = "called"
    /\ ~Usable(r) /\ loading # {}
    /\ reader' = [reader EXCEPT ![r] = "waiting"]
    /\ UNCHANGED <<clock, cache, loading, now, answer, retryAt>>

\* loadInstance asks the provider.
Load(r) ==
    /\ reader[r] = "called"
    /\ ~Usable(r) /\ loading = {}
    /\ reader' = [reader EXCEPT ![r] = "waiting"]
    /\ loading' = {[by |-> r, found |-> cache]}
    /\ UNCHANGED <<clock, cache, now, answer, retryAt>>

\* Every reader of the request is given the same answer.
Settle(request, given) ==
    /\ loading' = loading \ {request}
    /\ reader' = [r \in Readers |-> IF reader[r] = "waiting" THEN "answered" ELSE reader[r]]
    /\ answer' = [r \in Readers |-> IF reader[r] = "waiting" THEN given ELSE answer[r]]

Succeed(request) ==
    LET value == [kind |-> "snapshot", at |-> clock]
    IN  /\ cache' = Entry(value, clock + TTL, clock + StaleTTL)
        /\ Settle(request, Answer(value, FALSE, FALSE, FALSE))
        /\ retryAt' = 0

\* Mutant: the last snapshot is shown for as long as the provider fails.
StillShownForever(found) == found # None /\ found.value.kind = "snapshot"

StillShown(found) == found # None /\ found.staleUntil > clock

\* retryDelayMs: a 429 says how long to wait, within bounds.
Delays == FailureTTL..MaxRetry

\* The request fails and the snapshot it found is still shown: the entry is kept
\* until the provider may be asked again.
FailShowingStale(request, delay) ==
    /\ StillShown(request.found)
    /\ cache' = [request.found EXCEPT !.expiresAt = clock + delay]
    /\ Settle(request, Answer(request.found.value, TRUE, TRUE, TRUE))
    /\ retryAt' = clock + delay

\* Mutant: a failure without a snapshot is not remembered.
FailForgetting(request, delay) ==
    /\ ~StillShown(request.found)
    /\ cache' = None
    /\ Settle(request, Answer([kind |-> "failure", at |-> clock], FALSE, FALSE, TRUE))
    /\ retryAt' = clock + delay

\* The request fails and there is nothing to show: the failure itself is kept.
FailWithNothing(request, delay) ==
    /\ ~StillShown(request.found)
    /\ LET failure == [kind |-> "failure", at |-> clock]
       IN  /\ cache' = Entry(failure, clock + delay, clock + delay)
           /\ Settle(request, Answer(failure, FALSE, FALSE, TRUE))
    /\ retryAt' = clock + delay

LoadSettles == \E request \in loading :
    /\ \/ Succeed(request)
       \/ \E delay \in Delays : FailShowingStale(request, delay) \/ FailWithNothing(request, delay)
    /\ UNCHANGED <<clock, now>>

Lookup(r) == Hit(r) \/ Join(r) \/ Load(r)

Next == Tick \/ LoadSettles \/ \E r \in Readers : Call(r) \/ Lookup(r)

Spec == Init /\ [][Next]_vars

\* The provider client has a timeout (ci/http.js), and the event loop runs.
Fairness == WF_vars(LoadSettles) /\ \A r \in Readers : WF_vars(Lookup(r))

FairSpec == Spec /\ Fairness

-----------------------------------------------------------------------------
Given(r) == reader[r] = "answered"

\* Types; only a reader that was answered has an answer.
TypeOK ==
    /\ clock \in 0..MaxClock
    /\ cache = None \/ cache \in Entries
    /\ \A request \in loading : request.by \in Readers
                                /\ (request.found = None \/ request.found \in Entries)
    /\ reader \in [Readers -> {"idle", "called", "waiting", "answered"}]
    /\ now \in [Readers -> 0..MaxClock]
    /\ answer \in [Readers -> Answers \cup {None}]
    /\ \A r \in Readers : IF Given(r) THEN answer[r] \in Answers ELSE answer[r] = None
    /\ retryAt \in 0..(MaxClock + MaxRetry)

\* The provider is never asked twice at the same time, and whoever waits waits for
\* the request in flight.
OneRequest ==
    /\ Cardinality(loading) =< 1
    /\ (\E r \in Readers : reader[r] = "waiting") => loading # {}

Sharing == INSTANCE SharedLoad WITH
    Keys <- {"ci"}, loads <- IF loading = {} THEN {} ELSE {"ci"},
    waiting <- {<<r, "ci">> : r \in {q \in Readers : reader[q] = "waiting"}}

\* The readers of an instance share a request, and its end releases them all, whether
\* they are given the snapshot, an old one or the failure (inFlight, index.js:99-108).
SharesLoads == Sharing!Spec

\* After a failure the provider is left alone for as long as it asked, whether or
\* not a snapshot was shown meanwhile and however late a reader looks
\* ("The agent will wait before polling again", line 30).
RetryAfterHonoured == [][loading' \ loading # {} => clock >= retryAt]_vars

\* A snapshot shown as stale is never older than the stale bound, and comes with
\* the reason it is shown.
StaleIsBounded ==
    \A r \in Readers : Given(r) /\ answer[r].stale =>
        /\ answer[r].value.kind = "snapshot" /\ answer[r].issues
        /\ answer[r].given - answer[r].value.at < StaleTTL

\* A snapshot older than the normal cache time, seen from the moment the reader was
\* called, is labeled as stale (docs/ci-pipelines.md:84).
StaleIsLabeled ==
    \A r \in Readers : Given(r) /\ answer[r].value.kind = "snapshot" /\ ~answer[r].stale =>
        now[r] - answer[r].value.at =< TTL

\* Every call is answered, failure or not.
EveryCallAnswered == \A r \in Readers : (reader[r] = "called") ~> Given(r)
=============================================================================
