--------------------------- MODULE LoopbackServer ---------------------------
(***************************************************************************)
(* The agent's loopback server, agent/src/server.js: what a request has to *)
(* pass before a provider is asked, and the introspections that decide who *)
(* it speaks for.  Requests of one token share an introspection; its       *)
(* answer is kept for a moment.  The relay calls the same dispatcher.      *)
(*                                                                         *)
(* A token is known to the control plane as a runtime, an MCP or a         *)
(* discovery token.  The agent tells them apart by a prefix only: an MCP   *)
(* token from before the prefix (legacy) looks like a runtime token.       *)
(***************************************************************************)
EXTENDS Integers, Sequences, FiniteSets, Functions, InsertionOrder

CONSTANTS
    Calls,
    RuntimeTokens, McpTokens, LegacyTokens, DiscoveryTokens,
    NoToken,
    Scopes,          \* token -> the scopes its introspection names
    Until,           \* token -> when it expires
    TTL,             \* runtimeIntrospectionCacheTtlMs
    Timeout,         \* of one request to the control plane
    MaxEntries,      \* of an introspection cache (1000)
    HasTimeline,     \* the agent was started with a timeline
    Requests,        \* call -> the requests it may make
    Revocable,       \* bound: the tokens a behaviour may revoke
    MaxClock         \* bound on the time a behaviour takes

Tokens == RuntimeTokens \cup McpTokens \cup LegacyTokens \cup DiscoveryTokens

\* What is asked of the constants; who instances the module assumes it.
TokenAssumption ==
    /\ RuntimeTokens \cap (McpTokens \cup LegacyTokens \cup DiscoveryTokens) = {}
    /\ McpTokens \cap (LegacyTokens \cup DiscoveryTokens) = {}
    /\ LegacyTokens \cap DiscoveryTokens = {}
    /\ NoToken \notin Tokens
    /\ Scopes \in [Tokens -> SUBSET {"runtime:read", "runtime:manage"}]
    /\ Until \in [Tokens -> Nat]

TimeAssumption ==
    /\ TTL \in Nat \ {0} /\ Timeout \in Nat \ {0} /\ MaxEntries \in Nat \ {0}
    /\ MaxClock \in Nat /\ HasTimeline \in BOOLEAN

VARIABLES
    clock,
    revokedAt,  \* token -> when the control plane revoked it, Never
    cache,      \* runtime and MCP introspections: token -> entry
    order,      \* the tokens of the cache, oldest insertion first
    discovered, \* the discovery introspections kept
    asks,       \* the introspections in flight
    call        \* call -> its phase, request, grant and status

vars == <<clock, revokedAt, cache, order, discovered, asks, call>>

Never == MaxClock + 1

-----------------------------------------------------------------------------
(* Routes of the server, without the /v1 prefix. *)

CoreResources == {"overview", "namespaces/summary", "namespaces", "nodes", "pods", "pods/logs",
    "pods/dns", "pods/inspect", "objects/inspect", "pods/related-resources", "jobs", "jobs/logs",
    "metrics/history", "metrics", "workloads", "services"}

ConfigResources == {"secrets", "configmaps", "configmaps/content", "crds", "crd-objects", "storage",
    "storage-driver-overview", "storage-events", "backup-activity", "delivery-activity",
    "delivery-events", "ci-pipelines", "components/details", "components", "service-mesh"}

AnalysisResources == {"validation", "domain-health", "ghost-resources", "image-risk", "rbac", "ports",
    "traffic", "cni", "vip", "topology"}

\* Those that look at the scopes and the arguments themselves.
ScopedResources == {"policy-posture", "autoscaling"}

TimelineRoutes == {"timeline", "timeline/status", "timeline/stats", "timeline/events"}

AlertingRoutes == {<<"alerting", "GET">>, <<"alerting/config", "GET">>, <<"alerting/config", "PUT">>,
    <<"alerting/history", "GET">>, <<"alerting/test", "POST">>, <<"alerting/rule-options", "GET">>}

IsAlerting(route) == route = "alerting/unknown" \/ \E a \in AlertingRoutes : a[1] = route

Routes == CoreResources \cup ConfigResources \cup AnalysisResources \cup ScopedResources
    \cup TimelineRoutes \cup {a[1] : a \in AlertingRoutes}
    \cup {"discovery/scan", "health", "mcp", "capability", "alerting/unknown", "unknown", "none"}

\* The paths of MCP_RESOURCE_CATALOG as they are compared: the entry for
\* autoscaling carries a query, so its path is no route.
CatalogPaths == {"overview", "namespaces", "nodes", "pods", "workloads", "autoscaling?view=full", "jobs",
    "services", "topology", "ports", "traffic", "cni", "vip", "storage", "backup-activity", "components",
    "service-mesh", "delivery-activity", "ci-pipelines", "crds", "validation", "domain-health",
    "ghost-resources", "image-risk", "rbac", "policy-posture", "metrics", "secrets", "configmaps"}

-----------------------------------------------------------------------------
IdleRequest == [token |-> NoToken, method |-> "GET", route |-> "none", origin |-> "none", bad |-> "no"]

RequestSet == [token : Tokens \cup {NoToken}, method : {"GET", "POST", "PUT", "OPTIONS"}, route : Routes,
               origin : {"none", "allowed", "foreign"}, bad : {"no", "ns", "view"}]

RequestAssumption == Revocable \subseteq Tokens /\ Requests \in [Calls -> SUBSET RequestSet]

Grants == [mcp : BOOLEAN, scopes : SUBSET {"runtime:read", "runtime:manage"}]
NoGrant == [mcp |-> FALSE, scopes |-> {}]

Entries == [grant : Grants, expiresAt : 0..(MaxClock + TTL) \cup {-1}]

Statuses == {0, 200, 204, 400, 401, 403, 404, 501, 502}

Init ==
    /\ clock = 0
    /\ revokedAt = [t \in Tokens |-> Never]
    /\ cache = [t \in {} |-> 0]
    /\ order = <<>>
    /\ discovered = {}
    /\ asks = {}
    /\ call = [c \in Calls |-> [phase |-> "idle", request |-> IdleRequest, at |-> 0,
                                grant |-> NoGrant, status |-> 0]]

\* Time passes (external); a request to the control plane is given up in time.
Tick ==
    /\ clock < MaxClock
    /\ \A a \in asks : clock < a.at + Timeout
    /\ clock' = clock + 1
    /\ UNCHANGED <<revokedAt, cache, order, discovered, asks, call>>

\* The owner revokes a token (external).
Revoke(t) ==
    /\ t \in Revocable /\ revokedAt[t] = Never
    /\ revokedAt' = [revokedAt EXCEPT ![t] = clock]
    /\ UNCHANGED <<clock, cache, order, discovered, asks, call>>

-----------------------------------------------------------------------------
(* What needs no introspection. *)

\* The status of a request that is answered at once, 0 if it is not.
Screened(r) ==
    IF r.route = "none" THEN 404
    ELSE IF r.method = "OPTIONS" THEN IF r.origin = "allowed" THEN 204 ELSE 403
    ELSE IF r.origin = "foreign" THEN 403
    ELSE IF r.route = "discovery/scan" /\ r.method # "POST" THEN 404
    ELSE IF r.token = NoToken THEN 401
    ELSE 0

\* Mutant: an entry is used as long as it is kept.
UsableWhileKept(t) == t \in DOMAIN cache /\ cache[t].expiresAt # -1

\* expiresAt is NaN (-1) for a legacy token: such an entry is never used.
Usable(t) == t \in DOMAIN cache /\ cache[t].expiresAt # -1 /\ cache[t].expiresAt > clock

Answered(status) == [phase |-> "answered", request |-> IdleRequest, at |-> 0,
                     grant |-> NoGrant, status |-> status]

Enter(c, r, phase, grant) ==
    call' = [call EXCEPT ![c] = [phase |-> phase, request |-> r, at |-> clock,
                                 grant |-> grant, status |-> 0]]

Answer(c, status) == call' = [call EXCEPT ![c] = Answered(status)]

AskOf(c, r, kind) == [token |-> r.token, kind |-> kind, by |-> c, at |-> clock, verdict |-> "open"]

\* What the agent makes of the prefix.
FirstKind(t) == IF t \in McpTokens THEN "mcp" ELSE "runtime"

Shared(t) == {a \in asks : a.token = t /\ a.kind # "discovery"}

\* authorizeRuntime, up to its first wait.
Authorize(c, r) ==
    \/ /\ Usable(r.token)
       /\ Enter(c, r, "granted", cache[r.token].grant)
       /\ UNCHANGED asks
    \/ /\ ~Usable(r.token)
       /\ Enter(c, r, "waiting", NoGrant)
       /\ IF Shared(r.token) # {} THEN UNCHANGED asks
          ELSE asks' = asks \cup {AskOf(c, r, FirstKind(r.token))}

\* authorizeDiscovery: kept until the token expires, never shared.
AuthorizeDiscovery(c, r) ==
    \/ /\ r.token \in discovered /\ Until[r.token] > clock
       /\ Enter(c, r, "loading", NoGrant)
       /\ UNCHANGED asks
    \/ /\ ~(r.token \in discovered /\ Until[r.token] > clock)
       /\ Enter(c, r, "waiting", NoGrant)
       /\ asks' = asks \cup {AskOf(c, r, "discovery")}

\* dispatchRequest up to its first wait.
Receive(c) == \E r \in Requests[c] :
    /\ call[c].phase \in {"idle", "answered"}
    /\ \/ Screened(r) # 0 /\ Answer(c, Screened(r)) /\ UNCHANGED asks
       \/ Screened(r) = 0 /\ r.route = "discovery/scan" /\ AuthorizeDiscovery(c, r)
       \/ Screened(r) = 0 /\ r.route # "discovery/scan" /\ Authorize(c, r)
    /\ UNCHANGED <<clock, revokedAt, cache, order, discovered>>

-----------------------------------------------------------------------------
(* The introspections. *)

\* The control plane looks at a token (external).
KnownAs(kind) == CASE kind = "runtime" -> RuntimeTokens
                   [] kind = "mcp" -> McpTokens \cup LegacyTokens
                   [] OTHER -> DiscoveryTokens

Decide(a) ==
    /\ a.verdict = "open"
    /\ LET good == a.token \in KnownAs(a.kind) /\ revokedAt[a.token] = Never /\ clock < Until[a.token]
       IN  asks' = (asks \ {a}) \cup {[a EXCEPT !.verdict = IF good THEN "yes" ELSE "no"]}
    /\ UNCHANGED <<clock, revokedAt, cache, order, discovered, call>>

Waiters(a) == IF a.kind = "discovery" THEN {a.by}
    ELSE {c \in Calls : /\ call[c].phase = "waiting" /\ call[c].request.token = a.token
                        /\ call[c].request.route # "discovery/scan"}

Release(a, phase, grant) ==
    call' = [c \in Calls |-> IF c \in Waiters(a)
                THEN [call[c] EXCEPT !.phase = phase, !.grant = grant] ELSE call[c]]

Reject(a) == call' = [c \in Calls |-> IF c \in Waiters(a) THEN Answered(401) ELSE call[c]]

Least(a, b) == IF a < b THEN a ELSE b

\* An MCP introspection has no expiry of its own; under a runtime-looking token
\* that makes the entry's expiry NaN.
Expiry(t) == CASE t \in LegacyTokens -> -1
               [] t \in McpTokens -> clock + TTL
               [] OTHER -> Least(Until[t], clock + TTL)

SameCache(t, u) == FirstKind(t) = FirstKind(u)

\* Expired entries go, NaN never compares as expired; then, if the cache is full,
\* the oldest goes, whether or not the token is in the cache already.
Unexpired(t) ==
    {u \in DOMAIN cache : SameCache(t, u) => cache[u].expiresAt = -1 \/ cache[u].expiresAt > clock}

CacheOf(t, kept) == {u \in kept : SameCache(t, u)}

\* Mutant: the bound is checked after the insertion it should allow for.
KeptOneMore(t) ==
    IF Cardinality(CacheOf(t, Unexpired(t))) > MaxEntries
    THEN Unexpired(t) \ {Oldest(order, CacheOf(t, Unexpired(t)))} ELSE Unexpired(t)

Kept(t) ==
    IF Cardinality(CacheOf(t, Unexpired(t))) >= MaxEntries
    THEN Unexpired(t) \ {Oldest(order, CacheOf(t, Unexpired(t)))} ELSE Unexpired(t)

Store(t, grant) ==
    /\ order' = Placed(Only(order, Kept(t)), t)
    /\ cache' = [u \in Kept(t) \cup {t} |->
                    IF u = t THEN [grant |-> grant, expiresAt |-> Expiry(t)] ELSE cache[u]]

\* The introspection succeeds: kept, and everyone who waited goes on.
Succeed(a) ==
    /\ a.verdict = "yes"
    /\ asks' = asks \ {a}
    /\ IF a.kind = "discovery"
       THEN /\ discovered' = discovered \cup {a.token}
            /\ Release(a, "loading", NoGrant)
            /\ UNCHANGED <<cache, order>>
       ELSE LET grant == [mcp |-> a.kind = "mcp", scopes |-> Scopes[a.token]]
            IN  /\ Store(a.token, grant)
                /\ Release(a, "granted", grant)
                /\ UNCHANGED discovered
    /\ UNCHANGED <<clock, revokedAt>>

\* A runtime-looking token was refused: it is asked about again as an MCP token.
AskAsMcp(a) ==
    /\ a.verdict = "no" /\ a.kind = "runtime"
    /\ asks' = (asks \ {a}) \cup {[a EXCEPT !.kind = "mcp", !.at = clock, !.verdict = "open"]}
    /\ UNCHANGED <<clock, revokedAt, cache, order, discovered, call>>

\* Refused, timed out or lost on the network: nothing is kept.
Fail(a) ==
    /\ a.verdict = "no" => a.kind # "runtime"
    /\ asks' = asks \ {a}
    /\ Reject(a)
    /\ UNCHANGED <<clock, revokedAt, cache, order, discovered>>

-----------------------------------------------------------------------------
(* After the authorization. *)

\* Mutant: the allowlist looks at the method only.
McpReadsAnyRoute(r) == r.method = "GET"

McpReads(r) == r.method = "GET" /\ r.route \in CatalogPaths \cup {"health", "capability", "mcp"}

Manages(g) == "runtime:manage" \in g.scopes

\* The status of a request that reaches no provider, 0 if one is asked.
Routed(r, g) ==
    IF g.mcp /\ ~McpReads(r) THEN 403
    ELSE IF IsAlerting(r.route) /\ ~Manages(g) THEN 403
    ELSE IF <<r.route, r.method>> \in AlertingRoutes THEN 0
    ELSE IF r.method # "GET" THEN 404
    ELSE IF r.route \in {"health", "mcp"} THEN 200
    ELSE IF r.route \in TimelineRoutes THEN IF HasTimeline THEN 0 ELSE 501
    ELSE IF r.route \in ScopedResources /\ r.bad = "ns" THEN 400
    ELSE IF r.route \in ScopedResources /\ "runtime:read" \notin g.scopes THEN 403
    ELSE IF r.route = "autoscaling" /\ r.bad = "view" THEN 400
    ELSE IF r.route \in {"capability"} \cup CoreResources \cup ConfigResources \cup AnalysisResources
                        \cup ScopedResources THEN 0
    ELSE 404

\* The selector of the session may name no valid context.
SelectorRefused(c) ==
    /\ call[c].phase = "granted"
    /\ ~(call[c].grant.mcp /\ ~McpReads(call[c].request))
    /\ Answer(c, 403)
    /\ UNCHANGED <<clock, revokedAt, cache, order, discovered, asks>>

Dispatch(c) ==
    /\ call[c].phase = "granted"
    /\ LET status == Routed(call[c].request, call[c].grant)
       IN  IF status = 0 THEN call' = [call EXCEPT ![c].phase = "loading"] ELSE Answer(c, status)
    /\ UNCHANGED <<clock, revokedAt, cache, order, discovered, asks>>

\* The provider's answer, or what its failure becomes.  The capability provider is
\* awaited outside the try: if it rejects, so does the dispatch, and there is no status
\* (loadLocalRuntimeCapability, the one the agent is built with, never does).
FailureStatuses(r) == CASE r.route = "capability" -> {0}
                        [] r.route = "timeline/events" -> {404, 502}
                        [] r.route = "timeline/stats" -> {501, 502}
                        [] r.route = "objects/inspect" -> {400, 502}
                        [] OTHER -> {502}

ProviderSettles(c) ==
    /\ call[c].phase = "loading"
    /\ \E status \in {200} \cup FailureStatuses(call[c].request) : Answer(c, status)
    /\ UNCHANGED <<clock, revokedAt, cache, order, discovered, asks>>

Next ==
    \/ Tick
    \/ \E t \in Tokens : Revoke(t)
    \/ \E c \in Calls : Receive(c) \/ SelectorRefused(c) \/ Dispatch(c) \/ ProviderSettles(c)
    \/ \E a \in asks : Decide(a) \/ Succeed(a) \/ AskAsMcp(a) \/ Fail(a)

Spec == Init /\ [][Next]_vars

-----------------------------------------------------------------------------
\* Types; the two caches hold each token once, and never more than their bound.
TypeOK ==
    /\ clock \in 0..MaxClock
    /\ revokedAt \in [Tokens -> 0..Never]
    /\ DOMAIN cache \subseteq Tokens /\ \A t \in DOMAIN cache : cache[t] \in Entries
    /\ Orders(order, DOMAIN cache)
    /\ \A t \in DOMAIN cache : Cardinality({u \in DOMAIN cache : SameCache(t, u)}) =< MaxEntries
    /\ discovered \subseteq Tokens
    /\ asks \subseteq [token : Tokens, kind : {"runtime", "mcp", "discovery"}, by : Calls,
                       at : 0..MaxClock, verdict : {"open", "yes", "no"}]
    /\ call \in [Calls -> [phase : {"idle", "waiting", "granted", "loading", "answered"},
                           request : RequestSet, at : 0..MaxClock, grant : Grants, status : Statuses]]

\* When a token was last good: until then an introspection may have said so.
LastGood(t) == Least(revokedAt[t], Until[t])

\* A request that comes in later than the cache time and one control-plane request
\* after its token was revoked or expired is not let through, whatever was cached,
\* shared or in flight meanwhile (authorizeRuntime, server.js:276-326).  It is the bound
\* the code keeps; the documentation promises more, see RevocationCloses.
GrantsAreFresh ==
    \A c \in Calls : call[c].phase \in {"granted", "loading"}
                     /\ call[c].request.route # "discovery/scan" =>
        call[c].at < LastGood(call[c].request.token) + Timeout + TTL

\* What reaches a provider was let through for it: a token the control plane knows as
\* an MCP token, prefixed or not, only reads resources of the catalog, and alerting is
\* reached by managers only ("Resource is not in the MCP read-only allowlist", :472).
OnlyAllowedReached ==
    \A c \in Calls : call[c].phase = "loading" =>
        LET r == call[c].request
        IN  /\ r.token \in McpTokens \cup LegacyTokens =>
                   r.method = "GET" /\ r.route \in CatalogPaths \cup {"capability"}
            /\ IsAlerting(r.route) => "runtime:manage" \in Scopes[r.token]
            /\ r.route = "discovery/scan" => r.token \in DiscoveryTokens
            /\ r.route # "discovery/scan" => r.token \notin DiscoveryTokens

\* Every request of one token that needs an introspection waits for the same one, and
\* none is left waiting when it ends (pendingIntrospection, :289-325).
Introspections == INSTANCE SharedLoad WITH
    Readers <- Calls, Keys <- Tokens,
    loads <- {a.token : a \in {b \in asks : b.kind # "discovery"}},
    waiting <- {<<c, call[c].request.token>> : c \in {d \in Calls :
                  call[d].phase = "waiting" /\ call[d].request.route # "discovery/scan"}}

SharesLoads == Introspections!Spec

\* A request that comes in after its MCP token was revoked is not let through: "Revoking
\* that token immediately closes hosted and local agent introspection access"
\* (docs/mcp.md:28).
RevocationCloses ==
    \A c \in Calls : LET r == call[c].request IN
        (/\ call[c].phase \in {"granted", "loading"}
         /\ r.route # "discovery/scan"
         /\ r.token \in McpTokens \cup LegacyTokens) => call[c].at =< revokedAt[r.token]
=============================================================================
