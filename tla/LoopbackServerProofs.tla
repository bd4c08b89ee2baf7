------------------------ MODULE LoopbackServerProofs ------------------------
(***************************************************************************)
(* Proofs about LoopbackServer for any tokens, scopes, expiries, requests, *)
(* calls and times.                                                        *)
(***************************************************************************)
EXTENDS LoopbackServer, DataProofs, TLAPS

(* The types of the fields, by name. *)
Phases == {"idle", "waiting", "granted", "loading", "answered"}
GrantType == Grants
RequestType == RequestSet
CallType == [phase : Phases, request : RequestType, at : Nat, grant : GrantType, status : Statuses]
Kinds == {"runtime", "mcp", "discovery"}
Verdicts == {"open", "yes", "no"}
AskType == [token : Tokens, kind : Kinds, by : Calls, at : Nat, verdict : Verdicts]

\* The parts of the type invariant that the proofs rest on; order is left out.
Typed ==
    /\ clock \in Nat
    /\ revokedAt \in [Tokens -> Nat]
    /\ \A t \in DOMAIN cache : t \in Tokens /\ cache[t].expiresAt \in Int /\ cache[t].grant \in GrantType
    /\ asks \subseteq AskType
    /\ call \in [Calls -> CallType]

Assumptions == TokenAssumption /\ TimeAssumption /\ RequestAssumption

LEMMA Members ==
    /\ {"idle", "waiting", "granted", "loading", "answered"} \subseteq Phases
    /\ {"runtime", "mcp", "discovery"} \subseteq Kinds
    /\ {"open", "yes", "no"} \subseteq Verdicts
    /\ NoGrant \in GrantType
    /\ IdleRequest \in RequestType
    /\ {0, 200, 204, 400, 401, 403, 404, 501, 502} \subseteq Statuses
  BY DEF Phases, Kinds, Verdicts, GrantType, Grants, NoGrant, IdleRequest, RequestType, RequestSet, Routes, Statuses

LEMMA AnsweredTyped == ASSUME NEW status \in Statuses
                       PROVE  Answered(status) \in CallType /\ Answered(status).phase = "answered"
  BY Members DEF Answered, CallType

LEMMA RequestFields ==
    ASSUME Assumptions, NEW c \in Calls, NEW r \in Requests[c], Screened(r) = 0
    PROVE  r \in RequestType /\ r.token \in Tokens
  BY DEF Assumptions, RequestAssumption, RequestType, RequestSet, Screened

LEMMA ScreenedStatus == ASSUME NEW r PROVE Screened(r) \in Statuses
  BY DEF Screened, Statuses

LEMMA RoutedStatus == ASSUME NEW r, NEW g PROVE Routed(r, g) \in Statuses
  BY DEF Routed, Statuses

\* What an introspection's end does to the calls.
LEMMA ReleaseStep ==
    ASSUME Typed, NEW a \in asks, NEW phase \in Phases, NEW grant \in GrantType, Release(a, phase, grant)
    PROVE  /\ call' \in [Calls -> CallType]
           /\ \A c \in Calls : IF c \in Waiters(a)
                 THEN /\ call'[c].phase = phase /\ call'[c].grant = grant
                      /\ call'[c].request = call[c].request /\ call'[c].at = call[c].at
                 ELSE call'[c] = call[c]
<1>1. \A c \in Calls : [call[c] EXCEPT !.phase = phase, !.grant = grant] \in CallType
  BY DEF Typed, CallType
<1>2. call' \in [Calls -> CallType]
  BY <1>1 DEF Release, Typed
<1>3. ASSUME NEW c \in Calls, c \in Waiters(a)
      PROVE  /\ call'[c].phase = phase /\ call'[c].grant = grant
             /\ call'[c].request = call[c].request /\ call'[c].at = call[c].at
  <2>1. call'[c] = [call[c] EXCEPT !.phase = phase, !.grant = grant] /\ call[c] \in CallType
    BY <1>3 DEF Release, Typed
  <2> QED
    BY <2>1 DEF CallType
<1>4. ASSUME NEW c \in Calls, c \notin Waiters(a) PROVE call'[c] = call[c]
  BY <1>4 DEF Release
<1> QED
  BY <1>2, <1>3, <1>4

LEMMA RejectStep ==
    ASSUME Typed, NEW a \in asks, Reject(a)
    PROVE  /\ call' \in [Calls -> CallType]
           /\ \A c \in Calls : IF c \in Waiters(a) THEN call'[c].phase = "answered" ELSE call'[c] = call[c]
<1>1. Answered(401) \in CallType /\ Answered(401).phase = "answered"
  BY AnsweredTyped, Members
<1> QED
  BY <1>1 DEF Reject, Typed

LEMMA AnswerStep ==
    ASSUME Typed, NEW c \in Calls, NEW status \in Statuses, Answer(c, status)
    PROVE  /\ call' \in [Calls -> CallType]
           /\ call'[c].phase = "answered" /\ \A d \in Calls \ {c} : call'[d] = call[d]
  BY AnsweredTyped DEF Answer, Typed

LEMMA EnterStep ==
    ASSUME Typed, NEW c \in Calls, NEW r \in RequestType, NEW phase \in Phases, NEW grant \in GrantType,
           Enter(c, r, phase, grant)
    PROVE  /\ call' \in [Calls -> CallType] /\ \A d \in Calls \ {c} : call'[d] = call[d]
           /\ call'[c].phase = phase /\ call'[c].request = r /\ call'[c].at = clock /\ call'[c].grant = grant
<1> DEFINE new == [phase |-> phase, request |-> r, at |-> clock, grant |-> grant, status |-> 0]
<1>1. new \in CallType
  BY Members DEF CallType, Typed
<1>2. call' = [call EXCEPT ![c] = new]
  BY DEF Enter
<1>3. new.phase = phase /\ new.request = r /\ new.at = clock /\ new.grant = grant
  OBVIOUS
<1> HIDE DEF new
<1> QED
  BY <1>1, <1>2, <1>3 DEF Typed

\* An introspection that a call starts.
LEMMA AskTyped ==
    ASSUME Typed, NEW c \in Calls, NEW r \in RequestType, r.token \in Tokens, NEW kind \in Kinds
    PROVE  /\ AskOf(c, r, kind) \in AskType
           /\ AskOf(c, r, kind).token = r.token /\ AskOf(c, r, kind).kind = kind /\ AskOf(c, r, kind).by = c
           /\ AskOf(c, r, kind).at = clock /\ AskOf(c, r, kind).verdict = "open"
  BY Members DEF AskOf, AskType, Typed

LEMMA AskFields ==
    ASSUME NEW a \in AskType
    PROVE  a.token \in Tokens /\ a.kind \in Kinds /\ a.by \in Calls /\ a.at \in Nat /\ a.verdict \in Verdicts
  BY DEF AskType

\* The three ways into the server: answered at once, granted by what is kept, or waiting.
LEMMA ReceiveCases ==
    ASSUME Typed, Assumptions, NEW c \in Calls, Receive(c)
    PROVE  \E r \in Requests[c] :
             /\ call[c].phase \in {"idle", "answered"}
             /\ UNCHANGED <<clock, revokedAt, cache, order, discovered>>
             /\ \/ UNCHANGED asks /\ Answer(c, Screened(r))
                \/ /\ r \in RequestType /\ r.token \in Tokens
                   /\ r.route = "discovery/scan" /\ AuthorizeDiscovery(c, r)
                \/ /\ r \in RequestType /\ r.token \in Tokens
                   /\ r.route # "discovery/scan" /\ Authorize(c, r)
  BY RequestFields DEF Receive

\* What is kept of an introspection, and what a successful one grants.
Granted(a) == [mcp |-> a.kind = "mcp", scopes |-> Scopes[a.token]]

LEMMA GrantedTyped ==
    ASSUME Assumptions, NEW a, a.token \in Tokens
    PROVE  Granted(a) \in GrantType /\ Granted(a).mcp = (a.kind = "mcp") /\ Granted(a).scopes = Scopes[a.token]
  BY DEF Granted, GrantType, Grants, Assumptions, TokenAssumption

LEMMA StoreStep ==
    ASSUME Typed, Assumptions, NEW t \in Tokens, NEW grant \in GrantType, Store(t, grant)
    PROVE  \A u \in DOMAIN cache' :
             /\ u \in Tokens /\ cache'[u].expiresAt \in Int /\ cache'[u].grant \in GrantType
             /\ \/ u = t /\ cache'[u].grant = grant /\ cache'[u].expiresAt = Expiry(t)
                \/ u # t /\ u \in DOMAIN cache /\ cache'[u] = cache[u]
<1> DEFINE D == Kept(t) \cup {t}
<1>1. cache' = [u \in D |-> IF u = t THEN [grant |-> grant, expiresAt |-> Expiry(t)] ELSE cache[u]]
  BY DEF Store
<1>2. Expiry(t) \in Int
  BY DEF Expiry, Typed, Assumptions, TimeAssumption, TokenAssumption, Least
<1>3. \A u \in D : u = t \/ u \in DOMAIN cache
  BY DEF Kept, Unexpired
<1> HIDE DEF D
<1> QED
  BY <1>1, <1>2, <1>3 DEF Typed

\* The two ends of a successful introspection.
LEMMA SucceedCases ==
    ASSUME Typed, NEW a \in asks, Succeed(a)
    PROVE  /\ asks' = asks \ {a} /\ a.verdict = "yes" /\ UNCHANGED <<clock, revokedAt>>
           /\ \/ /\ a.kind = "discovery" /\ Release(a, "loading", NoGrant)
                 /\ discovered' = discovered \cup {a.token} /\ UNCHANGED cache
              \/ /\ a.kind # "discovery" /\ Release(a, "granted", Granted(a))
                 /\ Store(a.token, Granted(a)) /\ UNCHANGED discovered
  BY DEF Succeed, Granted

LEMMA TypedInit == ASSUME Init, Assumptions PROVE Typed
<1>1. call \in [Calls -> CallType]
  BY Members DEF Init, CallType
<1> QED
  BY <1>1 DEF Init, Typed, Assumptions, TimeAssumption, Never

LEMMA TypedStep == ASSUME Typed, Assumptions, [Next]_vars PROVE Typed'
<1>1. CASE Tick
  BY <1>1 DEF Tick, Typed
<1>2. ASSUME NEW t \in Tokens, Revoke(t) PROVE Typed'
  BY <1>2 DEF Revoke, Typed
<1>3. ASSUME NEW c \in Calls, Receive(c) PROVE Typed'
  <2>1. PICK r \in Requests[c] :
             /\ UNCHANGED <<clock, revokedAt, cache, order, discovered>>
             /\ \/ UNCHANGED asks /\ Answer(c, Screened(r))
                \/ r \in RequestType /\ r.token \in Tokens /\ AuthorizeDiscovery(c, r)
                \/ r \in RequestType /\ r.token \in Tokens /\ Authorize(c, r)
    BY <1>3, ReceiveCases
  <2>2. CASE UNCHANGED asks /\ Answer(c, Screened(r))
    BY <2>1, <2>2, AnswerStep, ScreenedStatus DEF Typed
  <2>3. CASE r \in RequestType /\ r.token \in Tokens /\ AuthorizeDiscovery(c, r)
    <3>1. call' \in [Calls -> CallType]
      BY <2>3, Members, EnterStep DEF AuthorizeDiscovery
    <3>2. asks' \subseteq AskType
      BY <2>3, Members, AskTyped DEF AuthorizeDiscovery, Typed
    <3> QED
      BY <2>1, <3>1, <3>2 DEF Typed
  <2>4. CASE r \in RequestType /\ r.token \in Tokens /\ Authorize(c, r)
    <3>1. Usable(r.token) => cache[r.token].grant \in GrantType
      BY DEF Typed, Usable
    <3>2. call' \in [Calls -> CallType]
      BY <2>4, <3>1, Members, EnterStep DEF Authorize
    <3>3. FirstKind(r.token) \in Kinds
      BY Members DEF FirstKind
    <3>4. asks' \subseteq AskType
      BY <2>4, <3>3, AskTyped DEF Authorize, Typed
    <3> QED
      BY <2>1, <3>2, <3>4 DEF Typed
  <2> QED
    BY <2>1, <2>2, <2>3, <2>4
<1>4. ASSUME NEW a \in asks, Decide(a) PROVE Typed'
  <2>1. a \in AskType
    BY DEF Typed
  <2>2. [a EXCEPT !.verdict = "yes"] \in AskType /\ [a EXCEPT !.verdict = "no"] \in AskType
    BY <2>1, Members DEF AskType
  <2>3. asks' \subseteq AskType
    BY <1>4, <2>2 DEF Decide, Typed
  <2> QED
    BY <1>4, <2>3 DEF Decide, Typed
<1>5. ASSUME NEW a \in asks, Succeed(a) PROVE Typed'
  <2>1. a \in AskType /\ a.token \in Tokens
    BY AskFields DEF Typed
  <2>2. asks' \subseteq AskType /\ UNCHANGED <<clock, revokedAt>>
    BY <1>5, SucceedCases DEF Typed
  <2>3. CASE Release(a, "loading", NoGrant) /\ UNCHANGED cache
    BY <2>2, <2>3, ReleaseStep, Members DEF Typed
  <2>4. CASE Release(a, "granted", Granted(a)) /\ Store(a.token, Granted(a))
    BY <2>1, <2>2, <2>4, ReleaseStep, StoreStep, GrantedTyped, Members DEF Typed
  <2> QED
    BY <1>5, <2>3, <2>4, SucceedCases
<1>6. ASSUME NEW a \in asks, AskAsMcp(a) PROVE Typed'
  <2>1. a \in AskType
    BY DEF Typed
  <2>0. "mcp" \in Kinds /\ clock \in Nat /\ "open" \in Verdicts
    BY Members DEF Typed
  <2>2. [a EXCEPT !.kind = "mcp", !.at = clock, !.verdict = "open"] \in AskType
    BY <2>0, <2>1 DEF AskType
  <2> QED
    BY <1>6, <2>2 DEF AskAsMcp, Typed
<1>7. ASSUME NEW a \in asks, Fail(a) PROVE Typed'
  BY <1>7, RejectStep DEF Fail, Typed
<1>8. ASSUME NEW c \in Calls, SelectorRefused(c) PROVE Typed'
  BY <1>8, AnswerStep, Members DEF SelectorRefused, Typed
<1>9. ASSUME NEW c \in Calls, Dispatch(c) PROVE Typed'
  <2>1. CASE call' = [call EXCEPT ![c].phase = "loading"]
    <3>1. [call[c] EXCEPT !.phase = "loading"] \in CallType
      BY Members DEF Typed, CallType
    <3> QED
      BY <1>9, <2>1, <3>1 DEF Dispatch, Typed
  <2>2. CASE Answer(c, Routed(call[c].request, call[c].grant))
    BY <1>9, <2>2, AnswerStep, RoutedStatus DEF Dispatch, Typed
  <2> QED
    BY <1>9, <2>1, <2>2 DEF Dispatch
<1>10. ASSUME NEW c \in Calls, ProviderSettles(c) PROVE Typed'
  <2>1. \E status \in Statuses : Answer(c, status)
    BY <1>10, Members DEF ProviderSettles, FailureStatuses
  <2> QED
    BY <1>10, <2>1, AnswerStep DEF ProviderSettles, Typed
<1>11. CASE UNCHANGED vars
  BY <1>11 DEF vars, Typed
<1> QED
  BY <1>1, <1>2, <1>3, <1>4, <1>5, <1>6, <1>7, <1>8, <1>9, <1>10, <1>11 DEF Next

-----------------------------------------------------------------------------
(* What lets a request through speaks for its token. *)

\* What the control plane says of a token that is no discovery token.
GrantOf(t, g) ==
    /\ t \in RuntimeTokens \cup McpTokens \cup LegacyTokens
    /\ t \in McpTokens \cup LegacyTokens => g.mcp
    /\ g.scopes = Scopes[t]

\* "yes" was said of a token of the kind that was asked about.
AsksTrue == \A a \in asks : a.verdict = "yes" => a.token \in KnownAs(a.kind)

CacheTrue == \A t \in DOMAIN cache : GrantOf(t, cache[t].grant)

\* A discovery introspection belongs to the one call that waits for it.
ScansWait ==
    /\ \A a \in asks : a.kind = "discovery" =>
          /\ call[a.by].phase = "waiting" /\ call[a.by].request.route = "discovery/scan"
          /\ call[a.by].request.token = a.token
    /\ \A a, b \in asks : a.kind = "discovery" /\ b.kind = "discovery" /\ a.by = b.by => a = b

GrantedTrue ==
    \A c \in Calls : call[c].phase = "granted" =>
        call[c].request.route # "discovery/scan" /\ GrantOf(call[c].request.token, call[c].grant)

Allowed(r) ==
    /\ r.token \in McpTokens \cup LegacyTokens => r.method = "GET" /\ r.route \in CatalogPaths \cup {"capability"}
    /\ IsAlerting(r.route) => "runtime:manage" \in Scopes[r.token]
    /\ r.route = "discovery/scan" => r.token \in DiscoveryTokens
    /\ r.route # "discovery/scan" => r.token \notin DiscoveryTokens

LoadingAllowed == \A c \in Calls : call[c].phase = "loading" => Allowed(call[c].request)

Spoken ==
    /\ AsksTrue /\ CacheTrue /\ discovered \subseteq DiscoveryTokens
    /\ ScansWait /\ GrantedTrue /\ LoadingAllowed

LEMMA SpokenInit == ASSUME Init PROVE Spoken
  BY DEF Init, Spoken, AsksTrue, CacheTrue, ScansWait, GrantedTrue, LoadingAllowed

\* The dispatcher asks a provider only for what the grant allows.
LEMMA RoutedAllowed ==
    ASSUME Assumptions, NEW r, NEW g, Routed(r, g) = 0, GrantOf(r.token, g), r.route # "discovery/scan"
    PROVE  Allowed(r)
<1>1. r.token \notin DiscoveryTokens
  BY DEF GrantOf, Assumptions, TokenAssumption
<1>2. IsAlerting(r.route) => "runtime:manage" \in Scopes[r.token]
  BY DEF Routed, Manages, GrantOf
<1>3. ASSUME g.mcp PROVE r.method = "GET" /\ r.route \in CatalogPaths \cup {"capability"}
  <2>1. McpReads(r)
    BY <1>3 DEF Routed
  <2>2. ASSUME r.route \in {"health", "mcp"}, r.method = "GET" PROVE FALSE
    <3>1. <<r.route, r.method>> \notin AlertingRoutes
      BY <2>2 DEF AlertingRoutes
    <3> QED
      BY <2>2, <3>1 DEF Routed
  <2> QED
    BY <2>1, <2>2 DEF McpReads
<1> QED
  BY <1>1, <1>2, <1>3 DEF Allowed, GrantOf

LEMMA ScanAllowed ==
    ASSUME Assumptions, NEW r, r.route = "discovery/scan", r.token \in DiscoveryTokens PROVE Allowed(r)
  BY DEF Allowed, IsAlerting, AlertingRoutes, Assumptions, TokenAssumption

\* A request changes nothing for the other calls, whose introspections stay theirs.
LEMMA ReceiveSpoken ==
    ASSUME Typed, Assumptions, Spoken, NEW c \in Calls, Receive(c) PROVE Spoken'
<1>1. PICK r \in Requests[c] :
             /\ call[c].phase \in {"idle", "answered"}
             /\ UNCHANGED <<clock, revokedAt, cache, order, discovered>>
             /\ \/ UNCHANGED asks /\ Answer(c, Screened(r))
                \/ /\ r \in RequestType /\ r.token \in Tokens
                   /\ r.route = "discovery/scan" /\ AuthorizeDiscovery(c, r)
                \/ /\ r \in RequestType /\ r.token \in Tokens
                   /\ r.route # "discovery/scan" /\ Authorize(c, r)
  BY ReceiveCases
<1>2. \A a \in asks : a.kind = "discovery" => a.by # c
  BY <1>1 DEF Spoken, ScansWait
<1>3. \A a \in asks : a \in AskType /\ a.by \in Calls
  BY AskFields DEF Typed
<1> USE DEF Spoken, AsksTrue, CacheTrue, ScansWait, GrantedTrue, LoadingAllowed
<1>4. CASE UNCHANGED asks /\ Answer(c, Screened(r))
  BY <1>1, <1>2, <1>3, <1>4, AnswerStep, ScreenedStatus
<1>5. CASE r \in RequestType /\ r.token \in Tokens /\ r.route = "discovery/scan" /\ AuthorizeDiscovery(c, r)
  <2>1. CASE r.token \in discovered /\ Enter(c, r, "loading", NoGrant) /\ UNCHANGED asks
    <3>1. Allowed(r)
      BY <1>5, <2>1, ScanAllowed
    <3> QED
      BY <1>1, <1>2, <1>3, <1>5, <2>1, <3>1, EnterStep, Members
  <2>2. CASE Enter(c, r, "waiting", NoGrant) /\ asks' = asks \cup {AskOf(c, r, "discovery")}
    <3>1. /\ AskOf(c, r, "discovery").by = c /\ AskOf(c, r, "discovery").token = r.token
          /\ AskOf(c, r, "discovery").verdict = "open"
      BY <1>5, AskTyped, Members
    <3> HIDE DEF Allowed
    <3> QED
      BY <1>1, <1>2, <1>3, <1>5, <2>2, <3>1, EnterStep, Members
  <2> QED
    BY <1>5, <2>1, <2>2 DEF AuthorizeDiscovery
<1>6. CASE r \in RequestType /\ r.token \in Tokens /\ r.route # "discovery/scan" /\ Authorize(c, r)
  <2>1. CASE Usable(r.token) /\ Enter(c, r, "granted", cache[r.token].grant) /\ UNCHANGED asks
    <3>1. GrantOf(r.token, cache[r.token].grant) /\ cache[r.token].grant \in GrantType
      BY <2>1 DEF Usable, Typed
    <3> QED
      BY <1>1, <1>2, <1>3, <1>6, <2>1, <3>1, EnterStep, Members
  <2>2. CASE Enter(c, r, "waiting", NoGrant) /\ (UNCHANGED asks \/ asks' = asks \cup {AskOf(c, r, FirstKind(r.token))})
    <3>1. /\ AskOf(c, r, FirstKind(r.token)).kind # "discovery"
          /\ AskOf(c, r, FirstKind(r.token)).verdict = "open"
      BY <1>6, AskTyped, Members DEF FirstKind
    <3> QED
      BY <1>1, <1>2, <1>3, <1>6, <2>2, <3>1, EnterStep, Members
  <2> QED
    BY <1>6, <2>1, <2>2 DEF Authorize
<1> QED
  BY <1>1, <1>4, <1>5, <1>6

\* A successful introspection lets through those who waited for its token, and only them.
LEMMA SucceedSpoken ==
    ASSUME Typed, Assumptions, Spoken, NEW a \in asks, Succeed(a) PROVE Spoken'
<1>1. /\ a.token \in Tokens /\ a.by \in Calls /\ a.token \in KnownAs(a.kind)
      /\ asks' = asks \ {a} /\ \A b \in asks : b.by \in Calls
  BY SucceedCases, AskFields DEF Typed, Spoken, AsksTrue
<1>2. AsksTrue'
  BY <1>1 DEF Spoken, AsksTrue, KnownAs
<1>3. CASE /\ a.kind = "discovery" /\ Release(a, "loading", NoGrant)
           /\ discovered' = discovered \cup {a.token} /\ UNCHANGED cache
  <2>1. a.token \in DiscoveryTokens
    BY <1>1, <1>3 DEF KnownAs
  <2>2. Waiters(a) = {a.by} /\ Allowed(call[a.by].request)
    BY <1>1, <1>3, <2>1, ScanAllowed DEF Waiters, Spoken, ScansWait
  <2>3. /\ call'[a.by].phase = "loading" /\ call'[a.by].request = call[a.by].request
        /\ \A c \in Calls : c # a.by => call'[c] = call[c]
    BY <1>1, <1>3, <2>2, ReleaseStep, Members
  <2>4. GrantedTrue' /\ LoadingAllowed' /\ CacheTrue' /\ discovered' \subseteq DiscoveryTokens
    BY <1>3, <2>1, <2>2, <2>3 DEF Spoken, GrantedTrue, LoadingAllowed, CacheTrue
  <2>5. \A b \in asks' : b.kind = "discovery" => b.by # a.by
    BY <1>1, <1>3 DEF Spoken, ScansWait
  <2>6. ScansWait'
    BY <1>1, <2>3, <2>5 DEF Spoken, ScansWait
  <2> QED
    BY <1>2, <2>4, <2>6 DEF Spoken
<1>4. CASE /\ a.kind # "discovery" /\ Release(a, "granted", Granted(a))
           /\ Store(a.token, Granted(a)) /\ UNCHANGED discovered
  <2>1. GrantOf(a.token, Granted(a)) /\ Granted(a) \in GrantType
    <3>1. Granted(a) \in GrantType /\ Granted(a).mcp = (a.kind = "mcp") /\ Granted(a).scopes = Scopes[a.token]
      BY <1>1, GrantedTyped
    <3>2. a.kind \in {"runtime", "mcp"}
      BY <1>4, AskFields DEF Typed, Kinds
    <3>3. /\ a.token \in RuntimeTokens \cup McpTokens \cup LegacyTokens
          /\ a.token \in McpTokens \cup LegacyTokens => a.kind = "mcp"
      BY <1>1, <3>2 DEF KnownAs, Assumptions, TokenAssumption
    <3> QED
      BY <3>1, <3>3 DEF GrantOf
  <2>2. CacheTrue'
    BY <1>1, <1>4, <2>1, StoreStep DEF Spoken, CacheTrue
  <2>3. \A c \in Calls : IF c \in Waiters(a)
           THEN call'[c].phase = "granted" /\ call'[c].grant = Granted(a) /\ call'[c].request = call[c].request
           ELSE call'[c] = call[c]
    BY <1>4, <2>1, ReleaseStep, Members
  <2>4. \A c \in Waiters(a) : call[c].request.token = a.token /\ call[c].request.route # "discovery/scan"
    BY <1>4 DEF Waiters
  <2>5. GrantedTrue' /\ LoadingAllowed'
    BY <2>1, <2>3, <2>4 DEF Spoken, GrantedTrue, LoadingAllowed
  <2>6. ScansWait'
    BY <1>1, <2>3, <2>4 DEF Spoken, ScansWait
  <2> QED
    BY <1>2, <1>4, <2>2, <2>5, <2>6 DEF Spoken
<1> QED
  BY <1>3, <1>4, SucceedCases

\* A failed introspection refuses those who waited for it.
LEMMA FailSpoken ==
    ASSUME Typed, Assumptions, Spoken, NEW a \in asks, Fail(a) PROVE Spoken'
<1>1. /\ asks' = asks \ {a} /\ UNCHANGED <<cache, discovered>>
      /\ \A c \in Calls : IF c \in Waiters(a) THEN call'[c].phase = "answered" ELSE call'[c] = call[c]
  BY RejectStep DEF Fail
<1>2. \A b \in asks : b.by \in Calls
  BY AskFields DEF Typed
<1>3. ASSUME NEW b \in asks', b.kind = "discovery" PROVE b.by \notin Waiters(a)
  BY <1>1, <1>2, <1>3 DEF Waiters, Spoken, ScansWait
<1>4. ScansWait'
  BY <1>1, <1>2, <1>3 DEF Spoken, ScansWait
<1> QED
  BY <1>1, <1>4 DEF Spoken, AsksTrue, KnownAs, CacheTrue, GrantedTrue, LoadingAllowed

\* The control plane's verdict on an introspection, or the second question.
LEMMA VerdictSpoken ==
    ASSUME Typed, Assumptions, Spoken, NEW a \in asks, Decide(a) \/ AskAsMcp(a) PROVE Spoken'
<1>1. a \in AskType /\ UNCHANGED <<cache, discovered, call>>
  BY DEF Typed, Decide, AskAsMcp
<1>2. CASE Decide(a)
  <2>1. PICK v \in Verdicts : /\ asks' = (asks \ {a}) \cup {[a EXCEPT !.verdict = v]}
                              /\ v = "yes" => a.token \in KnownAs(a.kind)
    BY <1>2, Members DEF Decide
  <2> DEFINE b == [a EXCEPT !.verdict = v]
  <2>2. b.token = a.token /\ b.kind = a.kind /\ b.by = a.by /\ b.verdict = v
    BY <1>1 DEF AskType
  <2>3. asks' = (asks \ {a}) \cup {b}
    BY <2>1
  <2> HIDE DEF b
  <2>4. AsksTrue'
    BY <2>1, <2>2, <2>3 DEF Spoken, AsksTrue, KnownAs
  <2>5. ScansWait'
    BY <1>1, <2>2, <2>3 DEF Spoken, ScansWait
  <2> QED
    BY <1>1, <2>4, <2>5 DEF Spoken, CacheTrue, GrantedTrue, LoadingAllowed
<1>3. CASE AskAsMcp(a)
  <2> DEFINE b == [a EXCEPT !.kind = "mcp", !.at = clock, !.verdict = "open"]
  <2>1. "mcp" \in Kinds /\ clock \in Nat /\ "open" \in Verdicts
    BY Members DEF Typed
  <2>2. b.kind = "mcp" /\ b.verdict = "open"
    BY <1>1, <2>1 DEF AskType
  <2>3. asks' = (asks \ {a}) \cup {b}
    BY <1>3 DEF AskAsMcp
  <2> HIDE DEF b
  <2> QED
    BY <1>1, <2>2, <2>3 DEF Spoken, AsksTrue, KnownAs, ScansWait, CacheTrue, GrantedTrue, LoadingAllowed
<1> QED
  BY <1>2, <1>3

\* What a call does once it was let through.
LEMMA DispatchSpoken ==
    ASSUME Typed, Assumptions, Spoken, NEW c \in Calls, SelectorRefused(c) \/ Dispatch(c) \/ ProviderSettles(c)
    PROVE  Spoken'
<1>1. UNCHANGED <<asks, cache, discovered>> /\ call[c].phase \in {"granted", "loading"}
  BY DEF SelectorRefused, Dispatch, ProviderSettles
<1>2. \A a \in asks : a.by \in Calls /\ (a.kind = "discovery" => a.by # c)
  BY <1>1, AskFields DEF Typed, Spoken, ScansWait
<1>3. ASSUME /\ \A d \in Calls \ {c} : call'[d] = call[d]
             /\ call'[c].phase = "answered"
                \/ (call'[c].phase = "loading" /\ Allowed(call'[c].request))
      PROVE  Spoken'
  <2>1. ScansWait'
    BY <1>1, <1>2, <1>3 DEF Spoken, ScansWait
  <2>2. GrantedTrue' /\ LoadingAllowed'
    BY <1>3 DEF Spoken, GrantedTrue, LoadingAllowed
  <2> QED
    BY <1>1, <2>1, <2>2 DEF Spoken, AsksTrue, KnownAs, CacheTrue
<1>4. ASSUME NEW status \in Statuses, Answer(c, status) PROVE Spoken'
  BY <1>3, <1>4, AnswerStep
<1>5. CASE SelectorRefused(c) \/ ProviderSettles(c)
  <2>1. \E status \in Statuses : Answer(c, status)
    BY <1>5, Members DEF SelectorRefused, ProviderSettles, FailureStatuses
  <2> QED
    BY <1>4, <2>1
<1>6. CASE Dispatch(c)
  <2>1. CASE /\ call' = [call EXCEPT ![c].phase = "loading"]
             /\ Routed(call[c].request, call[c].grant) = 0 /\ call[c].phase = "granted"
    <3>1. Allowed(call[c].request)
      BY <2>1, RoutedAllowed DEF Spoken, GrantedTrue
    <3>2. call'[c].phase = "loading" /\ call'[c].request = call[c].request
      BY <2>1 DEF Typed, CallType
    <3> QED
      BY <1>3, <2>1, <3>1, <3>2
  <2>2. CASE Answer(c, Routed(call[c].request, call[c].grant))
    BY <1>4, <2>2, RoutedStatus
  <2> QED
    BY <1>6, <2>1, <2>2 DEF Dispatch
<1> QED
  BY <1>5, <1>6

LEMMA SpokenStep == ASSUME Typed, Assumptions, Spoken, [Next]_vars PROVE Spoken'
<1> USE DEF Spoken, AsksTrue, KnownAs, CacheTrue, ScansWait, GrantedTrue, LoadingAllowed
<1>1. CASE Tick
  BY <1>1 DEF Tick
<1>2. ASSUME NEW t \in Tokens, Revoke(t) PROVE Spoken'
  BY <1>2 DEF Revoke
<1>3. CASE UNCHANGED vars
  BY <1>3 DEF vars
<1> HIDE DEF Spoken
<1> QED
  BY <1>1, <1>2, <1>3, ReceiveSpoken, SucceedSpoken, FailSpoken, VerdictSpoken, DispatchSpoken DEF Next

\* For any tokens, scopes and requests: a request that reaches a provider was let
\* through for it (dispatchRequest, server.js:456-1120).
THEOREM OnlyAllowedCorrect == ASSUME Assumptions PROVE Spec => []OnlyAllowedReached
<1>1. Spoken => OnlyAllowedReached
  BY DEF Spoken, LoadingAllowed, Allowed, OnlyAllowedReached
<1> QED
  BY <1>1, TypedInit, TypedStep, SpokenInit, SpokenStep, PTL DEF Spec

-----------------------------------------------------------------------------
(* How old what lets a request through may be. *)

\* An introspection in flight is no older than its deadline; one that was granted was
\* begun while the token was good.
AskTimes ==
    \A a \in asks :
        /\ a.at =< clock /\ clock =< a.at + Timeout
        /\ a.verdict = "yes" /\ a.kind # "discovery" => a.at =< LastGood(a.token)

\* An entry is kept for TTL from the end of an introspection.
CacheTimes ==
    \A t \in DOMAIN cache :
        cache[t].expiresAt =< clock + TTL /\ cache[t].expiresAt =< LastGood(t) + Timeout + TTL

\* A call under way came in before now, with a token.
CallTimes ==
    \A c \in Calls : call[c].phase \in {"waiting", "granted", "loading"} =>
        call[c].at =< clock /\ call[c].request.token \in Tokens

Times == clock =< MaxClock /\ \A t \in Tokens : revokedAt[t] = Never \/ revokedAt[t] =< clock

Timely == Times /\ AskTimes /\ CacheTimes /\ CallTimes /\ GrantsAreFresh

LEMMA TimelyInit == ASSUME Init, Assumptions PROVE Timely
  BY DEF Init, Timely, Times, AskTimes, CacheTimes, CallTimes, GrantsAreFresh, Assumptions, TimeAssumption

LEMMA LastGoodNat ==
    ASSUME Typed, Assumptions, NEW t \in Tokens
    PROVE  /\ LastGood(t) \in Nat /\ LastGood(t) =< Until[t] /\ LastGood(t) =< revokedAt[t]
           /\ \A n \in Nat : n =< Until[t] /\ n =< revokedAt[t] => n =< LastGood(t)
  BY DEF Typed, Assumptions, TokenAssumption, LastGood, Least

\* A call that comes in is let through by an entry that has not expired.
LEMMA ReceiveTimely ==
    ASSUME Typed, Assumptions, Timely, NEW c \in Calls, Receive(c) PROVE Timely'
<1>1. PICK r \in Requests[c] :
             /\ call[c].phase \in {"idle", "answered"}
             /\ UNCHANGED <<clock, revokedAt, cache, order, discovered>>
             /\ \/ UNCHANGED asks /\ Answer(c, Screened(r))
                \/ /\ r \in RequestType /\ r.token \in Tokens
                   /\ r.route = "discovery/scan" /\ AuthorizeDiscovery(c, r)
                \/ /\ r \in RequestType /\ r.token \in Tokens
                   /\ r.route # "discovery/scan" /\ Authorize(c, r)
  BY ReceiveCases
<1>2. clock \in Nat /\ Timeout \in Nat \ {0}
  BY DEF Typed, Assumptions, TimeAssumption
<1>3. \A t \in Tokens : LastGood(t)' = LastGood(t)
  BY <1>1 DEF LastGood
<1>4. Times' /\ CacheTimes'
  BY <1>1, <1>3 DEF Timely, Times, CacheTimes, Typed
<1>5. ASSUME NEW kind \in Kinds, r \in RequestType, r.token \in Tokens,
             UNCHANGED asks \/ asks' = asks \cup {AskOf(c, r, kind)}
      PROVE  AskTimes'
  <2>1. \A a \in asks : a.token \in Tokens
    BY AskFields DEF Typed
  <2>2. AskOf(c, r, kind).at = clock /\ AskOf(c, r, kind).verdict = "open"
    BY <1>5, AskTyped
  <2> QED
    BY <1>1, <1>2, <1>3, <1>5, <2>1, <2>2 DEF Timely, AskTimes
<1>6. ASSUME r \in RequestType, r.token \in Tokens, NEW phase \in Phases, NEW grant \in GrantType,
             Enter(c, r, phase, grant),
             phase \in {"granted", "loading"} /\ r.route # "discovery/scan"
                => clock < LastGood(r.token) + Timeout + TTL
      PROVE  CallTimes' /\ GrantsAreFresh'
  <2>1. /\ call'[c].phase = phase /\ call'[c].request = r /\ call'[c].at = clock
        /\ \A d \in Calls \ {c} : call'[d] = call[d]
    BY <1>6, EnterStep
  <2>2. CallTimes'
    BY <1>1, <1>2, <1>6, <2>1 DEF Timely, CallTimes
  <2>3. \A t : LastGood(t)' = LastGood(t)
    BY <1>1 DEF LastGood
  <2>4. GrantsAreFresh'
    BY <1>6, <2>1, <2>3 DEF Timely, GrantsAreFresh
  <2> QED
    BY <2>2, <2>4
<1>7. CASE UNCHANGED asks /\ Answer(c, Screened(r))
  <2>1. call'[c].phase = "answered" /\ \A d \in Calls \ {c} : call'[d] = call[d]
    BY <1>7, AnswerStep, ScreenedStatus
  <2>2. \A t : LastGood(t)' = LastGood(t)
    BY <1>1 DEF LastGood
  <2>3. CallTimes' /\ GrantsAreFresh'
    BY <1>1, <2>1, <2>2 DEF Timely, CallTimes, GrantsAreFresh
  <2>4. AskTimes'
    BY <1>1, <1>7, <2>2 DEF Timely, AskTimes
  <2> QED
    BY <1>4, <2>3, <2>4 DEF Timely
<1>8. CASE r \in RequestType /\ r.token \in Tokens /\ r.route = "discovery/scan" /\ AuthorizeDiscovery(c, r)
  <2>1. \E phase \in {"loading", "waiting"} : Enter(c, r, phase, NoGrant)
    BY <1>8 DEF AuthorizeDiscovery
  <2>2. CallTimes' /\ GrantsAreFresh'
    BY <1>6, <1>8, <2>1, Members
  <2>3. AskTimes'
    BY <1>5, <1>8, Members DEF AuthorizeDiscovery
  <2> QED
    BY <1>4, <2>2, <2>3 DEF Timely
<1>9. CASE r \in RequestType /\ r.token \in Tokens /\ r.route # "discovery/scan" /\ Authorize(c, r)
  <2>1. FirstKind(r.token) \in Kinds
    BY Members DEF FirstKind
  <2>2. AskTimes'
    BY <1>5, <1>9, <2>1 DEF Authorize
  <2>3. CASE Usable(r.token) /\ Enter(c, r, "granted", cache[r.token].grant)
    <3>1. cache[r.token].grant \in GrantType /\ clock < cache[r.token].expiresAt
          /\ cache[r.token].expiresAt \in Int /\ cache[r.token].expiresAt =< LastGood(r.token) + Timeout + TTL
      BY <2>3 DEF Usable, Typed, Timely, CacheTimes
    <3>2. clock < LastGood(r.token) + Timeout + TTL
      BY <1>2, <1>9, <3>1, LastGoodNat DEF Assumptions, TimeAssumption
    <3> QED
      BY <1>4, <1>6, <1>9, <2>2, <2>3, <3>1, <3>2, Members DEF Timely
  <2>4. CASE Enter(c, r, "waiting", NoGrant)
    BY <1>4, <1>6, <1>9, <2>2, <2>4, Members DEF Timely
  <2> QED
    BY <1>9, <2>3, <2>4 DEF Authorize
<1> QED
  BY <1>1, <1>7, <1>8, <1>9

\* What waited for an introspection came in before its deadline, and the token was good
\* when it began.
LEMMA SucceedTimely ==
    ASSUME Typed, Assumptions, Spoken, Timely, NEW a \in asks, Succeed(a) PROVE Timely'
<1>1. /\ a.token \in Tokens /\ a.by \in Calls /\ a.at \in Nat /\ asks' = asks \ {a} /\ a.verdict = "yes"
      /\ UNCHANGED <<clock, revokedAt>> /\ \A t : LastGood(t)' = LastGood(t)
  BY SucceedCases, AskFields DEF Typed, LastGood
<1>2. clock \in Nat /\ Timeout \in Nat \ {0} /\ TTL \in Nat \ {0}
  BY DEF Typed, Assumptions, TimeAssumption
<1>3. Times' /\ AskTimes'
  BY <1>1 DEF Timely, Times, AskTimes
<1>4. \A c \in Waiters(a) : c \in Calls /\ call[c].phase = "waiting"
  BY <1>1 DEF Waiters, Spoken, ScansWait
<1>5. CASE a.kind = "discovery" /\ Release(a, "loading", NoGrant) /\ UNCHANGED cache
  <2>1. \A c \in Calls : IF c \in Waiters(a)
           THEN call'[c].phase = "loading" /\ call'[c].request = call[c].request /\ call'[c].at = call[c].at
           ELSE call'[c] = call[c]
    BY <1>5, ReleaseStep, Members
  <2>2. \A c \in Waiters(a) : call[c].request.route = "discovery/scan"
    BY <1>1, <1>5 DEF Waiters, Spoken, ScansWait
  <2>3. CallTimes' /\ GrantsAreFresh'
    BY <1>1, <1>4, <2>1, <2>2 DEF Timely, CallTimes, GrantsAreFresh
  <2>4. CacheTimes'
    BY <1>1, <1>5 DEF Timely, CacheTimes
  <2> QED
    BY <1>3, <2>3, <2>4 DEF Timely
<1>6. CASE a.kind # "discovery" /\ Release(a, "granted", Granted(a)) /\ Store(a.token, Granted(a))
  <2>0. Granted(a) \in GrantType /\ LastGood(a.token) \in Nat /\ LastGood(a.token) =< Until[a.token]
    BY <1>1, GrantedTyped, LastGoodNat
  <2>1. \A c \in Calls : IF c \in Waiters(a)
           THEN call'[c].phase = "granted" /\ call'[c].request = call[c].request /\ call'[c].at = call[c].at
           ELSE call'[c] = call[c]
    BY <1>6, <2>0, ReleaseStep, Members
  <2>2. clock =< LastGood(a.token) + Timeout
    BY <1>1, <1>2, <1>6, <2>0 DEF Timely, AskTimes
  <2>3. \A c \in Waiters(a) : /\ call[c].at \in Nat /\ call[c].at =< clock
                              /\ call[c].request.token = a.token
    BY <1>4, <1>6 DEF Timely, CallTimes, Typed, CallType, Waiters
  <2>4. CallTimes'
    BY <1>1, <1>4, <2>1 DEF Timely, CallTimes
  <2>5. ASSUME NEW c \in Waiters(a) PROVE call[c].at < LastGood(call[c].request.token) + Timeout + TTL
    BY <1>2, <2>0, <2>2, <2>3
  <2>6. GrantsAreFresh'
    BY <1>1, <2>1, <2>5 DEF Timely, GrantsAreFresh
  <2>7. Expiry(a.token) =< clock + TTL
    BY <1>1, <1>2 DEF Expiry, Least, Assumptions, TokenAssumption
  <2>8. \A u \in DOMAIN cache' : \/ u = a.token /\ cache'[u].expiresAt = Expiry(u)
                                 \/ u \in DOMAIN cache /\ cache'[u] = cache[u]
    BY <1>1, <1>6, <2>0, StoreStep
  <2>9. Expiry(a.token) =< LastGood(a.token) + Timeout + TTL
    <3>1. Expiry(a.token) \in Int
      BY <1>1, <1>2 DEF Expiry, Least, Assumptions, TokenAssumption
    <3> QED
      BY <1>2, <2>0, <2>2, <2>7, <3>1
  <2>10. CacheTimes'
    BY <1>1, <2>7, <2>8, <2>9 DEF Timely, CacheTimes
  <2> QED
    BY <1>3, <2>4, <2>6, <2>10 DEF Timely
<1> QED
  BY <1>5, <1>6, SucceedCases

\* The verdict is said while the token is good or not; a second question has a deadline
\* of its own.
LEMMA VerdictTimely ==
    ASSUME Typed, Assumptions, Timely, NEW a \in asks, Decide(a) \/ AskAsMcp(a) PROVE Timely'
<1>1. /\ a \in AskType /\ a.token \in Tokens /\ a.at \in Nat
      /\ UNCHANGED <<clock, revokedAt, cache, call>> /\ \A t : LastGood(t)' = LastGood(t)
  BY AskFields DEF Typed, Decide, AskAsMcp, LastGood
<1>2. clock \in Nat /\ Timeout \in Nat \ {0} /\ MaxClock \in Nat
  BY DEF Typed, Assumptions, TimeAssumption
<1>3. Times' /\ CacheTimes' /\ CallTimes' /\ GrantsAreFresh'
  BY <1>1 DEF Timely, Times, CacheTimes, CallTimes, GrantsAreFresh
<1>4. CASE Decide(a)
  <2>1. PICK v \in Verdicts :
            /\ asks' = (asks \ {a}) \cup {[a EXCEPT !.verdict = v]}
            /\ v = "yes" => revokedAt[a.token] = Never /\ clock < Until[a.token]
    BY <1>4, Members DEF Decide
  <2> DEFINE b == [a EXCEPT !.verdict = v]
  <2>2. b.token = a.token /\ b.at = a.at /\ b.verdict = v
    BY <1>1 DEF AskType
  <2>3. asks' = (asks \ {a}) \cup {b}
    BY <2>1
  <2>4. a.at =< clock /\ clock =< MaxClock
    BY DEF Timely, AskTimes, Times
  <2>5. v = "yes" => a.at =< LastGood(a.token)
    BY <1>1, <1>2, <2>1, <2>4 DEF LastGood, Least, Never, Assumptions, TokenAssumption
  <2> HIDE DEF b
  <2>6. AskTimes'
    BY <1>1, <2>2, <2>3, <2>5 DEF Timely, AskTimes
  <2> QED
    BY <1>3, <2>6 DEF Timely
<1>5. CASE AskAsMcp(a)
  <2> DEFINE b == [a EXCEPT !.kind = "mcp", !.at = clock, !.verdict = "open"]
  <2>1. "mcp" \in Kinds /\ "open" \in Verdicts
    BY Members
  <2>2. b.at = clock /\ b.verdict = "open"
    BY <1>1, <1>2, <2>1 DEF AskType
  <2>3. asks' = (asks \ {a}) \cup {b}
    BY <1>5 DEF AskAsMcp
  <2> HIDE DEF b
  <2>4. AskTimes'
    BY <1>1, <1>2, <2>2, <2>3 DEF Timely, AskTimes
  <2> QED
    BY <1>3, <2>4 DEF Timely
<1> QED
  BY <1>4, <1>5

\* Refusals let nobody through; a call goes on only with the grant it has.
LEMMA RestTimely ==
    ASSUME Typed, Assumptions, Timely,
           \/ \E a \in asks : Fail(a)
           \/ \E c \in Calls : SelectorRefused(c) \/ Dispatch(c) \/ ProviderSettles(c)
    PROVE  Timely'
<1>1. UNCHANGED <<clock, revokedAt, cache>> /\ asks' \subseteq asks /\ \A t : LastGood(t)' = LastGood(t)
  BY DEF Fail, SelectorRefused, Dispatch, ProviderSettles, LastGood
<1>2. \A c \in Calls : \/ call'[c].phase = "answered" \/ call'[c] = call[c]
                       \/ /\ call[c].phase = "granted" /\ call'[c].at = call[c].at
                          /\ call'[c].request = call[c].request
  <2>1. ASSUME NEW a \in asks, Fail(a), NEW c \in Calls PROVE call'[c].phase = "answered" \/ call'[c] = call[c]
    BY <2>1, RejectStep DEF Fail
  <2>2. ASSUME NEW c \in Calls, SelectorRefused(c) \/ ProviderSettles(c), NEW d \in Calls
        PROVE  call'[d].phase = "answered" \/ call'[d] = call[d]
    <3>1. \E status \in Statuses : Answer(c, status)
      BY <2>2, Members DEF SelectorRefused, ProviderSettles, FailureStatuses
    <3> QED
      BY <3>1, AnswerStep
  <2>3. ASSUME NEW c \in Calls, Dispatch(c), NEW d \in Calls
        PROVE  \/ call'[d].phase = "answered" \/ call'[d] = call[d]
               \/ /\ call[d].phase = "granted" /\ call'[d].at = call[d].at
                  /\ call'[d].request = call[d].request
    <3>1. CASE call' = [call EXCEPT ![c].phase = "loading"]
      BY <2>3, <3>1 DEF Dispatch, Typed, CallType
    <3>2. CASE Answer(c, Routed(call[c].request, call[c].grant))
      BY <3>2, AnswerStep, RoutedStatus
    <3> QED
      BY <2>3, <3>1, <3>2 DEF Dispatch
  <2> QED
    BY <2>1, <2>2, <2>3
<1>3. Times' /\ AskTimes' /\ CacheTimes'
  BY <1>1 DEF Timely, Times, AskTimes, CacheTimes
<1>4. CallTimes' /\ GrantsAreFresh'
  BY <1>1, <1>2 DEF Timely, CallTimes, GrantsAreFresh
<1> QED
  BY <1>3, <1>4 DEF Timely

\* Time passes no deadline of an introspection.
LEMMA TickTimely == ASSUME Typed, Assumptions, Timely, Tick PROVE Timely'
<1>1. /\ clock' = clock + 1 /\ clock < MaxClock /\ \A a \in asks : clock < a.at + Timeout
      /\ UNCHANGED <<revokedAt, cache, asks, call>> /\ \A t : LastGood(t)' = LastGood(t)
  BY DEF Tick, LastGood
<1>2. clock \in Nat /\ Timeout \in Nat \ {0} /\ TTL \in Nat /\ MaxClock \in Nat
  BY DEF Typed, Assumptions, TimeAssumption
<1>3. Times'
  BY <1>1, <1>2 DEF Timely, Times, Typed
<1>4. AskTimes'
  <2>1. \A a \in asks : a.at \in Nat
    BY AskFields DEF Typed
  <2> QED
    BY <1>1, <1>2, <2>1 DEF Timely, AskTimes
<1>5. CacheTimes'
  BY <1>1, <1>2 DEF Timely, CacheTimes, Typed
<1>6. CallTimes' /\ GrantsAreFresh'
  <2>1. \A c \in Calls : call[c].at \in Nat
    BY DEF Typed, CallType
  <2> QED
    BY <1>1, <1>2, <2>1 DEF Timely, CallTimes, GrantsAreFresh
<1> QED
  BY <1>3, <1>4, <1>5, <1>6 DEF Timely

\* What is cached, shared or in flight when a token is revoked has little time left.
LEMMA RevokeTimely ==
    ASSUME Typed, Assumptions, Spoken, Timely, NEW t \in Tokens, Revoke(t) PROVE Timely'
<1>1. /\ revokedAt' = [revokedAt EXCEPT ![t] = clock] /\ UNCHANGED <<clock, cache, asks, call>>
  BY DEF Revoke
<1>2. clock \in Nat /\ Timeout \in Nat \ {0} /\ TTL \in Nat \ {0} /\ revokedAt \in [Tokens -> Nat]
  BY DEF Typed, Assumptions, TimeAssumption
<1>3. \A u \in Tokens : u # t => LastGood(u)' = LastGood(u)
  BY <1>1, <1>2 DEF LastGood
<1>4. LastGood(t)' \in Nat /\ (LastGood(t)' = clock \/ (LastGood(t)' = LastGood(t) /\ LastGood(t) =< clock))
  BY <1>1, <1>2 DEF LastGood, Least, Assumptions, TokenAssumption, Revoke, Timely, Times, Never, TimeAssumption
<1>5. Times'
  BY <1>1, <1>2 DEF Timely, Times, Never
<1>6. AskTimes'
  <2>1. \A a \in asks : a.token \in Tokens
    BY AskFields DEF Typed
  <2> QED
    BY <1>1, <1>3, <1>4, <2>1 DEF Timely, AskTimes
<1>7. CacheTimes'
  BY <1>1, <1>2, <1>3, <1>4 DEF Timely, CacheTimes, Typed
<1>8. CallTimes' /\ GrantsAreFresh'
  <2>1. \A c \in Calls : call[c].phase \in {"granted", "loading"} =>
           call[c].at \in Nat /\ call[c].at =< clock /\ call[c].request.token \in Tokens
    BY DEF Timely, CallTimes, Typed, CallType
  <2> QED
    BY <1>1, <1>2, <1>3, <1>4, <2>1 DEF Timely, CallTimes, GrantsAreFresh
<1> QED
  BY <1>5, <1>6, <1>7, <1>8 DEF Timely

LEMMA TimelyStep == ASSUME Typed, Assumptions, Spoken, Timely, [Next]_vars PROVE Timely'
<1>1. CASE UNCHANGED vars
  BY <1>1 DEF vars, Timely, Times, AskTimes, CacheTimes, CallTimes, GrantsAreFresh, LastGood
<1>2. CASE Next
  BY <1>2, TickTimely, RevokeTimely, ReceiveTimely, SucceedTimely, VerdictTimely, RestTimely DEF Next
<1> QED
  BY <1>1, <1>2

\* For any tokens, times and requests: what was cached, shared or in flight when a token
\* was revoked or expired lets nothing through that comes in later than the cache time
\* and one request to the control plane (authorizeRuntime, server.js:276-326).
THEOREM GrantsAreFreshCorrect == ASSUME Assumptions PROVE Spec => []GrantsAreFresh
<1>1. Timely => GrantsAreFresh
  BY DEF Timely
<1> QED
  BY <1>1, TypedInit, TypedStep, SpokenInit, SpokenStep, TimelyInit, TimelyStep, PTL DEF Spec

-----------------------------------------------------------------------------
(* The caches: each token once, in the order of insertion, never too many. *)

CacheTyped ==
    /\ order \in Seq(Tokens)
    /\ Orders(order, DOMAIN cache)
    /\ \A t \in DOMAIN cache : cache[t] \in [grant : GrantType, expiresAt : Nat \cup {-1}]

CacheSmall ==
    /\ IsFiniteSet(DOMAIN cache)
    /\ \A t \in Tokens : Cardinality(CacheOf(t, DOMAIN cache)) =< MaxEntries

\* A call that is not under way has no time of entry.
RestingCalls == \A c \in Calls : call[c].phase \in {"idle", "answered"} => call[c].at = 0

Bounded == CacheTyped /\ CacheSmall /\ RestingCalls

LEMMA BoundedInit == ASSUME Init, Assumptions PROVE Bounded
<1>1. DOMAIN cache = {} /\ order = <<>> /\ \A t : CacheOf(t, DOMAIN cache) = {}
  BY DEF Init, CacheOf
<1>2. order \in Seq(Tokens) /\ Range(order) = {} /\ IsInjective(order)
  BY <1>1 DEF Range, IsInjective
<1>3. RestingCalls
  BY DEF Init, RestingCalls
<1> QED
  BY <1>1, <1>2, <1>3, FS_EmptySet
  DEF Bounded, CacheTyped, CacheSmall, Orders, Assumptions, TimeAssumption

\* What room an insertion finds: the expired entries are gone, and the oldest of a full
\* cache with them.
LEMMA RoomForOneMore ==
    ASSUME Assumptions, CacheTyped, CacheSmall, NEW t \in Tokens
    PROVE  /\ Kept(t) \subseteq DOMAIN cache
           /\ IsFiniteSet(CacheOf(t, Kept(t))) /\ Cardinality(CacheOf(t, Kept(t))) < MaxEntries
<1> DEFINE C == CacheOf(t, Unexpired(t))
<1>1. Unexpired(t) \subseteq DOMAIN cache /\ C \subseteq CacheOf(t, DOMAIN cache)
  BY DEF Unexpired, CacheOf
<1>2. IsFiniteSet(CacheOf(t, DOMAIN cache))
  BY FS_Subset DEF CacheOf, CacheSmall
<1>3. IsFiniteSet(C) /\ Cardinality(C) =< Cardinality(CacheOf(t, DOMAIN cache))
  BY <1>1, <1>2, FS_Subset
<1>4. Cardinality(C) \in Nat /\ Cardinality(CacheOf(t, DOMAIN cache)) \in Nat /\ MaxEntries \in Nat \ {0}
  BY <1>2, <1>3, FS_CardinalityType DEF Assumptions, TimeAssumption
<1>5. Cardinality(C) =< MaxEntries
  BY <1>3, <1>4 DEF CacheSmall
<1>6. Kept(t) \subseteq DOMAIN cache
  BY <1>1 DEF Kept
<1>7. CASE Cardinality(C) >= MaxEntries
  <2> DEFINE o == Oldest(order, C)
  <2>1. C # {}
    BY <1>4, <1>7, FS_EmptySet
  <2>2. C \subseteq Range(order)
    BY <1>1 DEF CacheTyped, Orders, CacheOf
  <2>3. o \in C
    BY <2>1, <2>2, OldestIsOne DEF CacheTyped
  <2>4. Kept(t) = Unexpired(t) \ {o}
    BY <1>7 DEF Kept
  <2> HIDE DEF o
  <2>5. CacheOf(t, Kept(t)) = C \ {o}
    BY <2>4 DEF CacheOf
  <2>6. IsFiniteSet(C \ {o}) /\ Cardinality(C \ {o}) = Cardinality(C) - 1
    BY <1>3, <2>3, FS_RemoveElement
  <2> QED
    BY <1>4, <1>5, <1>6, <2>5, <2>6
<1>8. CASE ~(Cardinality(C) >= MaxEntries)
  <2>1. Kept(t) = Unexpired(t)
    BY <1>8 DEF Kept
  <2> QED
    BY <1>3, <1>4, <1>6, <1>8, <2>1
<1> QED
  BY <1>7, <1>8

LEMMA StoreBounded ==
    ASSUME Typed, Assumptions, CacheTyped, CacheSmall,
           NEW t \in Tokens, NEW grant \in GrantType, Store(t, grant)
    PROVE  CacheTyped' /\ CacheSmall'
<1> DEFINE K == Kept(t)
<1>1. /\ K \subseteq DOMAIN cache
      /\ IsFiniteSet(CacheOf(t, K)) /\ Cardinality(CacheOf(t, K)) < MaxEntries
  BY RoomForOneMore
<1>2. /\ order' = Placed(Only(order, K), t)
      /\ cache' = [u \in K \cup {t} |-> IF u = t THEN [grant |-> grant, expiresAt |-> Expiry(t)] ELSE cache[u]]
  BY DEF Store
<1> HIDE DEF K
<1>3. DOMAIN cache' = K \cup {t}
  BY <1>2
<1>4. Expiry(t) \in Nat \cup {-1}
  BY DEF Expiry, Typed, Assumptions, TimeAssumption, TokenAssumption, Least
<1>5. CacheTyped'
  <2>1. order' \in Seq(Tokens) /\ Orders(order', DOMAIN cache')
    BY <1>1, <1>2, <1>3, PlacedOrders DEF CacheTyped
  <2>2. \A u \in DOMAIN cache' : cache'[u] \in [grant : GrantType, expiresAt : Nat \cup {-1}]
    BY <1>1, <1>2, <1>3, <1>4 DEF CacheTyped
  <2> QED
    BY <2>1, <2>2 DEF CacheTyped
<1>6. IsFiniteSet(DOMAIN cache')
  <2>1. IsFiniteSet(K)
    BY <1>1, FS_Subset DEF CacheSmall
  <2> QED
    BY <1>3, <2>1, FS_AddElement
<1>7. ASSUME NEW u \in Tokens PROVE Cardinality(CacheOf(u, DOMAIN cache')) =< MaxEntries
  <2>1. CASE SameCache(t, u)
    <3>1. CacheOf(u, DOMAIN cache') = CacheOf(t, K) \cup {t}
      BY <1>3, <2>1 DEF CacheOf, SameCache
    <3>2. \/ Cardinality(CacheOf(t, K) \cup {t}) = Cardinality(CacheOf(t, K))
          \/ Cardinality(CacheOf(t, K) \cup {t}) = Cardinality(CacheOf(t, K)) + 1
      BY <1>1, FS_AddElement
    <3>3. Cardinality(CacheOf(t, K)) \in Nat /\ MaxEntries \in Nat
      BY <1>1, FS_CardinalityType DEF Assumptions, TimeAssumption
    <3>4. Cardinality(CacheOf(t, K) \cup {t}) =< MaxEntries
      BY <1>1, <3>2, <3>3
    <3> QED
      BY <3>1, <3>4
  <2>2. CASE ~SameCache(t, u)
    <3>1. CacheOf(u, DOMAIN cache') \subseteq CacheOf(u, DOMAIN cache)
      BY <1>1, <1>3, <2>2 DEF CacheOf, SameCache
    <3>2. IsFiniteSet(CacheOf(u, DOMAIN cache))
      BY FS_Subset DEF CacheOf, CacheSmall
    <3>3. /\ Cardinality(CacheOf(u, DOMAIN cache')) =< Cardinality(CacheOf(u, DOMAIN cache))
          /\ Cardinality(CacheOf(u, DOMAIN cache')) \in Nat /\ Cardinality(CacheOf(u, DOMAIN cache)) \in Nat
      BY <3>1, <3>2, FS_Subset, FS_CardinalityType
    <3>4. Cardinality(CacheOf(u, DOMAIN cache)) =< MaxEntries /\ MaxEntries \in Nat
      BY DEF CacheSmall, Assumptions, TimeAssumption
    <3> QED
      BY <3>3, <3>4
  <2> QED
    BY <2>1, <2>2
<1>8. CacheSmall'
  <2>1. \A u \in Tokens : CacheOf(u, DOMAIN cache)' = CacheOf(u, DOMAIN cache')
    BY DEF CacheOf
  <2> QED
    BY <1>6, <1>7, <2>1 DEF CacheSmall
<1> QED
  BY <1>5, <1>8

\* Only a successful introspection changes a cache.
LEMMA SucceedBounded ==
    ASSUME Typed, Assumptions, Spoken, Bounded, NEW a \in asks, Succeed(a) PROVE Bounded'
<1>1. a.token \in Tokens /\ a.by \in Calls
  BY AskFields DEF Typed
<1>2. RestingCalls'
  <2>1. \E phase \in {"loading", "granted"}, grant \in GrantType : Release(a, phase, grant)
    BY <1>1, SucceedCases, GrantedTyped, Members
  <2>2. \A c \in Calls : call'[c].phase \in {"loading", "granted"} \/ call'[c] = call[c]
    BY <2>1, ReleaseStep, Members
  <2> QED
    BY <2>2 DEF Bounded, RestingCalls
<1>3. CASE a.kind = "discovery"
  BY <1>2, <1>3 DEF Succeed, Bounded, CacheTyped, CacheSmall, CacheOf
<1>4. CASE a.kind # "discovery"
  <2>1. Store(a.token, Granted(a)) /\ Granted(a) \in GrantType
    BY <1>1, <1>4, SucceedCases, GrantedTyped
  <2> QED
    BY <1>1, <1>2, <2>1, StoreBounded DEF Bounded
<1> QED
  BY <1>3, <1>4

LEMMA BoundedStep == ASSUME Typed, Assumptions, Spoken, Bounded, [Next]_vars PROVE Bounded'
<1>1. ASSUME UNCHANGED <<cache, order>>, RestingCalls' PROVE Bounded'
  BY <1>1 DEF Bounded, CacheTyped, CacheSmall, CacheOf
<1>2. CASE Tick \/ UNCHANGED vars \/ (\E t \in Tokens : Revoke(t)) \/ \E a \in asks : Decide(a) \/ AskAsMcp(a)
  <2>1. UNCHANGED <<cache, order, call>>
    BY <1>2 DEF Tick, Revoke, Decide, AskAsMcp, vars
  <2> QED
    BY <1>1, <2>1 DEF Bounded, RestingCalls
<1>3. \A status : Answered(status).at = 0
  BY DEF Answered
<1>4. ASSUME NEW c \in Calls, NEW status, Answer(c, status), UNCHANGED <<cache, order>> PROVE Bounded'
  <2>1. RestingCalls'
    BY <1>3, <1>4 DEF Answer, Typed, Bounded, RestingCalls
  <2> QED
    BY <1>1, <1>4, <2>1
<1>5. ASSUME NEW c \in Calls, Receive(c) PROVE Bounded'
  <2>1. PICK r \in Requests[c] :
             /\ UNCHANGED <<clock, revokedAt, cache, order, discovered>>
             /\ \/ UNCHANGED asks /\ Answer(c, Screened(r))
                \/ r \in RequestType /\ (AuthorizeDiscovery(c, r) \/ Authorize(c, r))
    BY <1>5, ReceiveCases
  <2>2. CASE r \in RequestType /\ (AuthorizeDiscovery(c, r) \/ Authorize(c, r))
    <3>1. Usable(r.token) => cache[r.token].grant \in GrantType
      BY DEF Typed, Usable
    <3>2. \E phase \in {"waiting", "granted", "loading"}, grant \in GrantType : Enter(c, r, phase, grant)
      BY <2>2, <3>1, Members DEF AuthorizeDiscovery, Authorize
    <3>3. /\ call'[c].phase \in {"waiting", "granted", "loading"}
          /\ \A d \in Calls \ {c} : call'[d] = call[d]
      BY <2>2, <3>2, EnterStep, Members
    <3>4. RestingCalls'
      BY <3>3 DEF Bounded, RestingCalls
    <3> QED
      BY <1>1, <2>1, <3>4
  <2> QED
    BY <1>4, <2>1, <2>2
<1>6. ASSUME NEW a \in asks, Fail(a) PROVE Bounded'
  <2>1. RestingCalls'
    BY <1>3, <1>6 DEF Fail, Reject, Typed, Bounded, RestingCalls
  <2> QED
    BY <1>1, <1>6, <2>1 DEF Fail
<1>7. ASSUME NEW c \in Calls, Dispatch(c) PROVE Bounded'
  <2>1. CASE call' = [call EXCEPT ![c].phase = "loading"]
    <3>1. call'[c].phase = "loading" /\ \A d \in Calls \ {c} : call'[d] = call[d]
      BY <2>1 DEF Typed, CallType
    <3>2. RestingCalls'
      BY <3>1 DEF Bounded, RestingCalls
    <3> QED
      BY <1>1, <1>7, <3>2 DEF Dispatch
  <2> QED
    BY <1>4, <1>7, <2>1 DEF Dispatch
<1>8. ASSUME NEW c \in Calls, SelectorRefused(c) \/ ProviderSettles(c) PROVE Bounded'
  BY <1>4, <1>8 DEF SelectorRefused, ProviderSettles
<1> QED
  BY <1>2, <1>5, <1>6, <1>7, <1>8, SucceedBounded DEF Next

\* What is bounded is of the types of TypeOK.
LEMMA BoundedIsTyped == ASSUME Typed, Assumptions, Spoken, Timely, Bounded PROVE TypeOK
<1>1. clock \in Nat /\ clock =< MaxClock /\ MaxClock \in Nat /\ TTL \in Nat
  BY DEF Typed, Timely, Times, Assumptions, TimeAssumption
<1>2. revokedAt \in [Tokens -> 0..Never]
  <2>1. revokedAt \in [Tokens -> Nat] /\ \A t \in Tokens : revokedAt[t] =< Never /\ Never \in Nat
    BY <1>1 DEF Typed, Timely, Times, Never
  <2> QED
    BY <2>1
<1>3. \A t \in DOMAIN cache : t \in Tokens /\ cache[t] \in Entries
  <2>1. ASSUME NEW t \in DOMAIN cache PROVE cache[t].expiresAt \in 0..(MaxClock + TTL) \cup {-1}
    <3>1. cache[t].expiresAt \in Nat \cup {-1} /\ cache[t].expiresAt =< clock + TTL
      BY DEF Bounded, CacheTyped, Timely, CacheTimes
    <3> QED
      BY <1>1, <3>1
  <2> QED
    BY <2>1 DEF Typed, Bounded, CacheTyped, Entries, GrantType
<1>4. \A t \in DOMAIN cache : Cardinality({u \in DOMAIN cache : SameCache(t, u)}) =< MaxEntries
  BY <1>3 DEF Bounded, CacheSmall, CacheOf
<1>5. discovered \subseteq Tokens
  BY DEF Spoken, Tokens
<1>6. asks \subseteq [token : Tokens, kind : {"runtime", "mcp", "discovery"}, by : Calls,
                      at : 0..MaxClock, verdict : {"open", "yes", "no"}]
  <2>1. \A a \in asks : a \in AskType /\ a.at \in Nat /\ a.at =< clock
    BY AskFields DEF Typed, Timely, AskTimes
  <2> QED
    BY <1>1, <2>1 DEF AskType, Kinds, Verdicts
<1>7. call \in [Calls -> [phase : {"idle", "waiting", "granted", "loading", "answered"},
                          request : RequestSet, at : 0..MaxClock, grant : Grants, status : Statuses]]
  <2>1. \A c \in Calls : call[c] \in CallType /\ call[c].at \in Nat /\ call[c].at =< clock
    BY <1>1 DEF Typed, CallType, Phases, Timely, CallTimes, Bounded, RestingCalls
  <2>2. \A c \in Calls : call[c].at \in 0..MaxClock
    BY <1>1, <2>1
  <2> QED
    BY <2>1, <2>2 DEF Typed, CallType, Phases, RequestType, GrantType
<1> QED
  BY <1>1, <1>2, <1>3, <1>4, <1>5, <1>6, <1>7 DEF TypeOK, Bounded, CacheTyped

\* For any tokens, times and bounds: the server's state has its types; its caches hold a
\* token once and never more entries than they may (authorizeRuntime, server.js:311-317).
THEOREM TypeCorrect == ASSUME Assumptions PROVE Spec => []TypeOK
<1> QED
  BY TypedInit, TypedStep, SpokenInit, SpokenStep, TimelyInit, TimelyStep, BoundedInit, BoundedStep,
     BoundedIsTyped, PTL DEF Spec

-----------------------------------------------------------------------------
(* The introspections implement SharedLoad: the loads in flight are the      *)
(* tokens that are asked about for more than one call, who waits for one are *)
(* the calls with that token.                                                *)

WaitsFor(c) == call[c].phase = "waiting" /\ call[c].request.route # "discovery/scan"

Loads == {a.token : a \in {b \in asks : b.kind # "discovery"}}
Waiting == {<<c, call[c].request.token>> : c \in {d \in Calls : WaitsFor(d)}}

\* Nobody asks about a token that is asked about.
OneAsk == \A a, b \in asks :
    a.kind # "discovery" /\ b.kind # "discovery" /\ a.token = b.token => a = b

LEMMA Mapping == /\ Introspections!Init <=> Loads = {} /\ Waiting = {}
                 /\ (UNCHANGED Introspections!vars) <=> Loads' = Loads /\ Waiting' = Waiting
                 /\ \A c, t : Introspections!Wait(c, t) <=>
                       /\ \A u \in Tokens : <<c, u>> \notin Waiting
                       /\ Loads' = Loads \cup {t}
                       /\ Waiting' = Waiting \cup {<<c, t>>}
                 /\ \A t : Introspections!Finish(t) <=>
                       /\ t \in Loads
                       /\ Loads' = Loads \ {t}
                       /\ Waiting' = {w \in Waiting : w[2] # t}
                 /\ Introspections!Next <=> \/ \E c \in Calls, t \in Tokens : Introspections!Wait(c, t)
                                            \/ \E t \in Tokens : Introspections!Finish(t)
  BY DEF Loads, Waiting, WaitsFor, Introspections!Init, Introspections!vars, Introspections!Wait,
         Introspections!Finish, Introspections!Next

LEMMA SameWaiting ==
    ASSUME \A c \in Calls : (WaitsFor(c))' <=> WaitsFor(c),
           \A c \in Calls : WaitsFor(c) => call'[c].request.token = call[c].request.token
    PROVE  Waiting' = Waiting
  BY DEF Waiting

LEMMA OneAskInit == ASSUME Init PROVE OneAsk
  BY DEF Init, OneAsk

\* An introspection that goes on is still about the same token, for the same calls.
LEMMA SameAsk ==
    ASSUME Typed, NEW a \in asks, Decide(a) \/ AskAsMcp(a)
    PROVE  \E b : /\ asks' = (asks \ {a}) \cup {b}
                  /\ b.token = a.token /\ (b.kind # "discovery" <=> a.kind # "discovery")
<1>1. a \in AskType
  BY DEF Typed
<1>2. CASE Decide(a)
  <2>1. PICK v \in Verdicts : asks' = (asks \ {a}) \cup {[a EXCEPT !.verdict = v]}
    BY <1>2, Members DEF Decide
  <2>2. [a EXCEPT !.verdict = v].token = a.token /\ [a EXCEPT !.verdict = v].kind = a.kind
    BY <1>1 DEF AskType
  <2> QED
    BY <2>1, <2>2
<1>3. CASE AskAsMcp(a)
  <2> DEFINE b == [a EXCEPT !.kind = "mcp", !.at = clock, !.verdict = "open"]
  <2>1. asks' = (asks \ {a}) \cup {b} /\ a.kind = "runtime"
    BY <1>3 DEF AskAsMcp
  <2>2. b.token = a.token /\ b.kind = "mcp"
    BY <1>1 DEF AskType
  <2> HIDE DEF b
  <2> QED
    BY <2>1, <2>2
<1> QED
  BY <1>2, <1>3

LEMMA OneAskStep == ASSUME Typed, Assumptions, OneAsk, [Next]_vars PROVE OneAsk'
<1>1. ASSUME asks' \subseteq asks PROVE OneAsk'
  BY <1>1 DEF OneAsk
<1>2. ASSUME NEW c \in Calls, Receive(c) PROVE OneAsk'
  <2>1. PICK r \in Requests[c] :
             \/ UNCHANGED asks
             \/ r \in RequestType /\ r.token \in Tokens /\ AuthorizeDiscovery(c, r)
             \/ r \in RequestType /\ r.token \in Tokens /\ Authorize(c, r)
    BY <1>2, ReceiveCases
  <2>2. CASE r \in RequestType /\ r.token \in Tokens /\ AuthorizeDiscovery(c, r)
    <3>1. AskOf(c, r, "discovery").kind = "discovery"
      BY DEF AskOf
    <3> QED
      BY <1>1, <2>2, <3>1 DEF AuthorizeDiscovery, OneAsk
  <2>3. CASE r \in RequestType /\ r.token \in Tokens /\ Authorize(c, r)
    <3>1. UNCHANGED asks \/ (asks' = asks \cup {AskOf(c, r, FirstKind(r.token))} /\ Shared(r.token) = {})
      BY <2>3 DEF Authorize
    <3>2. AskOf(c, r, FirstKind(r.token)).token = r.token
      BY DEF AskOf
    <3> QED
      BY <1>1, <3>1, <3>2 DEF Shared, OneAsk
  <2> QED
    BY <1>1, <2>1, <2>2, <2>3
<1>3. ASSUME NEW a \in asks, Decide(a) \/ AskAsMcp(a) PROVE OneAsk'
  <2>1. PICK b : /\ asks' = (asks \ {a}) \cup {b}
                 /\ b.token = a.token /\ (b.kind # "discovery" => a.kind # "discovery")
    BY <1>3, SameAsk
  <2> QED
    BY <2>1 DEF OneAsk
<1>4. ASSUME NEW a \in asks, Succeed(a) \/ Fail(a) PROVE OneAsk'
  BY <1>1, <1>4 DEF Succeed, Fail
<1>5. ASSUME \/ Tick \/ (\E t \in Tokens : Revoke(t)) \/ UNCHANGED vars
             \/ \E c \in Calls : SelectorRefused(c) \/ Dispatch(c) \/ ProviderSettles(c)
      PROVE  OneAsk'
  BY <1>1, <1>5 DEF Tick, Revoke, vars, SelectorRefused, Dispatch, ProviderSettles
<1> QED
  BY <1>2, <1>3, <1>4, <1>5 DEF Next

\* A call that has to be introspected starts an introspection or joins the one there is.
LEMMA ReceiveShares ==
    ASSUME Typed, Assumptions, NEW c \in Calls, Receive(c)
    PROVE  Introspections!Next \/ UNCHANGED Introspections!vars
<1>1. PICK r \in Requests[c] :
             /\ call[c].phase \in {"idle", "answered"}
             /\ \/ UNCHANGED asks /\ Answer(c, Screened(r))
                \/ /\ r \in RequestType /\ r.token \in Tokens
                   /\ r.route = "discovery/scan" /\ AuthorizeDiscovery(c, r)
                \/ /\ r \in RequestType /\ r.token \in Tokens
                   /\ r.route # "discovery/scan" /\ Authorize(c, r)
  BY ReceiveCases
<1>2. ~WaitsFor(c)
  BY <1>1 DEF WaitsFor
<1>3. ASSUME \A d \in Calls \ {c} : call'[d] = call[d], ~(WaitsFor(c))' PROVE Waiting' = Waiting
  <2>1. \A d \in Calls : (WaitsFor(d))' <=> WaitsFor(d)
    BY <1>2, <1>3 DEF WaitsFor
  <2>2. \A d \in Calls : WaitsFor(d) => call'[d].request.token = call[d].request.token
    BY <1>2, <1>3
  <2> QED
    BY <2>1, <2>2, SameWaiting
<1>4. CASE UNCHANGED asks /\ Answer(c, Screened(r))
  <2>1. Waiting' = Waiting
    BY <1>3, <1>4, AnswerStep, ScreenedStatus DEF WaitsFor
  <2>2. Loads' = Loads
    BY <1>4 DEF Loads
  <2> QED
    BY <2>1, <2>2, Mapping
<1>5. CASE r \in RequestType /\ r.token \in Tokens /\ r.route = "discovery/scan" /\ AuthorizeDiscovery(c, r)
  <2>1. \E phase \in {"loading", "waiting"} : Enter(c, r, phase, NoGrant)
    BY <1>5 DEF AuthorizeDiscovery
  <2>2. (\A d \in Calls \ {c} : call'[d] = call[d]) /\ call'[c].request = r
    BY <1>5, <2>1, EnterStep, Members
  <2>3. Waiting' = Waiting
    BY <1>3, <1>5, <2>2 DEF WaitsFor
  <2>4. UNCHANGED asks \/ asks' = asks \cup {AskOf(c, r, "discovery")}
    BY <1>5 DEF AuthorizeDiscovery
  <2>5. AskOf(c, r, "discovery").kind = "discovery"
    BY DEF AskOf
  <2>6. Loads' = Loads
    BY <2>4, <2>5 DEF Loads
  <2> QED
    BY <2>3, <2>6, Mapping
<1>6. CASE r \in RequestType /\ r.token \in Tokens /\ r.route # "discovery/scan" /\ Authorize(c, r)
  <2>1. CASE Usable(r.token) /\ Enter(c, r, "granted", cache[r.token].grant) /\ UNCHANGED asks
    <3>1. cache[r.token].grant \in GrantType
      BY <2>1 DEF Usable, Typed
    <3>2. Waiting' = Waiting
      BY <1>3, <1>6, <2>1, <3>1, EnterStep, Members DEF WaitsFor
    <3>3. Loads' = Loads
      BY <2>1 DEF Loads
    <3> QED
      BY <3>2, <3>3, Mapping
  <2>2. CASE /\ Enter(c, r, "waiting", NoGrant)
             /\ IF Shared(r.token) # {} THEN UNCHANGED asks
                ELSE asks' = asks \cup {AskOf(c, r, FirstKind(r.token))}
    <3>1. /\ \A d \in Calls \ {c} : call'[d] = call[d]
          /\ call'[c].phase = "waiting" /\ call'[c].request = r
      BY <1>6, <2>2, EnterStep, Members
    <3>2. Waiting' = Waiting \cup {<<c, r.token>>}
      BY <1>2, <1>6, <3>1 DEF Waiting, WaitsFor
    <3>3. \A u \in Tokens : <<c, u>> \notin Waiting
      BY <1>2 DEF Waiting
    <3>4. AskOf(c, r, FirstKind(r.token)).kind # "discovery" /\ AskOf(c, r, FirstKind(r.token)).token = r.token
      BY DEF AskOf, FirstKind
    <3>5. Shared(r.token) # {} => r.token \in Loads
      BY DEF Shared, Loads
    <3>6. Loads' = Loads \cup {r.token}
      <4>1. CASE UNCHANGED asks /\ r.token \in Loads
        BY <4>1 DEF Loads
      <4>2. CASE asks' = asks \cup {AskOf(c, r, FirstKind(r.token))}
        BY <3>4, <4>2 DEF Loads
      <4> QED
        BY <2>2, <3>5, <4>1, <4>2
    <3> QED
      BY <1>6, <3>2, <3>3, <3>6, Mapping
  <2> QED
    BY <1>6, <2>1, <2>2 DEF Authorize
<1> QED
  BY <1>1, <1>4, <1>5, <1>6

\* The end of an introspection, well or badly, is the end for all who waited for it.
LEMMA EndShares ==
    ASSUME Typed, Assumptions, Spoken, OneAsk, NEW a \in asks, Succeed(a) \/ Fail(a)
    PROVE  Introspections!Next \/ UNCHANGED Introspections!vars
<1>1. asks' = asks \ {a} /\ a.token \in Tokens /\ a.by \in Calls
  BY AskFields DEF Succeed, Fail, Typed
<1>2. \A c \in Calls : IF c \in Waiters(a) THEN call'[c].phase # "waiting" ELSE call'[c] = call[c]
  <2>1. CASE Fail(a)
    BY <2>1, RejectStep DEF Fail
  <2>2. CASE Succeed(a)
    <3>1. Granted(a) \in GrantType
      BY <1>1, GrantedTyped
    <3>2. Release(a, "loading", NoGrant) \/ Release(a, "granted", Granted(a))
      BY <2>2, SucceedCases
    <3> QED
      BY <3>1, <3>2, ReleaseStep, Members
  <2> QED
    BY <2>1, <2>2
<1>3. CASE a.kind = "discovery"
  <2>1. Waiters(a) = {a.by} /\ ~WaitsFor(a.by)
    BY <1>3 DEF Waiters, Spoken, ScansWait, WaitsFor
  <2>2. Waiting' = Waiting
    <3>1. \A c \in Calls : (WaitsFor(c))' <=> WaitsFor(c)
      BY <1>2, <2>1 DEF WaitsFor
    <3>2. \A c \in Calls : WaitsFor(c) => call'[c].request.token = call[c].request.token
      BY <1>2, <2>1
    <3> QED
      BY <3>1, <3>2, SameWaiting
  <2>3. Loads' = Loads
    BY <1>1, <1>3 DEF Loads
  <2> QED
    BY <2>2, <2>3, Mapping
<1>4. CASE a.kind # "discovery"
  <2>1. Waiters(a) = {c \in Calls : WaitsFor(c) /\ call[c].request.token = a.token}
    BY <1>4 DEF Waiters, WaitsFor
  <2>2. Waiting' = {w \in Waiting : w[2] # a.token}
    <3>1. \A c \in Calls : (WaitsFor(c))' <=> WaitsFor(c) /\ call[c].request.token # a.token
      BY <1>2, <2>1 DEF WaitsFor
    <3>2. \A c \in Calls : WaitsFor(c) /\ call[c].request.token # a.token => call'[c] = call[c]
      BY <1>2, <2>1
    <3> QED
      BY <3>1, <3>2 DEF Waiting
  <2>3. a.token \in Loads /\ Loads' = Loads \ {a.token}
    BY <1>1, <1>4 DEF Loads, OneAsk
  <2> QED
    BY <1>1, <2>2, <2>3, Mapping
<1> QED
  BY <1>3, <1>4

\* Nothing else is a step of the introspections.
LEMMA RestShares ==
    ASSUME Typed, Assumptions,
           \/ Tick \/ (\E t \in Tokens : Revoke(t)) \/ UNCHANGED vars
           \/ \E c \in Calls : SelectorRefused(c) \/ Dispatch(c) \/ ProviderSettles(c)
           \/ \E a \in asks : Decide(a) \/ AskAsMcp(a)
    PROVE  UNCHANGED Introspections!vars
<1>1. CASE \/ Tick \/ (\E t \in Tokens : Revoke(t)) \/ UNCHANGED vars
  <2>1. UNCHANGED <<asks, call>>
    BY <1>1 DEF Tick, Revoke, vars
  <2>2. Loads' = Loads /\ Waiting' = Waiting
    BY <2>1 DEF Loads, Waiting, WaitsFor
  <2> QED
    BY <2>2, Mapping
<1>2. ASSUME NEW c \in Calls, SelectorRefused(c) \/ Dispatch(c) \/ ProviderSettles(c)
      PROVE  UNCHANGED Introspections!vars
  <2>1. UNCHANGED asks /\ call[c].phase \in {"granted", "loading"}
    BY <1>2 DEF SelectorRefused, Dispatch, ProviderSettles
  <2>2. call'[c].phase # "waiting" /\ \A d \in Calls \ {c} : call'[d] = call[d]
    <3>1. CASE \E status \in Statuses : Answer(c, status)
      BY <3>1, AnswerStep
    <3>2. CASE call' = [call EXCEPT ![c].phase = "loading"]
      BY <3>2 DEF Typed, CallType
    <3> QED
      BY <1>2, <3>1, <3>2, RoutedStatus, Members DEF SelectorRefused, Dispatch, ProviderSettles, FailureStatuses
  <2>3. \A d \in Calls : (WaitsFor(d))' <=> WaitsFor(d)
    BY <2>1, <2>2 DEF WaitsFor
  <2>4. \A d \in Calls : WaitsFor(d) => call'[d].request.token = call[d].request.token
    BY <2>1, <2>2 DEF WaitsFor
  <2>5. Waiting' = Waiting
    BY <2>3, <2>4, SameWaiting
  <2>6. Loads' = Loads
    BY <2>1 DEF Loads
  <2> QED
    BY <2>5, <2>6, Mapping
<1>3. ASSUME NEW a \in asks, Decide(a) \/ AskAsMcp(a) PROVE UNCHANGED Introspections!vars
  <2>1. UNCHANGED call
    BY <1>3 DEF Decide, AskAsMcp
  <2>2. Waiting' = Waiting
    BY <2>1 DEF Waiting, WaitsFor
  <2>3. PICK b : /\ asks' = (asks \ {a}) \cup {b}
                 /\ b.token = a.token /\ (b.kind # "discovery" <=> a.kind # "discovery")
    BY <1>3, SameAsk
  <2>4. Loads' = Loads
    BY <2>3 DEF Loads
  <2> QED
    BY <2>2, <2>4, Mapping
<1> QED
  BY <1>1, <1>2, <1>3

\* The requests of one token share its introspection and are all let go by its end, as
\* SharedLoad promises (pendingIntrospection, server.js:289-325).
THEOREM ImplementsSharedLoad == ASSUME Assumptions PROVE Spec => SharesLoads
<1>1. Init => Introspections!Init
  BY Mapping DEF Init, Loads, Waiting, WaitsFor
<1>2. ASSUME Typed, Spoken, OneAsk, [Next]_vars PROVE [Introspections!Next]_(Introspections!vars)
  BY <1>2, ReceiveShares, EndShares, RestShares DEF Next
<1> QED
  BY <1>1, <1>2, TypedInit, TypedStep, SpokenInit, SpokenStep, OneAskInit, OneAskStep, PTL
  DEF Spec, SharesLoads, Introspections!Spec
=============================================================================
