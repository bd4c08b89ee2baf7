------------------------------- MODULE Serving -------------------------------
(***************************************************************************)
(* What serves a request: the agent's loopback server and the three caches *)
(* of collected data behind it.  They share nothing but the passing of     *)
(* time, each in a unit of its own: a behaviour is one of the part in      *)
(* focus, the others rest.                                                 *)
(***************************************************************************)
EXTENDS CiCache

CONSTANTS
    PostureCalls, PostureScopes, PostureTTL, MaxPostureScopes, PostureMaxClock,
    CapacityCalls, CapacityScopes, CapacityTTL, FreshTTL, MaxCapacityScopes, CapacityMaxClock,
    Calls, RuntimeTokens, McpTokens, LegacyTokens, DiscoveryTokens, NoToken, Scopes, Until,
    ServerTTL, Timeout, MaxEntries, HasTimeline, Requests, Revocable, ServerMaxClock

VARIABLES focus,
    poClock, poCache, poOrder, inflight, poCall,
    asClock, asCache, asOrder, cloud, asCall,
    seClock, revokedAt, seCache, order, discovered, asks, call

poVars == <<poClock, poCache, poOrder, inflight, poCall>>
asVars == <<asClock, asCache, asOrder, cloud, asCall>>
seVars == <<seClock, revokedAt, seCache, order, discovered, asks, call>>

-----------------------------------------------------------------------------
Posture == INSTANCE PostureCache WITH
    Calls <- PostureCalls, ScopeNames <- PostureScopes, TTL <- PostureTTL,
    MaxScopes <- MaxPostureScopes, MaxClock <- PostureMaxClock,
    clock <- poClock, cache <- poCache, order <- poOrder, call <- poCall

Autoscaling == INSTANCE AutoscalingCache WITH
    Calls <- CapacityCalls, ScopeNames <- CapacityScopes, TTL <- CapacityTTL,
    MaxScopes <- MaxCapacityScopes, MaxClock <- CapacityMaxClock,
    clock <- asClock, cache <- asCache, order <- asOrder, call <- asCall

\* With what is proved of the server, to be used by the proofs about the whole.
Server == INSTANCE LoopbackServerProofs WITH
    TTL <- ServerTTL, MaxClock <- ServerMaxClock, clock <- seClock, cache <- seCache

ASSUME CachesAssumption == Posture!BoundAssumption /\ Autoscaling!BoundAssumption
ASSUME ServerAssumption == Server!TokenAssumption /\ Server!TimeAssumption /\ Server!RequestAssumption

-----------------------------------------------------------------------------
AllInit ==
    /\ focus \in {"ci", "posture", "autoscaling", "server"}
    /\ Init /\ Posture!Init /\ Autoscaling!Init /\ Server!Init

AllNext ==
    /\ UNCHANGED focus
    /\ \/ focus = "ci" /\ Next /\ UNCHANGED <<poVars, asVars, seVars>>
       \/ focus = "posture" /\ Posture!Next /\ UNCHANGED <<vars, asVars, seVars>>
       \/ focus = "autoscaling" /\ Autoscaling!Next /\ UNCHANGED <<vars, poVars, seVars>>
       \/ focus = "server" /\ Server!Next /\ UNCHANGED <<vars, poVars, asVars>>

allVars == <<focus, vars, poVars, asVars, seVars>>

AllSpec == AllInit /\ [][AllNext]_allVars

-----------------------------------------------------------------------------
(* Each part is looked at while it is in focus: at rest it stays in its      *)
(* initial state.                                                            *)

\* The type invariants of the parts.
AllTypeOK ==
    /\ focus = "ci" => TypeOK
    /\ focus = "posture" => Posture!TypeOK
    /\ focus = "autoscaling" => Autoscaling!TypeOK
    /\ focus = "server" => Server!TypeOK

\* See LoopbackServer.
GrantsAreFresh == focus = "server" => Server!GrantsAreFresh
OnlyAllowedReached == focus = "server" => Server!OnlyAllowedReached
RevocationCloses == focus = "server" => Server!RevocationCloses

\* The readers of a CI instance share its requests, those of a scope its posture
\* collections, the requests of a token its introspections; nobody waits for an
\* autoscaling collection that does not run.
LoadsAreShared == SharesLoads /\ Posture!SharesLoads /\ Server!SharesLoads /\ []Autoscaling!NobodyIsLeft

\* What a call is given is as fresh as it asked for.
AnswersAreFresh ==
    /\ focus = "posture" => Posture!AnswersAreFresh
    /\ focus = "autoscaling" => Autoscaling!AnswersAreFresh
=============================================================================
