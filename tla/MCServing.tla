------------------------------ MODULE MCServing ------------------------------
(* The loopback server and the three caches of collected data behind it on   *)
(* small instances for TLC.  A unit of time is 15 s for the caches and one   *)
(* second for the server.                                                    *)
EXTENDS Serving

-----------------------------------------------------------------------------
(* The requests to the server: one for each way through its dispatcher, and  *)
(* those of a second call that only competes for introspections.             *)

Get(token, route) == [token |-> token, method |-> "GET", route |-> route, origin |-> "none", bad |-> "no"]

Ways ==
    {Get("manager", route) : route \in {"overview", "none", "unknown", "alerting", "alerting/unknown",
        "timeline/events", "timeline/stats", "policy-posture", "objects/inspect", "health", "capability"}}
    \cup {Get("plain", route) : route \in {"alerting/history", "autoscaling"}}
    \cup {Get("mcp", route) : route \in {"pods", "pods/logs", "autoscaling", "alerting", "mcp", "policy-posture"}}
    \cup {Get("legacy", route) : route \in {"secrets", "configmaps/content"}}
    \cup {Get(token, "overview") : token \in {"discovery", NoToken}}
    \cup {[Get(token, "alerting/config") EXCEPT !.method = "PUT"] : token \in {"manager", "mcp"}}
    \cup {[Get(token, "discovery/scan") EXCEPT !.method = "POST"] : token \in {"manager", "discovery"}}
    \cup {[Get(token, "pods") EXCEPT !.method = "POST"] : token \in {"manager", "legacy"}}
    \cup {Get("discovery", "discovery/scan")}
    \cup {[Get("manager", "overview") EXCEPT !.method = "OPTIONS", !.origin = o] : o \in {"none", "allowed"}}
    \cup {[Get("manager", "overview") EXCEPT !.origin = "foreign"]}
    \cup {[Get("manager", route) EXCEPT !.bad = b] : route \in {"policy-posture", "autoscaling"}, b \in {"ns", "view"}}

Competing == {Get(token, "health") : token \in {"mcp", "legacy"}}

RequestsOf == [c \in Calls |->
    IF c = "c1" THEN Ways \cup Competing ELSE {Get(t, "health") : t \in {"manager", "legacy"}}]

AllTokens == RuntimeTokens \cup McpTokens \cup LegacyTokens \cup DiscoveryTokens

ScopesOf == [t \in AllTokens |->
    CASE t = "manager" -> {"runtime:read", "runtime:manage"}
      [] t = "plain" -> {}
      [] OTHER -> {"runtime:read"}]

UntilOf == [t \in AllTokens |-> IF t = "manager" THEN 1 ELSE 9]

\* Bound: once a token is revoked or the second call has been made, only the competing
\* requests go on.
Scenario ==
    \/ call["c2"].phase = "idle" /\ revokedAt["mcp"] = Server!Never
    \/ /\ call["c1"].request \in Competing \cup {Server!IdleRequest}
       /\ discovered = {} /\ "plain" \notin DOMAIN seCache
=============================================================================
