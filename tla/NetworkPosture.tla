----------------------------- MODULE NetworkPosture -----------------------------
(***************************************************************************)
(* analyzeNetworkPosture, src/shared/policy-posture-network.js: which pods *)
(* the NetworkPolicies of a cluster select, in which direction, and what   *)
(* is said of them.  One step is one analysis.  It is compared with what   *)
(* the policies mean: the traffic they allow a pod.                        *)
(*                                                                         *)
(* A label selector is the set of pods it matches.  A peer is one of: {},  *)
(* every pod of every namespace, every pod of the policy's namespace,      *)
(* every IPv4 address.  A rule without ports is for all of them, one with  *)
(* a ports entry of {} for TCP.                                            *)
(***************************************************************************)
EXTENDS FiniteSets, Naturals

CONSTANTS
    Pods,        \* pod -> [namespace, done, host]
    Namespaces,
    Policies     \* the policies a cluster may have: [namespace, pods, types, ingress, egress]

Directions == {"ingress", "egress"}
Peers == {"anything", "anyPod", "neighbours", "ipv4"}
Ports == {"all", "tcp", "tcp80"}
Rules == [peers : SUBSET Peers, ports : Ports]

\* What is asked of the constants; who instances the module assumes it.  No policyTypes
\* is the empty set.
NetworkAssumption ==
    /\ IsFiniteSet(DOMAIN Pods) /\ \A p \in DOMAIN Pods : Pods[p].namespace \in Namespaces
    /\ Policies \subseteq [namespace : Namespaces, pods : SUBSET DOMAIN Pods, types : SUBSET Directions,
                           ingress : SUBSET Rules, egress : SUBSET Rules]

VARIABLES
    policies,   \* of the cluster
    posture     \* the last analysis

vars == <<policies, posture>>

-----------------------------------------------------------------------------
(* The analysis                                                            *)

ActivePods == {p \in DOMAIN Pods : ~Pods[p].done}

\* matchesSelector: a policy selects pods of its own namespace alone
Selected(policy) == {p \in ActivePods \cap policy.pods : Pods[p].namespace = policy.namespace}

\* Without types a policy is for ingress, and for egress if it has egress rules.
PolicyDirections(policy) ==
    IF policy.types # {} THEN policy.types
    ELSE {"ingress"} \cup (IF policy.egress # {} THEN {"egress"} ELSE {})

UnrestrictedRule(rule) == rule.ports = "all" /\ (rule.peers = {} \/ "anything" \in rule.peers)

AllowAll(policy, direction) ==
    direction \in PolicyDirections(policy) /\ \E rule \in policy[direction] : UnrestrictedRule(rule)

PolicyFindings(ps) ==
    [unmatchedSelector |-> {policy \in ps : Selected(policy) = {}},
     allowAll |-> {pair \in ps \X Directions : AllowAll(pair[1], pair[2])},
     allowAllAddresses |-> {pair \in ps \X Directions :
        pair[2] \in PolicyDirections(pair[1]) /\ \E rule \in pair[1][pair[2]] : "ipv4" \in rule.peers}]

\* Of one pod in one direction.
Coverage(ps, p, direction) ==
    LET selecting == {policy \in ps : p \in Selected(policy) /\ direction \in PolicyDirections(policy)}
    IN  [covered |-> selecting # {}, allowAll |-> \E policy \in selecting : AllowAll(policy, direction)]

Covered(ps, direction) == {p \in ActivePods : Coverage(ps, p, direction).covered}

PodFindings(ps) ==
    [missingCoverage |-> ActivePods \ (Covered(ps, "ingress") \cap Covered(ps, "egress")),
     hostNetwork |-> {p \in ActivePods : Pods[p].host}]

\* A namespace is told for itself when neither a policy nor a pod of it is.
NamespaceFindings(ps) ==
    {n \in Namespaces : (\A policy \in ps : policy.namespace # n) /\ \A p \in ActivePods : Pods[p].namespace # n}

AnalyzeNetworkPosture(ps) ==
    [policies |-> PolicyFindings(ps), pods |-> PodFindings(ps), namespaces |-> NamespaceFindings(ps),
     items |-> [p \in ActivePods |-> [d \in Directions |-> Coverage(ps, p, d)]],
     coverage |-> [totalPods |-> Cardinality(ActivePods),
                   ingressCoveredPods |-> Cardinality(Covered(ps, "ingress")),
                   egressCoveredPods |-> Cardinality(Covered(ps, "egress")),
                   bothCoveredPods |-> Cardinality(Covered(ps, "ingress") \cap Covered(ps, "egress")),
                   uncoveredPods |-> Cardinality({p \in ActivePods : \E d \in Directions : ~Coverage(ps, p, d).covered}),
                   excludedCompletedPods |-> Cardinality({p \in DOMAIN Pods : Pods[p].done})]]

-----------------------------------------------------------------------------
Init ==
    /\ policies = {}
    /\ posture = AnalyzeNetworkPosture({})

\* A cluster has at most two policies.
Analyze ==
    \E a, b \in Policies :
        /\ policies' = {a, b}
        /\ posture' = AnalyzeNetworkPosture({a, b})

Next == policies = {} /\ Analyze

Spec == Init /\ [][Next]_vars

-----------------------------------------------------------------------------
(* What the policies mean (external: the NetworkPolicy API)                *)

\* One end is a pod of the policy's namespace, of another, an IPv4 address or an IPv6 one.
Traffic == [end : {"neighbour", "stranger", "v4", "v6"}, port : {"tcp80", "tcp443", "udp53"}]

PeerMatches(peer, end) ==
    CASE peer = "anything" -> TRUE
      [] peer = "anyPod" -> end \in {"neighbour", "stranger"}
      [] peer = "neighbours" -> end = "neighbour"
      [] peer = "ipv4" -> end = "v4"

RuleMatches(rule, t) ==
    /\ rule.peers = {} \/ \E peer \in rule.peers : PeerMatches(peer, t.end)
    /\ rule.ports = "all" \/ t.port = "tcp80" \/ (rule.ports = "tcp" /\ t.port = "tcp443")

\* A pod is isolated in a direction by the policies that select it and name the direction, or
\* name none and either the direction is ingress or they have rules for it.
Isolating(p, d) ==
    {policy \in policies : /\ policy.namespace = Pods[p].namespace /\ p \in policy.pods
                           /\ d \in policy.types \/ (policy.types = {} /\ (d = "ingress" \/ policy[d] # {}))}

Allowed(p, d) ==
    {t \in Traffic : Isolating(p, d) = {} \/ \E policy \in Isolating(p, d) : \E rule \in policy[d] : RuleMatches(rule, t)}

-----------------------------------------------------------------------------
(* Properties                                                              *)

TypeOK ==
    /\ policies \subseteq Policies
    /\ DOMAIN posture = {"policies", "pods", "namespaces", "items", "coverage"}

\* A pod is said to be covered exactly when a policy may deny it something, and a pod with an
\* allow-all policy is denied nothing, whatever its other policies; a covered pod that is
\* denied nothing by a single rule is said to be; the counts agree with each other; and what is said
\* to be uncovered is told as a finding.  "Other additive policies cannot narrow this
\* allowance."  (src/shared/policy-posture-network.js:144, :180, :211)
PostureIsTrue ==
    /\ \A p \in ActivePods, d \in Directions :
          LET item == posture.items[p][d] IN
          /\ item.covered <=> Isolating(p, d) # {}
          /\ ~item.covered \/ item.allowAll => Allowed(p, d) = Traffic
          /\ \A rule \in Rules : UNION {policy[d] : policy \in Isolating(p, d)} = {rule} =>
                (item.allowAll <=> Allowed(p, d) = Traffic)
          /\ ~item.covered => p \in posture.pods.missingCoverage
    /\ posture.coverage.bothCoveredPods + posture.coverage.uncoveredPods = posture.coverage.totalPods
    /\ posture.coverage.ingressCoveredPods + posture.coverage.egressCoveredPods
          =< posture.coverage.totalPods + posture.coverage.bothCoveredPods
    /\ \A policy \in posture.policies.unmatchedSelector :
          \A p \in ActivePods, d \in Directions : policy \notin Isolating(p, d)
=============================================================================
