------------------------------ MODULE MCReading ------------------------------
(* What the agent reads and keeps for its readers, on small instances for TLC. *)
EXTENDS Reading, TLC

AllContexts == {"c1", "c2", "c3"}
Allowed == {"c1", "c2"}

\* Two core kinds that are read in pages, the discovery of the APIs, then the policies.
PostureStages == <<{"pods", "apis"}, {"policies"}>>
PostureLists == {"pods", "policies"}
PostureLength == "pods" :> 3 @@ "policies" :> 2 @@ "apis" :> 1
PostureSizes == {1, 2}
TwoLanes == 1..2

\* Two sources that agree or not on the cluster of a context, a third with credentials.
Kubeconfigs ==
    {[contexts |-> ("x" :> <<"k", "u">>), clusters |-> ("k" :> "s1"), users |-> ("u" :> "c1"), current |-> "x"],
     [contexts |-> ("x" :> <<"k", "u">>), clusters |-> ("k" :> "s2"), users |-> <<>>, current |-> "x"],
     [contexts |-> <<>>, clusters |-> ("k" :> "s1"), users |-> ("u" :> "c2"), current |-> ""]}

KubeconfigPlaces == <<"env", "home", "etc">>
Sessions == {[context |-> "x", fingerprint |-> <<"x", "k", "s1">>],
             [context |-> "x", fingerprint |-> <<"x", "k", "s2">>]}

\* A folder with a job that is a root of its own and one that lies too deep.
CiProjects == <<"b", "a">>
JobTree == [a |-> <<"b", "c">>, b |-> <<"d">>, c |-> <<>>, d |-> <<>>]
RunCounts == {0, 1, 3, 4}

\* One reader follows a target whose events repeat, expire and are evicted, also for
\* the sake of another target.
Ev(id, occurred) == [id |-> id, occurred |-> occurred]
OneNamespace == [i \in {"a", "b", "c"} |-> "x"]
OneReader == [r \in {"r"} |-> [target |-> "t", namespace |-> "every namespace"]]
Appended == [t |-> {<<Ev("b", 1)>>, <<Ev("a", 1), Ev("c", 0)>>}, u |-> {<<Ev("b", 1)>>}]
SequenceBounds == [t |-> 3, u |-> 1]

\* A pod, one of another namespace on the host's network and one that is done; policies
\* for some of them, in one direction or both, with a rule or none.
Rule(peers, ports) == [peers |-> peers, ports |-> ports]

SomePods ==
    "p" :> [namespace |-> "x", done |-> FALSE, host |-> FALSE] @@
    "q" :> [namespace |-> "y", done |-> FALSE, host |-> TRUE] @@
    "r" :> [namespace |-> "x", done |-> TRUE, host |-> FALSE]

SomePolicies ==
    [namespace : {"x"}, pods : {{"p"}, {"p", "q", "r"}, {"r"}}, types : {{}, {"egress"}}, ingress : {{}},
     egress : {{}} \cup {{Rule(peers, ports)} : peers \in {{}, {"anything"}, {"anyPod"}, {"neighbours", "ipv4"}},
                                               ports \in {"all", "tcp", "tcp80"}}]

\* Three clusters: what counts of a pod's containers and who owns it; what KEDA generates
\* and refers to, in two namespaces; nodes, quotas, an autoscaler elsewhere and one of KEDA.
NoObjects ==
    [l \in {"pods", "deployments", "replicasets", "hpa", "pdb", "quotas", "limitranges", "pod-metrics", "vpa",
            "vpa-v1beta2", "keda-scaledobjects", "keda-scaledjobs", "keda-triggerauth", "nodes", "node-metrics",
            "configmaps", "keda-clustertriggerauth", "karpenter-nodepools", "karpenter-nodeclaims",
            "karpenter-nodepools-v1beta1", "karpenter-nodeclaims-v1beta1"} |-> <<>>] @@ [cloud |-> 0]

Pod(ns, name, owner, containers, init, node) ==
    [namespace |-> ns, name |-> name, owner |-> owner, done |-> FALSE, containers |-> containers, init |-> init,
     whole |-> 0, overhead |-> 1, node |-> node, unschedulable |-> node = "", label |-> "l"]
InitContainer(amount, always) == [amount |-> amount, always |-> always]
Hpa(ns, name, target, generated) ==
    [namespace |-> ns, name |-> name, generated |-> generated, owned |-> FALSE, target |-> target,
     failing |-> FALSE, limited |-> TRUE, desired |-> 2, max |-> 2, resources |-> {"cpu"}]
Scaled(ns, name, target, auth) ==
    [namespace |-> ns, name |-> name, target |-> target, states |-> {}, auth |-> auth]
Auth(name, everywhere) == [name |-> name, cluster |-> everywhere]
Web == <<"Deployment", "web">>
Other == <<"Deployment", "other">>

Owned ==
    [NoObjects EXCEPT
        !["pods"] = <<Pod("x", "p", <<"ReplicaSet", "r">>, <<1, 2>>,
                          <<InitContainer(4, FALSE), InitContainer(1, TRUE), InitContainer(2, FALSE)>>, "n"),
                      [Pod("x", "q", <<"ReplicaSet", "r">>, <<1>>, <<>>, "n") EXCEPT !.done = TRUE]>>,
        !["replicasets"] = <<[namespace |-> "x", name |-> "r", owner |-> Web]>>,
        !["nodes"] = <<[name |-> "n", ready |-> TRUE, cordoned |-> FALSE, allocatable |-> 8]>>,
        !["pdb"] = <<[namespace |-> "x", name |-> "b", selects |-> {"l"}, healthy |-> 0, wanted |-> 1]>>,
        !["hpa"] = <<Hpa("x", "h", Web, "")>>,
        !["vpa-v1beta2"] = <<[namespace |-> "x", name |-> "v", target |-> Web, off |-> FALSE,
                              failing |-> FALSE, controls |-> {}]>>]

Generated ==
    [NoObjects EXCEPT
        !["keda-scaledobjects"] = <<Scaled("x", "s", Web, {Auth("k", FALSE)}),
                                    Scaled("y", "t", Web, {Auth("k", FALSE), Auth("k", TRUE)})>>,
        !["keda-scaledjobs"] = <<Scaled("x", "j", Web, {Auth("m", FALSE)})>>,
        !["hpa"] = <<Hpa("x", "h", Other, ""), Hpa("y", "g", Other, ""), Hpa("x", "f", Web, "s")>>,
        !["keda-triggerauth"] = <<[namespace |-> "x", name |-> "o"], [namespace |-> "y", name |-> "k"],
                                  [namespace |-> "x", name |-> "k"]>>,
        !["keda-clustertriggerauth"] = <<[name |-> "k"]>>]

Nodes ==
    [NoObjects EXCEPT
        !["pods"] = <<Pod("x", "p", <<"Pod", "p">>, <<3>>, <<InitContainer(2, TRUE)>>, ""),
                      Pod("y", "q", <<"Pod", "q">>, <<1>>, <<>>, "n")>>,
        !["nodes"] = <<[name |-> "n", ready |-> TRUE, cordoned |-> TRUE, allocatable |-> 8]>>,
        !["deployments"] = <<[namespace |-> "y", name |-> "ca", autoscaler |-> TRUE]>>,
        !["quotas"] = <<[namespace |-> "x", name |-> "q", used |-> 1, hard |-> 1]>>,
        !["keda-scaledobjects"] = <<Scaled("y", "u", Web, {})>>,
        !["hpa"] = <<[Hpa("y", "w", Web, "") EXCEPT !.owned = TRUE]>>,
        !["karpenter-nodepools-v1beta1"] = <<[name |-> "pool", ready |-> FALSE]>>]

ThreeClusters == {Owned, Generated, Nodes}

\* Profiles for any context, for this one and for another; more exporters than are asked.
Profile(of, context, endpoints) == [cluster |-> of, context |-> context, endpoints |-> endpoints]

SomeProfiles ==
    {<<>>, <<Profile("", "*", <<"s">>), Profile("", "here", <<"c">>)>>,
     <<Profile("there", "here", <<"t">>), Profile("", "*", <<"c">>)>>,
     <<Profile("", "there", <<"t">>), Profile("here", "*", <<"c">>)>>}
Found == <<"c", "f">>
EndpointCluster == [s |-> "there", t |-> "there", c |-> "here", f |-> "here"]
EndpointPart ==
    [s |-> {}, t |-> {}, c |-> {"error", "pool faulted", "node offline"},
     f |-> {"warning", "pool degraded", "pool offline", "path down"}]
=============================================================================
