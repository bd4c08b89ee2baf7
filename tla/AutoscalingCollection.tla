-------------------------- MODULE AutoscalingCollection --------------------------
(***************************************************************************)
(* One collection of the autoscaling inventory, the collect of             *)
(* src/shared/autoscaling-capacity.js: nineteen lists and the cloud        *)
(* inventory are read, and capacity, findings and the reasons for empty    *)
(* tabs are derived from what came back.  The cache in front of it is      *)
(* AutoscalingCache.                                                       *)
(*                                                                         *)
(* One step is one collection of a cluster that does not change meanwhile; *)
(* the six lanes that read the lists do not depend on each other.  A       *)
(* resource amount is one number.  An object holds what the findings and   *)
(* the capacity look at.                                                   *)
(***************************************************************************)
EXTENDS InsertionOrder, FiniteSets

CONSTANTS
    Clusters,      \* clusters to collect: list -> its objects
    Scopes,        \* namespaces to collect, or "all"
    PageSize,      \* PAGE_SIZE
    MaxPages       \* MAX_PAGES

Namespaced ==
    {"pods", "deployments", "replicasets", "hpa", "pdb", "quotas", "limitranges", "pod-metrics", "vpa",
     "vpa-v1beta2", "keda-scaledobjects", "keda-scaledjobs", "keda-triggerauth"}

ListNames == Namespaced \cup
    {"nodes", "node-metrics", "configmaps", "keda-clustertriggerauth", "karpenter-nodepools",
     "karpenter-nodeclaims", "karpenter-nodepools-v1beta1", "karpenter-nodeclaims-v1beta1"}

\* The lists of what KEDA scales.
Scalers == {"keda-scaledobjects", "keda-scaledjobs"}

\* What is asked of the constants; who instances the module assumes it.  Two objects of a
\* kind do not share both namespace and name.
CollectionAssumption ==
    /\ \A c \in Clusters :
          /\ DOMAIN c = ListNames \cup {"cloud"} /\ c["cloud"] \in Nat
          /\ \A l \in ListNames : c[l] \in Seq(Range(c[l]))
          /\ \A p \in Range(c["pods"]) :
                /\ p.containers \in Seq(Nat) /\ p.init \in Seq([amount : Nat, always : BOOLEAN])
                /\ p.whole \in Nat /\ p.overhead \in Nat
          /\ \A l \in Scalers : \A x, y \in Range(c[l]) :
                /\ x.states \subseteq {"not-ready", "fallback", "paused", "scale-to-zero"}
                /\ x.namespace = y.namespace /\ x.name = y.name => x = y
    /\ "all" \in Scopes /\ PageSize \in Nat \ {0} /\ MaxPages \in Nat \ {0}

VARIABLES
    cluster,    \* what there is
    scope,      \* what was asked for
    source,     \* list -> [status, partial], as reported
    report      \* what was derived, or None

vars == <<cluster, scope, source, report>>

None == [derived |-> FALSE]

-----------------------------------------------------------------------------
(* Reading a list                                                          *)

InScope(s, l, item) == l \notin Namespaced \/ s = "all" \/ item.namespace = s

Listed(c, s, l) == Only(c[l], {item \in Range(c[l]) : InScope(s, l, item)})

\* A request is answered, refused, fails, or finds no such API: before the first
\* page, or, but for the last, after some.
Outcomes == {[status |-> "available", page |-> 0]} \cup
            [status : {"denied", "error"}, page : 1..MaxPages] \cup {[status |-> "absent", page |-> 1]}

\* collectList keeps what it read before it failed; what lies beyond the last page is left out.
Items(c, s, l, o) ==
    LET there == Listed(c, s, l)
        most == IF o.status = "available" THEN MaxPages * PageSize ELSE (o.page - 1) * PageSize
    IN  SubSeq(there, 1, IF Len(there) < most THEN Len(there) ELSE most)

SourceStatus(c, s, l, o) ==
    [status |-> o.status,
     partial |-> IF o.status = "available" THEN Len(Listed(c, s, l)) > MaxPages * PageSize
                 ELSE o.status # "absent"]

\* A page fails only if the list has one, and an API that is not installed has no objects.
Possible(c, s, l, o) ==
    /\ o.page =< 1 \/ Len(Listed(c, s, l)) > (o.page - 1) * PageSize
    /\ o.status = "absent" => c[l] = <<>>

-----------------------------------------------------------------------------
(* Capacity                                                                *)

Larger(a, b) == IF a > b THEN a ELSE b

\* effectivePodResources: the containers of init run one after the other, those that
\* restart keep running.
EffectivePodResources(pod) ==
    LET after[i \in 0..Len(pod.init)] ==
            IF i = 0 THEN [running |-> 0, peak |-> 0]
            ELSE LET started == after[i - 1].running + pod.init[i].amount
                 IN  [running |-> IF pod.init[i].always THEN started ELSE after[i - 1].running,
                      peak |-> Larger(after[i - 1].peak, started)]
        init == after[Len(pod.init)]
    IN  Larger(Larger(SumFunction(pod.containers) + init.running, init.peak), pod.whole) + pod.overhead

ActivePods(found) == {p \in Range(found["pods"]) : ~p.done}

Requests(pods) == SumFunction([p \in pods |-> EffectivePodResources(p)])

\* podOwner: the controller of the ReplicaSet that owns the pod, if that was read.
PodOwner(found, pod) ==
    LET sets == {r \in Range(found["replicasets"]) :
                    pod.owner = <<"ReplicaSet", r.name>> /\ r.namespace = pod.namespace /\ r.owner # <<>>}
    IN  IF sets = {} THEN pod.owner ELSE (CHOOSE r \in sets : TRUE).owner

Workloads(found) == {<<p.namespace, PodOwner(found, p)>> : p \in ActivePods(found)}

PodsOf(found, workload) == {p \in ActivePods(found) : workload = <<p.namespace, PodOwner(found, p)>>}

Schedulable(found) == {n \in Range(found["nodes"]) : n.ready /\ ~n.cordoned}

\* A HorizontalPodAutoscaler or ScaledObject that has the workload as its target.
Autoscaled(found, w) ==
    \E l \in {"hpa", "keda-scaledobjects"} : \E a \in Range(found[l]) : a.namespace = w[1] /\ a.target = w[2]

Budgets(found, w) ==
    {b.name : b \in {b \in Range(found["pdb"]) : b.namespace = w[1] /\ \E p \in PodsOf(found, w) : p.label \in b.selects}}

CapacityFromInventory(found) ==
    [requests |-> Requests(ActivePods(found)),
     nodes |-> Len(found["nodes"]),
     allocatable |-> SumFunction([n \in Schedulable(found) |-> n.allocatable]),
     perNode |-> {<<n.name, Requests({p \in ActivePods(found) : p.node = n.name})>> : n \in Range(found["nodes"])},
     workloads |-> {[id |-> w, pods |-> Cardinality(PodsOf(found, w)), requests |-> Requests(PodsOf(found, w)),
                     autoscaled |-> Autoscaled(found, w), pdbs |-> Budgets(found, w)] : w \in Workloads(found)}]

-----------------------------------------------------------------------------
(* Findings: [code, about], the object they are about                      *)

Either(found, newer, older) == IF found[newer] # <<>> THEN Range(found[newer]) ELSE Range(found[older])

\* normalizeHpa: by its owner, or by its name, keda-hpa- and the name of a ScaledObject
ManagedByKeda(found, hpa) ==
    hpa.owned \/ \E s \in Range(found["keda-scaledobjects"]) :
                     s.namespace = hpa.namespace /\ hpa.generated = s.name

HasHpa(found, scaled) ==
    \E hpa \in Range(found["hpa"]) :
        /\ ManagedByKeda(found, hpa) /\ hpa.namespace = scaled.namespace
        /\ hpa.target = scaled.target \/ hpa.generated = scaled.name

Complete(src, l) == src[l].status = "available" /\ ~src[l].partial

AuthList(ref) == IF ref.cluster THEN "keda-clustertriggerauth" ELSE "keda-triggerauth"

HasAuth(found, scaled, ref) ==
    \E a \in Range(found[AuthList(ref)]) : a.name = ref.name /\ (ref.cluster \/ a.namespace = scaled.namespace)

\* The first autoscaler of the same target; a vpa without a policy controls everything.
Conflicting(found, vpa) ==
    LET hpas == SelectSeq(found["hpa"], LAMBDA h : h.namespace = vpa.namespace /\ h.target = vpa.target)
    IN  /\ ~vpa.off /\ hpas # <<>>
        /\ \E r \in hpas[1].resources : r \in (IF vpa.controls = {} THEN {"cpu", "memory"} ELSE vpa.controls)

Claims(found) == Either(found, "karpenter-nodeclaims", "karpenter-nodeclaims-v1beta1")
Pools(found) == Either(found, "karpenter-nodepools", "karpenter-nodepools-v1beta1")

ClusterAutoscalers(found) == {d \in Range(found["deployments"]) : d.autoscaler}

\* The cloud inventory is read or fails; without a configured adapter it has no providers.
NodeProviders(found, cloud) ==
    Cardinality(ClusterAutoscalers(found)) + (IF Pools(found) \cup Claims(found) # {} THEN 1 ELSE 0)
    + (IF cloud.status = "available" THEN cloud.providers ELSE 0)

Named(code, item) == [code |-> code, about |-> <<item.namespace, item.name>>]

OfCluster(code, name) == [code |-> code, about |-> <<"", name>>]

Missing(l, scaled, ref) == [code |-> "missing-auth", about |-> <<l, scaled.namespace, scaled.name, ref>>]

\* analyze; a scaled object may be not ready, paused, on fallback or scale to zero.  What is
\* missing is told only when the list that would have it was read whole, and node
\* autoscalers, whose lists are several, whenever none is seen.
Analyze(src, found, cloud) ==
    LET objects == Range(found["keda-scaledobjects"])
        vpas == Either(found, "vpa", "vpa-v1beta2")
        stuck == {p \in Range(found["pods"]) : p.unschedulable}
    IN  {Named("scaling-failed", h) : h \in {h \in Range(found["hpa"]) : h.failing}}
        \cup {Named("max-replicas", h) : h \in {h \in Range(found["hpa"]) : h.limited /\ h.max > 0 /\ h.desired >= h.max}}
        \cup {Named("hpa-metric-conflict", v) : v \in {v \in vpas : Conflicting(found, v)}}
        \cup {Named("missing-hpa", s) : s \in {s \in objects : Complete(src, "hpa") /\ ~HasHpa(found, s)}}
        \cup (UNION {UNION {{Missing(l, s, ref) : ref \in
                {ref \in s.auth : Complete(src, AuthList(ref)) /\ ~HasAuth(found, s, ref)}} : s \in Range(found[l])} : l \in Scalers})
        \cup (UNION {UNION {{Named(state, s) : state \in s.states} : s \in Range(found[l])} : l \in Scalers})
        \cup {Named("recommendation-unavailable", v) : v \in {v \in vpas : v.failing}}
        \cup {Named("insufficient-healthy", b) : b \in {b \in Range(found["pdb"]) : b.healthy < b.wanted}}
        \cup {Named("unschedulable", p) : p \in stuck}
        \cup {Named("quota-exhausted", q) : q \in {q \in Range(found["quotas"]) : q.used >= q.hard}}
        \cup {OfCluster("pool-not-ready", p.name) : p \in {p \in Pools(found) : ~p.ready}}
        \cup {OfCluster("claim-not-ready", c.name) : c \in {c \in Claims(found) : ~c.ready}}
        \cup (IF stuck # {} /\ NodeProviders(found, cloud) = 0
              THEN {OfCluster("provider-missing", "node-scaling")} ELSE {})

-----------------------------------------------------------------------------
(* The answer                                                              *)

TabLists ==
    [hpa |-> {"hpa"}, vpa |-> {"vpa", "vpa-v1beta2"}, keda |-> {"keda-scaledobjects", "keda-scaledjobs"},
     pdb |-> {"pdb"}, capacity |-> {"nodes", "pods"},
     nodescaling |-> {"karpenter-nodepools", "karpenter-nodeclaims"}]

Shown(found, cloud, t) ==
    CASE t = "vpa" -> Either(found, "vpa", "vpa-v1beta2") # {}
      [] t = "capacity" -> found["nodes"] # <<>>
      [] t = "nodescaling" -> NodeProviders(found, cloud) > 0
      [] OTHER -> \E l \in TabLists[t] : found[l] # <<>>

\* An empty tab says that its lists could not be read, or that there is nothing.
Tab(src, found, cloud, t) ==
    IF Shown(found, cloud, t) THEN "shown"
    ELSE IF \E l \in TabLists[t] : src[l].status \in {"denied", "error"} THEN "unavailable"
    ELSE "none found"

Report(src, found, cloud) ==
    [derived |-> TRUE,
     partial |-> cloud.status = "error" \/ \E l \in ListNames : src[l].partial,
     capacity |-> CapacityFromInventory(found),
     findings |-> Analyze(src, found, cloud),
     tabs |-> [t \in DOMAIN TabLists |-> Tab(src, found, cloud, t)]]

-----------------------------------------------------------------------------
Init ==
    /\ cluster \in Clusters
    /\ scope \in Scopes
    /\ source = [l \in ListNames |-> [status |-> "available", partial |-> FALSE]]
    /\ report = None

Read == [status |-> "available", page |-> 0]

\* At most two lists of one collection are not read whole.
Troubled(c, s) ==
    LET can(l) == {o \in Outcomes : Possible(c, s, l, o)} IN
    UNION {{[l \in ListNames |-> IF l = a THEN x ELSE IF l = b THEN y ELSE Read] : x \in can(a), y \in can(b)} :
              a, b \in ListNames}

Collect(outcome, answer) ==
    LET found == [l \in ListNames |-> Items(cluster, scope, l, outcome[l])]
        cloud == [status |-> answer, providers |-> cluster["cloud"]]
    IN  /\ source' = [l \in ListNames |-> SourceStatus(cluster, scope, l, outcome[l])]
        /\ report' = Report(source', found, cloud)
        /\ UNCHANGED <<cluster, scope>>

Next ==
    /\ report = None
    /\ \E outcome \in Troubled(cluster, scope), answer \in {"available", "error"} : Collect(outcome, answer)

Spec == Init /\ [][Next]_vars

-----------------------------------------------------------------------------
(* What is said of the cluster, and what is true of it                     *)

\* The most a pod needs at one moment of its life: while its init containers run one after
\* the other next to those started before that restart, and when its containers run.
Peak(pod) ==
    LET before(i) == SumFunction([j \in 1..(i - 1) |-> IF pod.init[j].always THEN pod.init[j].amount ELSE 0])
        moments == {before(i) + pod.init[i].amount : i \in 1..Len(pod.init)}
                   \cup {before(Len(pod.init) + 1) + SumFunction(pod.containers), pod.whole}
    IN  (CHOOSE m \in moments : \A n \in moments : n =< m) + pod.overhead

There(l) == Range(Listed(cluster, scope, l))

\* The autoscaler that KEDA made for a ScaledObject: it has its name, or its target.
OwnHpa(s, hpa) ==
    hpa.namespace = s.namespace /\ (hpa.generated = s.name \/ (hpa.owned /\ hpa.target = s.target))

TypeOK ==
    /\ cluster \in Clusters /\ scope \in Scopes
    /\ source \in [ListNames -> [status : {"available", "denied", "error", "absent"}, partial : BOOLEAN]]
    /\ report # None => report.partial \in BOOLEAN /\ DOMAIN report.tabs = DOMAIN TabLists

\* An inventory that does not say it is partial read every list of an installed API whole.
NeverCleanWhenCut ==
    report # None /\ ~report.partial =>
        \A l \in ListNames : source[l].status = "absent" \/ Complete(source, l)

\* What is told to be missing is missing in the cluster, not only among the objects read: the
\* autoscaler of a ScaledObject, the authentication a trigger names.  Nor does an empty tab say
\* that there is nothing when there is something it could not read; node scaling, whose tab
\* does not look at every list it is made from, says so only if the inventory is not partial.
\* (src/shared/autoscaling-capacity.js:443, :452, :615)
MissingIsMissing ==
    report # None =>
        /\ \A s \in There("keda-scaledobjects") :
              Named("missing-hpa", s) \in report.findings => \A hpa \in Range(cluster["hpa"]) : ~OwnHpa(s, hpa)
        /\ \A l \in Scalers : \A s \in There(l) :
              \A ref \in s.auth : Missing(l, s, ref) \in report.findings => ~HasAuth(cluster, s, ref)
        /\ \A t \in DOMAIN TabLists \ {"nodescaling"} :
              report.tabs[t] = "none found" =>
                  t = "capacity" \/ \A l \in TabLists[t] : There(l) = {}
        /\ report.tabs["nodescaling"] = "none found" /\ ~report.partial =>
              /\ \A l \in TabLists["nodescaling"] : There(l) = {}
              /\ \A d \in There("deployments") : ~d.autoscaler

\* The requests of a pod are the most it needs at any moment ("mirrors scheduler semantics"),
\* and those of the workloads, and of the nodes with the pods not yet on one, add up to those
\* of the pods read: each active pod counts once.  (src/shared/autoscaling-capacity.js:96, :300)
CapacityAddsUp ==
    report # None /\ source["pods"].status = "available" /\ ~source["pods"].partial =>
        LET active == {p \in There("pods") : ~p.done}
            demand(pods) == SumFunction([p \in pods |-> Peak(p)])
            elsewhere == {p \in active : \A n \in report.capacity.perNode : p.node # n[1]}
        IN  /\ report.capacity.requests = demand(active)
            /\ SumFunction([w \in report.capacity.workloads |-> w.requests]) = demand(active)
            /\ SumFunction([n \in report.capacity.perNode |-> n[2]]) + demand(elsewhere) = demand(active)
=============================================================================
