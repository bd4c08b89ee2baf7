----------------------------- MODULE StorageDrivers -----------------------------
(***************************************************************************)
(* What the agent says of a storage backend: agent/src/storage-drivers.js  *)
(* and storage-provider-adapters.js.  Vitastor is asked through the CLI of *)
(* the agent's own host or, failing that, through etcd; Ceph, Longhorn,    *)
(* OpenEBS and Portworx through their Kubernetes objects and exporters.    *)
(*                                                                         *)
(* The backend asked about is the one of the cluster "here"; the gateway   *)
(* may know a cluster "there" as well, and its CLI may belong to it.  What *)
(* a source can tell is the set of faults it would show; capacities and    *)
(* rows are left out.  A list that fails reads as an empty one, as in      *)
(* fetchLists.  One step is one overview.                                  *)
(***************************************************************************)
EXTENDS Integers, Sequences, FiniteSets, Functions

CONSTANTS
    Profiles,        \* configured profiles of a driver, in their order, to choose from
    Discovered,      \* endpoints found in the Services and EndpointSlices of "here"
    ClusterOf,       \* endpoint -> the cluster it belongs to
    PartOf,          \* endpoint -> the faults an exporter there shows
    MaxCandidates,   \* MAX_ENDPOINT_CANDIDATES
    MaxDown          \* how many sources do not answer

\* What is asked of the constants; who instances the module assumes it. A profile that
\* names the cluster, or its context, has endpoints of that cluster.
DriverAssumption ==
    /\ ClusterOf \in [DOMAIN ClusterOf -> {"here", "there"}] /\ DOMAIN PartOf = DOMAIN ClusterOf
    /\ Discovered \in Seq(DOMAIN ClusterOf) /\ \A i \in DOMAIN Discovered : ClusterOf[Discovered[i]] = "here"
    /\ Profiles \subseteq Seq([cluster : {"", "here", "there"}, context : {"*", "here", "there"},
                             endpoints : Seq(DOMAIN ClusterOf)])
    /\ \A profiles \in Profiles : \A i \in DOMAIN profiles :
           profiles[i].cluster = "here" \/ (profiles[i].cluster = "" /\ profiles[i].context = "here") =>
                 \A k \in DOMAIN profiles[i].endpoints : ClusterOf[profiles[i].endpoints[k]] = "here"
    /\ MaxCandidates \in Nat \ {0} /\ MaxDown \in Nat

VARIABLES
    agent,      \* the configuration: [enabled, cli, host, contexts, profiles]
    storage,    \* the backend of "here": [driver, old, faults, down, blank]
    overview    \* the answer

vars == <<agent, storage, overview>>

-----------------------------------------------------------------------------
(* What there is to read                                                   *)

Drivers == {"vitastor", "ceph", "longhorn", "openebs", "portworx", "other"}

Commands == {"status", "pools", "osds"}

\* The lists of a driver and the faults their objects show.
CephShows == [clusters |-> {"error", "warning"}]

LonghornShows ==
    [nodes |-> {"node down", "disk down"}, volumes |-> {"volume faulted", "volume degraded"}, replicas |-> {}]

OpenEbsShows ==
    [diskpools |-> {"pool faulted", "pool degraded"}, nodes |-> {"node down"}, volumes |-> {"volume faulted"},
     storageclasses |-> {}]

PortworxShows == [clusters |-> {"cluster error"}, nodes |-> {"node error"}]

\* What the commands show: all that counts is in the first.
CliShows ==
    [status |-> {"osd down", "incomplete", "degraded", "etcd down", "pool inactive"},
     pools |-> {}, osds |-> {}, kubeconfigs |-> {}]

\* What etcd holds, and what the exporters show.
EtcdShows == {"osd down", "incomplete", "degraded", "monitor down"}

CephExports == {"error", "warning"}

OpenEbsExports == {"pool faulted", "pool degraded"}

PortworxExports ==
    {"storage down", "pool offline", "volume without quorum", "node offline", "pool degraded",
     "volume resyncing", "path down"}

Shows == [vitastor |-> CliShows, ceph |-> CephShows, longhorn |-> LonghornShows, openebs |-> OpenEbsShows,
          portworx |-> PortworxShows, other |-> [nothing |-> {}]]

Exported == [ceph |-> CephExports, longhorn |-> {}, openebs |-> OpenEbsExports, portworx |-> PortworxExports]

FaultsOf(driver) ==
    (UNION {Shows[driver][s] : s \in DOMAIN Shows[driver]})
        \cup (IF driver \in DOMAIN Exported THEN Exported[driver] ELSE {})
        \cup (IF driver = "vitastor" THEN EtcdShows ELSE {})

Sources(driver) == DOMAIN Shows[driver] \cup {"services"} \cup DOMAIN ClusterOf

Up(s) == s \notin storage.down

\* Custom resources of an older version have another path.
Custom == [ceph |-> {}, longhorn |-> {"nodes", "volumes", "replicas"}, openebs |-> {"diskpools"}, portworx |-> {}]

First(indices) == CHOOSE i \in indices : \A j \in indices : i =< j

-----------------------------------------------------------------------------
(* A verdict is that of the first rule one of whose faults was shown.      *)

CliRules ==
    <<<<{"osd down", "incomplete"}, "critical">>, <<{"degraded", "etcd down", "pool inactive"}, "warning">>>>

EtcdRules == <<<<{"osd down", "incomplete"}, "critical">>, <<{"monitor down", "degraded"}, "warning">>>>

CephRules == <<<<{"error"}, "critical">>, <<{"warning"}, "warning">>>>

LonghornRules ==
    <<<<{"volume faulted"}, "critical">>, <<{"volume degraded", "node down", "disk down"}, "warning">>>>

OpenEbsRules ==
    <<<<{"pool faulted"}, "critical">>, <<{"pool degraded"}, "warning">>, <<{"node down"}, "warning">>,
      <<{"volume faulted"}, "critical">>>>

PortworxRules ==
    <<<<{"storage down", "pool offline", "volume without quorum"}, "critical">>,
      <<{"node offline", "pool degraded", "volume resyncing", "path down"}, "warning">>,
      <<{"cluster error"}, "critical">>, <<{"node error"}, "warning">>>>

StatusOf(rules, shown, detected) ==
    LET applying == {i \in DOMAIN rules : rules[i][1] \cap shown # {}}
    IN  IF applying # {} THEN rules[First(applying)][2] ELSE IF detected THEN "healthy" ELSE "unknown"

NoOverview == [status |-> "unknown", partial |-> FALSE, of |-> {}, from |-> "nothing", errors |-> {}]

-----------------------------------------------------------------------------
(* Vitastor                                                                *)

NoProfile == [cluster |-> "", context |-> "", endpoints |-> <<>>]

Selected(profiles, indices) == IF indices = {} THEN NoProfile ELSE profiles[First(indices)]

ForContext(profiles, context) == {i \in DOMAIN profiles : profiles[i].cluster = "" /\ profiles[i].context = context}

\* selectVitastorProfile: by the cluster's fingerprint, by context, for any context.
VitastorProfile(profiles) ==
    LET named == {i \in DOMAIN profiles : profiles[i].cluster = "here"}
        here == ForContext(profiles, "here")
    IN  Selected(profiles, IF named # {} THEN named ELSE IF here # {} THEN here ELSE ForContext(profiles, "*"))

ForAny(p) == p.cluster = "" /\ p.context = "*"

ExactOrAny(profile) == profile # NoProfile

Exact(profile) == profile # NoProfile /\ ~ForAny(profile)

\* canUseLocalVitastorCli
MayUseCli ==
    agent.cli /\ (Exact(VitastorProfile(agent.profiles)) \/ (Up("kubeconfigs") /\ Cardinality(agent.contexts) =< 1))

\* The endpoints of a profile, then those that were found.
EndpointsWith(profile) == profile.endpoints \o (IF Up("services") THEN Discovered ELSE <<>>)

\* resolvedVitastorConfig: unique leaves out only endpoints that stand before.
EtcdEndpoints == EndpointsWith(VitastorProfile(agent.profiles))

Answering == {i \in DOMAIN EtcdEndpoints : Up(EtcdEndpoints[i]) /\ EtcdEndpoints[i] \notin storage.blank}

FirstAnswering == EtcdEndpoints[First(Answering)]

FaultsAt(place) == IF place = "here" THEN storage.faults ELSE {}

\* The status is that of the CLI; the monitors come from the first etcd that has any, whoever's.
FromCli ==
    [NoOverview EXCEPT
        !.status = StatusOf(CliRules, FaultsAt(agent.host) \cap Shows.vitastor.status, TRUE),
        !.of = {agent.host} \cup (IF Answering = {} THEN {} ELSE {ClusterOf[FirstAnswering]}),
        !.from = "cli"]

\* The endpoints that failed before one returned keys.
FailedBefore == {EtcdEndpoints[i] : i \in 1..(First(Answering) - 1)} \cap storage.down

FromEtcd ==
    [NoOverview EXCEPT
        !.status = StatusOf(EtcdRules, FaultsAt(ClusterOf[FirstAnswering]) \cap EtcdShows, TRUE),
        !.partial = FailedBefore # {}, !.of = {ClusterOf[FirstAnswering]}, !.from = "etcd", !.errors = FailedBefore]

Vitastor ==
    IF MayUseCli /\ Commands \cap storage.down = {} THEN FromCli
    ELSE IF Answering # {} THEN FromEtcd
    ELSE [NoOverview EXCEPT
             !.partial = MayUseCli \/ EtcdEndpoints # <<>>,
             !.errors = (IF MayUseCli THEN {"cli"} ELSE {}) \cup (Range(EtcdEndpoints) \cap storage.down)]

-----------------------------------------------------------------------------
(* Ceph, Longhorn, OpenEBS, Portworx                                       *)

\* fetchLists, and again in the older version when nothing came of the newer.
ListsRead ==
    LET driver == storage.driver
        up == {s \in DOMAIN Shows[driver] : Up(s)}
        newer == IF storage.old THEN up \ Custom[driver] ELSE up
    IN  IF newer \cap Custom[driver] = {} THEN up ELSE newer

\* selectedMetricsProfile: by context, for any context.
MetricsProfile(profiles) ==
    LET here == ForContext(profiles, "here")
    IN  Selected(profiles, IF here # {} THEN here ELSE ForContext(profiles, "*"))

\* discoverStorageMetricEndpoints and the candidates of loadMetrics
Candidates ==
    LET all == EndpointsWith(MetricsProfile(agent.profiles))
    IN  SubSeq(all, 1, IF Len(all) < MaxCandidates THEN Len(all) ELSE MaxCandidates)

\* loadMetrics: the first that answers, or all that do.
Aggregate == storage.driver \in {"openebs", "portworx"}

MetricsRead ==
    LET answers == {i \in DOMAIN Candidates : Up(Candidates[i])}
    IN  {Candidates[i] : i \in IF Aggregate \/ answers = {} THEN answers ELSE {First(answers)}}

MetricsFailed ==
    {Candidates[i] : i \in {i \in DOMAIN Candidates :
        ~Up(Candidates[i]) /\ (Aggregate \/ \A j \in 1..i : ~Up(Candidates[j]))}}

ShownByLists == (UNION {Shows[storage.driver][s] : s \in ListsRead}) \cap storage.faults

ShownByMetrics == (UNION {FaultsAt(ClusterOf[e]) \cap PartOf[e] : e \in MetricsRead}) \cap Exported[storage.driver]

\* There is something to be healthy: an object that tells, or a row of an exporter.
Detected ==
    \/ ListsRead \ {"replicas", "storageclasses"} # {}
    \/ storage.driver # "longhorn" /\ MetricsRead # {}

\* Read are the lists and the exporters; what follows from them is the driver's.
Adapter(rules, partial, errors) ==
    [NoOverview EXCEPT
        !.status = StatusOf(rules, ShownByLists \cup ShownByMetrics, Detected),
        !.of = {ClusterOf[e] : e \in MetricsRead} \cup (IF ListsRead = {} THEN {} ELSE {"here"}),
        !.from = IF MetricsRead # {} THEN "exporter" ELSE "lists",
        !.partial = partial, !.errors = errors]

\* Ceph and Longhorn drop the errors of their exporters.
Ceph == Adapter(CephRules, FALSE, {})

Longhorn == Adapter(LonghornRules, FALSE, {})

\* No exporter answered, and there is something for one to tell about.
OpenEbs == Adapter(OpenEbsRules, MetricsFailed # {} /\ MetricsRead = {} /\ ListsRead # {}, MetricsFailed)

Portworx == Adapter(PortworxRules, MetricsFailed # {} /\ MetricsRead = {} /\ ListsRead # {}, MetricsFailed)

-----------------------------------------------------------------------------
\* External: how an agent may be set up. Alone with one cluster, its host belongs to that one.
Setups ==
    {a \in [enabled : BOOLEAN, cli : BOOLEAN, host : {"here", "there"},
            contexts : {{"here"}, {"here", "there"}}, profiles : Profiles] : a.host \in a.contexts}

\* External: a backend with at most one fault, of which some sources do not answer.
Backends(driver) ==
    LET down == {d \in SUBSET Sources(driver) : Cardinality(d) =< MaxDown}
    IN  [driver : {driver}, old : IF driver \in {"longhorn", "openebs"} THEN BOOLEAN ELSE {FALSE},
         faults : {{}} \cup {{f} : f \in FaultsOf(driver)}, down : down,
         blank : IF driver = "vitastor" THEN {{}} \cup {{e} : e \in DOMAIN ClusterOf} ELSE {{}}]

Init ==
    /\ agent \in Setups /\ overview = NoOverview
    /\ storage \in UNION {Backends(driver) : driver \in Drivers}
    /\ storage.driver # "vitastor" => \A i \in DOMAIN agent.profiles : agent.profiles[i].cluster = ""

\* loadLocalStorageDriverOverview
OverviewOf(driver) ==
    CASE driver = "vitastor" -> Vitastor
      [] driver = "ceph" -> Ceph
      [] driver = "longhorn" -> Longhorn
      [] driver = "openebs" -> OpenEbs
      [] driver = "portworx" -> Portworx

Overview ==
    /\ overview' = IF ~agent.enabled \/ storage.driver = "other" THEN NoOverview ELSE OverviewOf(storage.driver)
    /\ UNCHANGED <<agent, storage>>

Next == Overview

Spec == Init /\ [][Next]_vars

-----------------------------------------------------------------------------
TypeOK ==
    /\ agent \in Setups
    /\ overview.status \in {"unknown", "healthy", "warning", "critical"} /\ overview.partial \in BOOLEAN
    /\ overview.from \in {"nothing", "cli", "etcd", "lists", "exporter"}
    /\ overview.of \subseteq {"here", "there"}

\* Nothing of another cluster's backend is shown, whatever was found, failed or answered with
\* nothing (storage-drivers.js:227-241, :651-705), but in two cases: what an endpoint of a
\* profile for every context says, and what the CLI of the host says of a cluster that a
\* profile names, which may be another than the host's (see HostMetricsAreOwn).
OwnBackendOnly ==
    LET profile == IF storage.driver = "vitastor" THEN VitastorProfile(agent.profiles)
                   ELSE MetricsProfile(agent.profiles)
        said == IF profile = NoProfile THEN {}
                ELSE IF ForAny(profile) THEN {ClusterOf[e] : e \in Range(profile.endpoints)}
                ELSE IF overview.from = "cli" THEN {agent.host} ELSE {}
    IN  overview.of \subseteq {"here"} \cup said

\* docs/configuration.md:134, "This prevents host-local metrics from being attributed to another
\* context": what the CLI of the host said is shown of the host's own cluster only.
HostMetricsAreOwn == overview.from = "cli" => agent.host = "here"

\* A backend is not called healthy against a source that was there to be read: a command of
\* the CLI, any etcd, a list of either version, any exporter that is a candidate.
HealthyIsSo ==
    LET driver == storage.driver
        lists == DOMAIN Shows[driver] \ storage.down
        shown == IF overview.from = "cli" THEN Shows.vitastor.status
                 ELSE IF overview.from = "etcd" THEN EtcdShows
                 ELSE (UNION {Shows[driver][s] : s \in lists})
                        \cup (IF Aggregate THEN UNION {PartOf[e] \cap Exported[driver] :
                                                         e \in Range(Candidates) \ storage.down}
                              ELSE {})
    IN  overview.status = "healthy" /\ overview.of = {"here"} => storage.faults \cap shown = {}
=============================================================================
