----------------------------- MODULE Inventory -----------------------------
(***************************************************************************)
(* What the local runtime says of the cluster when part of it cannot be    *)
(* read: the loaders of agent/src/kube.js and of src/shared that answer    *)
(* the views.  A loader asks the Kubernetes API for several lists at once, *)
(* each of which may come back whole, cut by the page limit, missing (the  *)
(* kind is not installed) or not at all (denied, failed); it then throws,  *)
(* or answers with what it has, saying or not saying that the answer is    *)
(* partial.  What the records hold is left out, but for one view: the      *)
(* cleanup findings say that nothing uses an object, so what could use it, *)
(* and whether the load looked there, is modelled.                         *)
(*                                                                         *)
(* One step is one load.  A list read through another loader (the services *)
(* of domain health, the component inventory of the VIP view) counts as    *)
(* cut when that loader's answer is partial.                               *)
(***************************************************************************)
EXTENDS FiniteSets, Naturals

CONSTANT Scopes   \* the scopes a reader asks for: "all", or one namespace

\* What is asked of the constants; who instances the module assumes it.
InventoryAssumption == "all" \in Scopes

VARIABLES view,      \* the view asked for last
          scope,     \* for which scope
          outcome,   \* what became of each list it reads
          user,      \* the object that uses the candidate for cleanup
          answer     \* what the reader was given

vars == <<view, scope, outcome, user, answer>>

Outcomes == {"whole", "cut", "missing", "failed"}

-----------------------------------------------------------------------------
(* What a loader does with its lists.  "needed": the load fails with it.   *)
(* "either": the load fails when all of them do.  "told", "toldCut": the   *)
(* lists whose failure, whose truncation, makes the answer partial.        *)
(* "optional": a kind that need not be installed.  "unsaid": shown as far  *)
(* as it was read, without a word when that is not all.                    *)

SectionsCutUnseen(lists) ==
    [reads |-> lists, needed |-> {}, either |-> lists,
     told |-> lists, toldCut |-> {}, optional |-> {}, unsaid |-> {}]

Sections(lists) ==
    [reads |-> lists, needed |-> {}, either |-> lists,
     told |-> lists, toldCut |-> lists, optional |-> {}, unsaid |-> {}]

Required(lists) == [Sections(lists) EXCEPT !.needed = lists, !.either = {}]

Around(needed, lists) == [Sections(needed \cup lists) EXCEPT !.needed = needed, !.either = {}]

Each(lists) == [Sections(lists) EXCEPT !.either = {}]

Extra(shape, lists) == [shape EXCEPT !.reads = @ \cup lists, !.unsaid = @ \cup lists]

CutUnsaid(shape, lists) == [shape EXCEPT !.toldCut = @ \ lists, !.unsaid = @ \cup lists]

Optional(shape, lists) == [shape EXCEPT !.optional = @ \cup lists]

\* What is read as one object has no pages to be cut.
Single == {"version", "crd", "counts", "pod", "object", "configmap", "job", "log", "coredns", "meshconfig",
           "summaries"}

Capability == Each({"version"})

Overview == Required({"version", "namespaces", "nodes", "deployments", "statefulsets", "daemonsets", "pods"})

NamespaceList == Required({"namespaces"})

Nodes == Required({"nodes"})

NamespaceSummary ==
    Optional(Each({"namespaces", "pods", "nodes", "podmetrics", "counted"}), {"podmetrics", "counted"})

\* The number of objects of a kind is null when it cannot be counted; a workload
\* list that cannot be read leaves its workloads out.
ComponentDetails == Extra(Around({"crds"}, {"counts"}), {"workloads"})

Workloads == Sections({"deployments", "statefulsets", "daemonsets", "pods"})

Services == Around({"services"}, {"endpointslices"})

PodList == Required({"pods"})

Jobs == [Sections({"jobs", "cronjobs", "pods"}) EXCEPT !.either = {"jobs", "cronjobs"}]

PodLogs == Required({"log"})

PodDns == Extra(CutUnsaid(Required({"pod", "services"}), {"services"}), {"coredns"})

PodInspect == Extra(Required({"pod"}), {"events"})

ObjectInspect == Extra(Required({"object"}), {"events"})

PodRelated == Around({"pod"}, {"configmaps", "secrets", "serviceaccounts"})

\* Every pod of the namespace is read when the label finds none; a container whose
\* log cannot be read carries the error.
JobLogs == CutUnsaid(Around({"job", "pods", "morepods"}, {"log"}), {"pods", "morepods"})

Secrets == Around({"secrets"}, {"pods", "serviceaccounts", "ingresses"})

ConfigMaps ==
    Around({"configmaps"}, {"pods", "secrets", "deployments", "statefulsets", "daemonsets", "jobs", "cronjobs"})

ConfigMapContent == Required({"configmap"})

Crds == Required({"crds"})

CrdObjects == Optional(Required({"objects"}), {"objects"})

ServiceMesh ==
    LET kinds == {"virtualservices", "destinationrules", "gateways", "serviceentries",
                  "workloadentries", "peerauthentications", "authorizationpolicies"}
    IN  Extra(Optional(Sections({"namespaces", "pods", "deployments", "services", "crds"} \cup kinds), kinds),
              {"requestauthentications", "istiod", "daemonsets", "istioingress", "meshconfig"})

ImageRisk == Required({"pods"})

Rbac == Sections({"roles", "clusterroles", "rolebindings", "clusterrolebindings", "serviceaccounts"})

Ports == Sections({"services", "endpointslices", "pods", "ingresses"})

Traffic == Sections({"services", "pods", "ingresses", "networkpolicies"})

Components ==
    Sections({"namespaces", "deployments", "statefulsets", "daemonsets", "storageclasses",
              "csidrivers", "ingressclasses", "crds", "nodes"})

Cni == Required({"components"})

Vip == Sections({"components", "configmaps", "services"})

Topology == Sections({"ingresses", "services", "endpointslices", "pods", "nodes"})

Storage ==
    Sections({"storageclasses", "persistentvolumes", "persistentvolumeclaims", "csidrivers",
              "nodes", "csinodes", "volumeattachments", "csistoragecapacities", "pods"})

\* Volume usage is sampled node by node under one deadline; the nodes that did not
\* answer before it are counted as failed.
VolumeUsage == Each({"nodes", "summaries"})

Events == CutUnsaid(Required({"events"}), {"events"})

BackupActivity == Optional(Each({"backups", "restores", "schedules"}), {"backups", "restores", "schedules"})

DeliveryResources == {"applications", "deployments", "pipelines", "sources"}

DeliveryActivity ==
    Optional(Each({"pods", "crds"} \cup DeliveryResources), {"pods", "crds"} \cup DeliveryResources)

\* Asked for one provider, the agent reads its own definition alone, if it can.
ProviderActivity ==
    Extra(Optional(Each({"pods"} \cup DeliveryResources), {"pods"} \cup DeliveryResources), {"crd"})

\* A snapshot with a list missing is never healthy.
PrometheusSnapshot ==
    Around({"namespaces", "nodes", "pods"},
           {"deployments", "statefulsets", "daemonsets", "jobs", "services", "endpointslices",
            "nodemetrics", "podmetrics"})

\* Without the metrics API the answer is partial and empty.
Metrics == Each({"nodemetrics", "podmetrics"})

CertManager == {"certificates", "orders", "challenges"}

DomainHealth == Optional([Sections({"ingresses", "services"} \cup CertManager)
                             EXCEPT !.either = {"ingresses", "services"},
                                    !.told = @ \ CertManager, !.toldCut = @ \ CertManager],
                         CertManager)

\* Pods and Secrets are read for the hygiene checks alone, and left out when they fail.
Validation ==
    LET checks == {"nodes", "workloads", "services", "storage", "components", "domainhealth",
                   "rbac", "ports", "gatewayapi"}
    IN  [Sections(checks \cup {"pods", "secrets"}) EXCEPT !.told = checks, !.toldCut = checks]

GatewayApi == Optional(Around({"crds"}, {"gateways", "routes"}), {"gateways", "routes"})

References ==
    {"pods", "deployments", "statefulsets", "daemonsets", "replicasets", "jobs", "cronjobs"}

Ghosts ==
    LET lists == References \cup
            {"services", "endpointslices", "ingresses", "persistentvolumeclaims", "configmaps", "secrets",
             "serviceaccounts", "crds", "rolebindings", "clusterrolebindings"}
    IN  [Sections(lists \cup {"providerresources"}) EXCEPT !.either = lists]

Views ==
    [capability |-> Capability, overview |-> Overview, namespaces |-> NamespaceList, nodes |-> Nodes,
     namespacesummary |-> NamespaceSummary, componentdetails |-> ComponentDetails,
     workloads |-> Workloads, services |-> Services, pods |-> PodList, jobs |-> Jobs,
     podlogs |-> PodLogs, poddns |-> PodDns, podinspect |-> PodInspect,
     objectinspect |-> ObjectInspect, podrelated |-> PodRelated, joblogs |-> JobLogs,
     secrets |-> Secrets, configmaps |-> ConfigMaps, configmapcontent |-> ConfigMapContent,
     crds |-> Crds, crdobjects |-> CrdObjects, servicemesh |-> ServiceMesh,
     imagerisk |-> ImageRisk, rbac |-> Rbac, ports |-> Ports, traffic |-> Traffic,
     components |-> Components, cni |-> Cni, vip |-> Vip, topology |-> Topology,
     storage |-> Storage, volumeusage |-> VolumeUsage, events |-> Events,
     backup |-> BackupActivity, delivery |-> DeliveryActivity,
     provider |-> ProviderActivity, prometheus |-> PrometheusSnapshot, metrics |-> Metrics, domainhealth |-> DomainHealth,
     validation |-> Validation, gatewayapi |-> GatewayApi, ghosts |-> Ghosts]

-----------------------------------------------------------------------------
(* The answer                                                              *)

\* A list that need not be there counts as read when it is missing.
Read(v, o, list) == o[list] = "whole" \/ (o[list] = "missing" /\ list \in Views[v].optional)

Lost(v, o, list) == o[list] = "failed" \/ (o[list] = "missing" /\ list \notin Views[v].optional)

Throws(v, o) ==
    LET shape == Views[v] IN
    \/ \E list \in shape.needed : Lost(v, o, list)
    \/ shape.either # {} /\ \A list \in shape.either : Lost(v, o, list)

\* cert-manager is installed, but not one of its lists is readable
CertManagerDenied(o) ==
    /\ \A list \in CertManager : o[list] \in {"failed", "missing"}
    /\ \E list \in CertManager : o[list] = "failed"

Partial(v, o) ==
    LET shape == Views[v] IN
    \/ \E list \in shape.told : Lost(v, o, list)
    \/ \E list \in shape.toldCut : o[list] = "cut"
    \/ v = "domainhealth" /\ CertManagerDenied(o)

ReferencesWithoutProviders(o) == \A list \in References : o[list] = "whole"

\* The cleanup view reports an object as unused only when every list that could
\* name it was read; "providerresources" are the resources of the installed
\* controllers, found through the CustomResourceDefinitions.
ReferencesComplete(o) ==
    /\ \A list \in References : o[list] = "whole"
    /\ o["crds"] = "whole" /\ o["providerresources"] = "whole"

\* The kinds of what may be unused.
Kinds == {"ConfigMap", "Secret", "ServiceAccount"}

Covered(o) ==
    {kind \in Kinds :
        /\ ReferencesComplete(o)
        /\ kind \in {"ConfigMap", "Secret"} => o["configmaps"] = "whole"
        /\ kind = "Secret" =>
              \A list \in {"secrets", "serviceaccounts", "ingresses"} : o[list] = "whole"
        /\ kind = "ServiceAccount" =>
              \A list \in {"serviceaccounts", "rolebindings", "clusterrolebindings"} : o[list] = "whole"}

\* What can name an object of each kind where the collectors look, and what can do so
\* from another namespace.
Namers ==
    [ConfigMap |-> References,
     Secret |-> References \cup {"serviceaccounts", "ingresses", "providerresources"},
     ServiceAccount |-> References \cup {"rolebindings", "clusterrolebindings", "providerresources"}]

FromElsewhere ==
    [ConfigMap |-> {}, Secret |-> {"providerresources"},
     ServiceAccount |-> {"rolebindings", "clusterrolebindings"}]

\* Where no collector looks: a resource of a controller that REFERENCE_PROVIDER_CRDS does
\* not name (an Istio Gateway's credentialName), a field that is not read (the secrets of
\* an ACME issuer's solvers), a kind that is not listed (the secrets of a CSI volume).
Uncollected == "uncollected"

Users == [kind : Kinds,
          list : References \cup {"serviceaccounts", "ingresses", "rolebindings", "clusterrolebindings",
                                "providerresources", Uncollected},
          place : {"here", "elsewhere"}]

\* A user in the asked namespace is seen with its list; one elsewhere only when
\* the list is not restricted to the asked namespace; one nobody looks for never.
Sees(s, o, u) ==
    /\ u.list # Uncollected /\ o[u.list] = "whole"
    /\ u.place = "here" \/ s = "all" \/ u.list = "clusterrolebindings"

Unused(v, s, o, u) == IF v = "ghosts" /\ u.kind \in Covered(o) /\ ~Sees(s, o, u) THEN {u.kind} ELSE {}

Answer(v, s, o, u) ==
    IF Throws(v, o)
    THEN [state |-> "thrown", partial |-> FALSE, unused |-> {}]
    ELSE [state |-> "given", partial |-> Partial(v, o), unused |-> Unused(v, s, o, u)]

-----------------------------------------------------------------------------
TypeOK ==
    /\ view \in DOMAIN Views
    /\ scope \in Scopes
    /\ outcome \in [Views[view].reads -> Outcomes]
    /\ user \in Users
    /\ answer \in [state : {"none", "asked", "thrown", "given"}, partial : BOOLEAN,
                   unused : SUBSET Kinds]

Nobody == [kind |-> "ConfigMap", list |-> "pods", place |-> "here"]

NoAnswer == [state |-> "none", partial |-> FALSE, unused |-> {}]

Init ==
    /\ view = "overview"
    /\ scope = "all"
    /\ outcome = [list \in Views["overview"].reads |-> "whole"]
    /\ user = Nobody
    /\ answer = NoAnswer

Ask ==
    /\ answer.state = "none"
    /\ view' \in DOMAIN Views
    /\ scope' \in Scopes
    /\ outcome' = [list \in Views[view'].reads |-> "whole"]
    /\ answer' = [answer EXCEPT !.state = "asked"]
    /\ UNCHANGED user

\* At most two lists of one load are not read whole.
Possible(v) ==
    {[list \in Views[v].reads |-> IF list = a THEN x ELSE IF list = b THEN y ELSE "whole"] :
        a, b \in Views[v].reads, x, y \in Outcomes}

Candidates(v) ==
    IF v = "ghosts"
    THEN {u \in Users : /\ u.list \in Namers[u.kind] \cup {Uncollected}
                        /\ u.place = "elsewhere" => u.list \in FromElsewhere[u.kind]}
    ELSE {Nobody}

Load ==
    /\ answer.state = "asked"
    /\ \E o \in Possible(view) :
        /\ \A list \in Single \cap DOMAIN o : o[list] # "cut"
        /\ outcome' = o
        /\ \E u \in Candidates(view) :
            /\ user' = u
            /\ answer' = Answer(view, scope, o, u)
    /\ UNCHANGED <<view, scope>>

\* The reader has its answer.
Deliver ==
    /\ answer.state \in {"thrown", "given"}
    /\ view' = "overview"
    /\ scope' = "all"
    /\ outcome' = [list \in Views["overview"].reads |-> "whole"]
    /\ user' = Nobody
    /\ answer' = NoAnswer

Next ==
    \/ Ask
    \/ Load
    \/ Deliver

Spec == Init /\ [][Next]_vars

-----------------------------------------------------------------------------
(* Properties                                                              *)

Clean == answer.state = "given" /\ ~answer.partial

\* An answer without a word of what is missing was made from lists read whole, but
\* for the lists a view shows only when it can.  Domain health and validation are left
\* out: they say nothing of cert-manager lists, pods and secrets that failed.
\* (agent/src/kube.js:742, settledSection)
NeverCleanWhenCut ==
    Clean /\ view \notin {"domainhealth", "validation"} =>
        \A list \in DOMAIN outcome \ Views[view].unsaid : Read(view, outcome, list)

\* Asked for every namespace, the cleanup view never reports an object that is used by
\* what the collectors look for, whichever lists were cut, denied or missing: one list
\* that may name the object and was not read whole withholds the finding
\* (agent/src/kube.js:3324-3337).
CleanupIsVerified == scope = "all" /\ user.list # Uncollected => answer.unused = {}

\* The cleanup view never reports an object that is in use: "cleanup findings are emitted
\* only when the agent can verify workload, RBAC, and installed-controller references"
\* (README.md:129).
CleanupIsAlwaysVerified == answer.unused = {}
=============================================================================
