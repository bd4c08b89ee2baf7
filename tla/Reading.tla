------------------------------- MODULE Reading -------------------------------
(***************************************************************************)
(* The parts of the agent that read, and keep what its readers are shown,  *)
(* side by side.  They share no state but a clock: a behaviour is one of   *)
(* the part in focus, the others rest in an initial state.                 *)
(***************************************************************************)
EXTENDS Integers, Sequences

CONSTANTS
    \* of PrometheusExporter
    Contexts, Allowlist, MaxCollections,
    \* of KubeTransport
    MaxPages, MaxBytes, MaxChunks,
    \* of PostureCollection
    Stages, Lists, Length, Sizes, Lanes, PosturePages, PostureBytes, MaxReadBytes,
    \* of ContextSelection
    Documents, Unreadable, Places, Selectors, AnyCluster, TTL, MaxVersion,
    \* of Inventory
    Scopes,
    \* of CiProviders
    Providers, Projects, Children, Histories, PageSize, MaxRuns, CiPages, MaxDetails, MaxJobs, MaxDepth,
    Destinations,
    \* of TimelineStore
    Targets, Identities, NamespaceOf, Readers, Batches, Retentions, Limit, MaxTargetRows, MaxTotalRows,
    MaxSequence,
    \* of ContextSelection and TimelineStore
    MaxClock,
    \* of TimelineEvents
    MaxRestarts, MaxCount,
    \* of NetworkPosture
    Pods, Namespaces, Policies,
    \* of AutoscalingCollection
    Clusters, AutoscalingScopes, AutoscalingPageSize, AutoscalingPages,
    \* of StorageDrivers
    Profiles, Discovered, ClusterOf, PartOf, MaxCandidates, MaxDown

VARIABLES focus, clock,
    server, collecting, begun, collection, reached, scraped,
    options, pages, list, request,
    stage, lane, pending, budget, overdue, report, accepted,
    source, version, validated, chosen,
    view, scope, outcome, user, answer,
    provider, history, todo, now, loaded, queued, issues, visited, details, call, phase, requests, contacted,
    events, state, meta, task, left, inserted, reader,
    kind, object, baseline, shown,
    policies, posture,
    cluster, asked, sources, inventory,
    agent, storage, overview

exVars == <<server, collecting, begun, collection, reached, scraped>>
trVars == <<options, pages, list, request>>
poVars == <<stage, lane, pending, budget, overdue, report, accepted>>
coVars == <<source, version, validated, chosen>>
inVars == <<view, scope, outcome, user, answer>>
ciVars == <<provider, history, todo, now, loaded, queued, issues, visited, details, call, phase, requests, contacted>>
stVars == <<events, state, meta, task, left, inserted, reader>>
evVars == <<kind, object, baseline, shown>>
neVars == <<policies, posture>>
auVars == <<cluster, asked, sources, inventory>>
drVars == <<agent, storage, overview>>
derived == <<evVars, neVars, auVars, drVars>>
vars == <<focus, clock, exVars, trVars, poVars, coVars, inVars, ciVars, stVars, derived>>

-----------------------------------------------------------------------------
Exporter == INSTANCE PrometheusExporter

Transport == INSTANCE KubeTransport

Posture == INSTANCE PostureCollection WITH MaxPages <- PosturePages, MaxBytes <- PostureBytes

Selection == INSTANCE ContextSelection

Loaders == INSTANCE Inventory

Ci == INSTANCE CiProviders WITH MaxPages <- CiPages, Places <- Destinations

Store == INSTANCE TimelineStore

Events == INSTANCE TimelineEvents

Network == INSTANCE NetworkPosture

Autoscaling == INSTANCE AutoscalingCollection WITH
    Scopes <- AutoscalingScopes, PageSize <- AutoscalingPageSize, MaxPages <- AutoscalingPages,
    scope <- asked, source <- sources, report <- inventory

Backend == INSTANCE StorageDrivers

ASSUME PartsAssumption ==
    /\ Exporter!ExporterAssumption /\ Transport!BoundAssumption /\ Posture!BoundAssumption
    /\ Selection!DocumentAssumption /\ Loaders!InventoryAssumption /\ Ci!LimitAssumption
    /\ Store!StoreAssumption /\ Events!TimelineEventsAssumption /\ Network!NetworkAssumption
    /\ Autoscaling!CollectionAssumption /\ Backend!DriverAssumption

Some(S) == CHOOSE x \in S : TRUE

-----------------------------------------------------------------------------
Init ==
    /\ focus \in {"exporter", "transport", "posture", "selection", "loaders", "ci", "store",
                "events", "network", "autoscaling", "storage"}
    /\ Exporter!Init
    /\ Transport!Init
    /\ focus = "transport" \/ (pages = 1 /\ \A o \in DOMAIN options : ~options[o])
    /\ Posture!Init
    /\ Selection!Init /\ (focus = "selection" \/ \A p \in DOMAIN source : source[p] = Unreadable)
    /\ Loaders!Init
    /\ Ci!Init /\ (focus = "ci" \/ (provider = Some(Providers) /\ \A j \in DOMAIN history : history[j] = Some(Histories)))
    /\ Store!Init
    /\ Events!Init /\ (focus = "events" \/ kind = "pod")
    /\ Network!Init
    /\ Autoscaling!Init /\ (focus = "autoscaling" \/ (cluster = Some(Clusters) /\ asked = Some(AutoscalingScopes)))
    /\ IF focus = "storage" THEN Backend!Init ELSE agent = "idle" /\ storage = "idle" /\ overview = "idle"

Next ==
    /\ UNCHANGED focus
    /\ \/ /\ focus = "exporter" /\ Exporter!Next
          /\ UNCHANGED <<clock, trVars, poVars, coVars, inVars, ciVars, stVars, derived>>
       \/ /\ focus = "transport" /\ Transport!Next
          /\ UNCHANGED <<clock, exVars, poVars, coVars, inVars, ciVars, stVars, derived>>
       \/ /\ focus = "posture" /\ Posture!Next
          /\ UNCHANGED <<clock, exVars, trVars, coVars, inVars, ciVars, stVars, derived>>
       \/ /\ focus = "selection" /\ Selection!Next
          /\ UNCHANGED <<exVars, trVars, poVars, inVars, ciVars, stVars, derived>>
       \/ /\ focus = "loaders" /\ Loaders!Next
          /\ UNCHANGED <<clock, exVars, trVars, poVars, coVars, ciVars, stVars, derived>>
       \/ /\ focus = "ci" /\ Ci!Next
          /\ UNCHANGED <<clock, exVars, trVars, poVars, coVars, inVars, stVars, derived>>
       \/ /\ focus = "store" /\ Store!Next
          /\ UNCHANGED <<exVars, trVars, poVars, coVars, inVars, ciVars, derived>>
       \/ /\ focus = "events" /\ Events!Next
          /\ UNCHANGED <<clock, exVars, trVars, poVars, coVars, inVars, ciVars, stVars, neVars, auVars, drVars>>
       \/ /\ focus = "network" /\ Network!Next
          /\ UNCHANGED <<clock, exVars, trVars, poVars, coVars, inVars, ciVars, stVars, evVars, auVars, drVars>>
       \/ /\ focus = "autoscaling" /\ Autoscaling!Next
          /\ UNCHANGED <<clock, exVars, trVars, poVars, coVars, inVars, ciVars, stVars, evVars, neVars, drVars>>
       \/ /\ focus = "storage" /\ Backend!Next
          /\ UNCHANGED <<clock, exVars, trVars, poVars, coVars, inVars, ciVars, stVars, evVars, neVars, auVars>>

Spec == Init /\ [][Next]_vars

-----------------------------------------------------------------------------
(* Each part is looked at while it is in focus: at rest it stays in one of   *)
(* its initial states.                                                       *)

\* The type invariants of the parts.
AllTypeOK ==
    /\ focus = "exporter" => Exporter!TypeOK
    /\ focus = "transport" => Transport!TypeOK
    /\ focus = "posture" => Posture!TypeOK
    /\ focus = "loaders" => Loaders!TypeOK
    /\ focus = "ci" => Ci!TypeOK
    /\ focus = "store" => Store!TypeOK
    /\ focus = "events" => Events!TypeOK
    /\ focus = "network" => Network!TypeOK
    /\ focus = "autoscaling" => Autoscaling!TypeOK
    /\ focus = "storage" => Backend!TypeOK

\* See ContextSelection, Inventory and KubeTransport.
SelectionIsAuthorized == focus = "selection" => Selection!SelectionIsAuthorized
CleanupIsVerified == focus = "loaders" => Loaders!CleanupIsVerified
NothingLeftBehind == focus = "transport" => Transport!NothingLeftBehind

\* Who follows the Timeline misses no event that still exists, and no change between two polls
\* that its sanitized texts tell apart.
ReaderMissesNothing ==
    /\ focus = "store" => Store!ReaderMissesNothing
    /\ focus = "events" => Events!ChangesAreTold

\* What is derived from what was read agrees with the cluster, also when only a part was
\* read: who may talk to whom, what is missing and what is needed, and whose backend is well.
ReportsAreTrue ==
    /\ focus = "network" => Network!PostureIsTrue
    /\ focus = "autoscaling" => Autoscaling!MissingIsMissing /\ Autoscaling!CapacityAddsUp
    /\ focus = "storage" => Backend!OwnBackendOnly /\ Backend!HealthyIsSo

\* See TimelineStore.
OldestGoFirst == Store!OldestGoFirst

\* See Inventory, CiProviders and StorageDrivers; what the code does violates these.
CleanupIsAlwaysVerified == Loaders!CleanupIsAlwaysVerified
NewestAreLoaded == Ci!NewestAreLoaded
HostMetricsAreOwn == focus = "storage" => Backend!HostMetricsAreOwn

\* What is given without a word of what is missing lacks nothing.
NeverCleanWhenCut ==
    /\ focus = "exporter" => Exporter!NeverCleanWhenCut
    /\ focus = "transport" => Transport!NeverCleanWhenCut
    /\ focus = "posture" => Posture!NeverCleanWhenCut
    /\ focus = "loaders" => Loaders!NeverCleanWhenCut
    /\ focus = "ci" => Ci!NeverCleanWhenCut
    /\ focus = "autoscaling" => Autoscaling!NeverCleanWhenCut

\* A posture collection and a CI load stay within their limits, an answer of the Timeline
\* store leaves its files within theirs.
CollectionIsBounded ==
    /\ focus = "posture" => Posture!CollectionIsBounded
    /\ focus = "ci" => Ci!CollectionIsBounded
    /\ focus = "store" => Store!QuotaHolds
=============================================================================
