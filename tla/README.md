# KUBI agent in TLA+

The KUBI agent (`agent/src`, `src/shared`, `src/cluster-runtime`) is the process a customer runs beside a
Kubernetes cluster. It holds one outbound WebSocket to the KUBI control plane, answers read-only requests about
the cluster that come over it or over a loopback HTTP server, records a Timeline of what changes in the cluster,
watches alerting rules, samples usage and exports metrics. It is one JavaScript event loop and one worker thread;
what is hard about it is the order in which callbacks, timers, answers, failures and restarts come.

This directory holds TLA+ modules translated from that code, TLC configurations that check them on small
instances, and TLAPS proofs for all instances. `PROJECT.json` is the index: components, runs, the lines each
definition models, the mutants that show that each property can fail, hazards, findings and theorems.

## 1. Inventory

| Component | State it keeps | Operations | Interacts with |
|---|---|---|---|
| Hosted relay client, `relay.js` | the current socket, three timers, backoff, `awaitingPong`, closed/started | `start`, `close`, socket events, timer callbacks, `runCommand`/`respond` | `ws`, the control plane's relay, the loopback server's `dispatch`, metrics through `onStatus` |
| Timeline manager and collectors, `timeline/index.js` | map of collectors; per collector: timer, running, stopped, baseline | `applyDesiredConfig` (every heartbeat), `start`, `schedule`, `stop`, `collect`, `close` | the Kubernetes API, the Timeline store, heartbeats of `cli.js` |
| Timeline store client, `timeline/store.js` | pending requests with timers, closed, fatal | `request` (append, list, ...), `close`, worker messages and errors | a worker thread, by messages |
| Timeline store worker, `timeline/store-worker.js` | one SQLite file per target: events, one baseline, sequence, retention | append, list, stats, detail, getState, saveState, prune, quota enforcement | files |
| Timeline reducers, `timeline/events.js` | none | object pair to events | |
| CI pipelines cache, `ci/index.js` | per instance: cached value, in-flight request | `loadLocalCiPipelines`, `loadInstance` | GitHub, GitLab, Jenkins through `ci/http.js` |
| Loopback server, `server.js` | introspection caches, in-flight introspections | `dispatch`: origin, token, selector, endpoint | control plane, every loader |
| Agent process, `cli.js`, `task-runner.js`, `control-plane.js` | discovery and metrics state, coalesced tasks | pair, run (heartbeat, discovery, shutdown), rotate | all of the above |
| CI provider clients, `ci/http.js`, `github-actions.js`, `gitlab-ci.js`, `jenkins.js` | budgets of one load | page walks, redirects, the Jenkins traversal | GitHub, GitLab, Jenkins |
| Policy posture, `policy-posture*.js` | summary cache per transport and namespace; budget, deadline and outstanding requests of one collection | `collectPolicyPosture`, the analyzers | Kubernetes API |
| Autoscaling, `autoscaling-capacity.js`, `cloud-autoscaling.js` | summary cache per scope, cloud cache per context | `collectAutoscalingCapacity`, `loadCloudAutoscaling` | Kubernetes API, cloud APIs |
| Storage drivers, `storage-drivers.js`, `storage-provider-adapters.js` | none | `loadLocalStorageDriverOverview` and its providers | the host's CLI, etcd, exporters, Kubernetes API |
| Usage history, `usage-history.js` | one sampler per context: samples, timer, in-flight flag | `read`, `close`, ticks | metrics API |
| Alerting, `alerting.js` | per manager: timer, active alerts, cooldowns, history; two files | `scan`, `deliver`, `saveConfig`, `test` | Kubernetes API, channels, files |
| Prometheus exporter, `metrics-exporter.js` | last collection, coalesced collection | `collect`, `start`, `close` | loaders |
| Kubernetes transport and lists, `kube.js` 100-326 | one request's settlement | `requestKubeApi`, `fetchKubeJson`, `fetchKubeList` | API server |
| Kubeconfig discovery and selection, `kube.js` 870-1325 | validated kubeconfig cache | `scanLocalAccessDiscovery`, `resolveAgentRuntimeConfigForSelector` | files |
| Loaders (`kube.js`, `src/shared`) | none | one load of several lists | Kubernetes transport |
| Relationship runtime and other analyzers | none | pure functions of API objects | |
| Configuration, logger, installers | files | validation, download and replace | |

What makes each correct, and where it is hard:

- **Relay.** One connection at a time; it is always watched; it always comes back unless the identity was
  rejected or `close()` was called; an answer goes to who asked. Hard: a request outlives the connection it came
  on; `message`, `pong`, `close` and three timers come in any order; a half-open connection sends nothing.
- **Timeline collector.** Every difference is recorded before the baseline moves past it; nothing is invented
  (existing inventory never looks new, what could not be read never looks deleted), nothing is replayed; an enabled
  target is polled for ever and a disabled one falls silent. Hard: sources fail one by one, appends are batched and
  fail half way, a store operation reported as failed may have been executed, `stop()` interrupts nothing, and a
  restart resumes an older baseline.
- **CI cache, and the other caches.** One request at a time, bounded staleness, failures remembered for as long as
  the provider asked, and everyone who waits is answered. Hard: time is read before a wait and used after it.
- **Store client.** A request settles exactly once; late answers change nothing; close drains.
- **Loopback server.** What reaches a provider was let through for it by a token that is still good, up to a bounded
  time. Hard: introspections are shared, cached, expire, are evicted and race with revocation; a legacy MCP token looks
  like a runtime token and is asked about twice.
- **Timeline store worker.** One row per event, counters that never lie, quotas and retention that take the oldest, and
  a reader who pages and follows misses nothing that still exists. Hard: events that are repeated move, rows are
  evicted between two pages, and the process dies between two transactions.
- **Agent process.** One heartbeat, one discovery; what the control plane decided last is what runs. Hard: heartbeats
  fail, take long, and are overtaken by a shutdown.
- **Alerting.** A condition is reported once per cooldown, counted from scan to scan, and history survives. Hard: timers, reconfiguration
  during a scan, several managers on one file.
- **What reads a cluster** (transport, loaders, posture, CI clients, autoscaling, storage, exporter). What is given as
  whole is whole, what is said to be missing is missing, limits hold. Hard: any list may fail, be cut or not exist, and
  many partial answers meet in one report; requests outlive their deadlines.
- **Kubeconfig selection.** A session gets the cluster it was authorized for. Hard: sources change while a validated
  configuration is cached.

## 2. Plan

Every component of the inventory that keeps state has its module, and so have the readers that could tell something
untrue. What is built, in the order it was planned:

1. the core: `Relay`, `TimelineCollector`, `TimelineStoreClient`, `CiCache`, with their proofs;
2. the abstract specification `SharedLoad`, and the caches and coalesced tasks that implement it: `LoopbackServer`,
   `PostureCache`, `AutoscalingCache`, `AgentProcess`;
3. the rest of what keeps state: `TimelineStore`, `UsageHistory`, `Alerting`, `PrometheusExporter`;
4. what reads: `KubeTransport`, `ContextSelection`, `Inventory`, `PostureCollection`, `CiProviders`, `TimelineEvents`,
   `NetworkPosture`, `AutoscalingCollection`, `StorageDrivers`;
5. the compositions `Serving`, `Running` and `Reading`, and proofs about each of them.

Left:

- a theorem that the collector implements the order of `TimelineStoreClient` it relies on, now argued in section 3;
- a second abstract specification, "a request settles once", for the store client and the transport;
- the analyzers without state that section 7 lists.

## 3. Modules

### Relay (`relay.js`)

One action per callback: `Start`, `Close`, `ReconnectTimerFires`, `ReadyTimerFires`, `WatchdogPings` and
`WatchdogTerminates` (the two outcomes of one interval tick), `Open`, `Ready`, `Request`, `Respond`, `Pong`,
`CloseEvent`. The helpers `Connect`, `ScheduleReconnect`, `ClearSocketTimers`, `ConnectionLost` are the functions of
those names. Handles and pending timers are kept apart (`readyTimer` against `readyArmed`, `livenessTimer` against
`livenessArmed`), because the code can overwrite a handle without clearing its timer; that is what `TimersHeld` is
about. Of package `ws` we assume what `relay.js` uses: events of one socket come in order, messages and pongs that
had arrived may still be handled after `terminate()` or `close()`, and `close` comes once at the end. A server may
accept, acknowledge, request, reject, close, or vanish without a word. Timers have no clock, so jitter is nothing; a
closed socket object nothing refers to stands for a new one, so runs are unbounded.

`Fairness` is that of the client's own timers and of `ws` reporting the end of a connection. `HalfOpenDetected`
assumes nothing of the server. `ReconnectsAutomatically` adds `ServiceReturns`: a connection tried again and again is
accepted some day, and a hello sent again and again is acknowledged; strong fairness, because attempts come and go.

### TimelineCollector (`timeline/index.js`, parts of `store-worker.js` and `events.js`)

The state of a cluster object is how often it was updated (`version`) and whether it is gone. A snapshot gives each
object a mark: its version, `Absent` (its source was read and does not list it), `NoSource` (its source was not read,
or the CRDs were not), or `Stripped` (the stored copy is none of its versions, because `sanitizeState` drops fields it
does not know, redacts what looks like a secret and cuts long text). Which versions the store alters that way is the
constant `Altered`, any set: a delivery object always loses its health, a core object may have a text redacted.
`Reduce` is `reduceTimelineSnapshot`; `Visible` is the window of `listSource`; `Sanitize` is `sanitizeState`. A
collector goes through `restoring`, `listing`, `appending`, `saving`, `idle`, one phase for each await; between any two
of its steps the cluster changes, heartbeats enable, disable or repair it, and the process restarts. `AppendFails` and
`SaveFails` let the operation be executed or not, because a request that timed out is still in the worker's queue; the
queue is first in first out (`InOrder` of `TimelineStoreClient`), so executing it at the moment it is reported is as
good as later.

A heartbeat that finds a collector in `restoring` is left out: the heartbeat that started it waits for `prune`, which
is behind `getState` in the same queue. A poll reads each source at one moment. Log excerpts, gap counters and status
texts are left out. `current` is the collector in the manager's map; a collector that was stopped and has finished
stands for the next `new TargetCollector`. Events are a set: the store deduplicates by an id made of the same data.

`settled` is an observation and is read by no action. Fairness: heartbeats come (`cli.js`, every 30 s),
timers fire, and an await ends by itself, by the cycle deadline of 45 s or by the store timeout of 15 s.

### TimelineStoreClient (`timeline/store.js`, the message loop of `store-worker.js`)

`stage` is where `createTimelineStore()` and `close()` are: `opening` while `init` is awaited, `open`, `draining` while
the close request is awaited, `terminating`, `closed`. The code's `closed` is every stage from `draining` on, and
`terminating` after a failed `init`. Request 1 is `init`; ids count up, and since both message ports deliver in order a
port is the set of the ids in it. A request refused at once (fatal, closed, full, malformed, too large) changes nothing
and is no step. `TimerFires`, `HandleMessage` and `Fail` are the three ways a caller is told something. The worker
handles one message at a time and answers it in any case (`Handles`); it may die at any moment (`Crash`), before or after
it sent an answer, and its `exit` or `error` event (`Fail`) may come late, so that requests are still posted to a dead
worker. `postMessage` of a string does not throw, so that error path is left out. `maxQueue` bounds the callers that
wait, not the backlog of the worker: requests that timed out are still in `inbox`. `handled` and `crashed` are
observations. Fairness: timers fire and the promises of `terminate()` and `await` go on; nothing is assumed of the
worker or of its events.

### CiCache (`ci/index.js`)

One provider instance and several calls. `Call` takes `now`; `Hit`, `Join` and `Load` are the three ways through
`loadInstance`, at any later time (a call waits for a slot among three); `Succeed`, `FailShowingStale` and
`FailWithNothing` are the three ends of `loadInstanceUncached`, each with what all waiting readers are given. `retryAt`
is an observation: when the provider may be asked again. The clock ticks up to `MaxClock`. Parsing, merging over
instances and the size of a response are left out. Fairness: the HTTP client has a timeout; the event loop runs.

### SharedLoad, the abstract specification

Its state is `loads`, the keys being loaded, and `waiting`, who waits for which. A reader starts a load or joins the one
in flight (`Wait`), and the end of a load, well or badly, releases everyone who waited (`Finish`). It says what the comments
of four different pieces of code say in their own words: `ci/index.js`, `pendingIntrospection` of `server.js`,
`policy-posture.js` and `coalesceAsyncTask`. Each of `CiCache`, `LoopbackServer`, `PostureCache` and `AgentProcess` has an
`INSTANCE SharedLoad WITH` its own refinement mapping and the property `SharesLoads`; all four are checked and proved.
`AutoscalingCache` does not implement it: a forced call and a full cache start a second load of a key. What it promises
instead is `NobodyIsLeft`.

### LoopbackServer (`server.js`, `shared/mcp-catalog.js`)

A request goes through `Receive` (what needs no introspection, the caches, an introspection it starts or joins), the
introspection (`Decide` at the control plane; `Succeed`, `AskAsMcp` or `Fail` when it comes back), and the checks after it
(`Dispatch`, `SelectorRefused`: allowlist, scopes, selector) to a provider, which settles some day (`ProviderSettles`). The control plane knows a token as a runtime, an MCP or a
discovery token; the agent sees a prefix only, and legacy MCP tokens have none, so a runtime introspection that is
refused goes on as an MCP one. `expiresAt` of such an entry is NaN in the code and -1 here. `Revoke` and the clock are
external. The time limits are those of the code in seconds, the sizes of the two caches one number, `MaxEntries`.

### PostureCache and AutoscalingCache (`policy-posture.js`, `autoscaling-capacity.js`, `cloud-autoscaling.js`)

Both keep summaries by scope in a `Map` of bounded size, so the order of insertion is state: `InsertionOrder` has what
`set`, `delete` and `keys().next()` do to it. They differ in what a full cache and a forced call do, and that is the
reason for two modules. An entry of the autoscaling cache is known by the call that made it (its `maker`), since calls
hold on to entries that were evicted or replaced meanwhile.

### PostureCollection, NetworkPosture (`policy-posture.js`, `policy-posture-network.js`)

`PostureCollection` is one collection: lanes take sources (`Take`), send a request when the budget and the count of
outstanding requests allow (`Ask`), and a page arrives, is refused, or is late. A request whose deadline passed is over
for its lane but keeps its place until the transport lets go. `NetworkPosture` compares one run of the analyzer with what
the policies allow according to the Kubernetes API (`Allowed`, external).

### AutoscalingCollection (`autoscaling-capacity.js`)

One step, `Collect`, is one collection: nineteen lists are read with any outcome, and capacity, findings and the reasons
for empty tabs are derived from what they gave. It is compared with the cluster it was read from, which is assumed not to change
meanwhile.

### UsageHistory, Alerting, AgentProcess (`usage-history.js`, `alerting.js`, `cli.js`)

`UsageHistory`: samplers by object, because a sample outlives its sampler and a new one may be made meanwhile.
`Alerting`: a manager's scan goes through `Evaluated` (or `EvaluationFails`) and one `Sent` per delivery; configuration and
history are files, and `Crash` may leave either torn. `observed` holds, by the clock, when attempts began; the code's own
`lastSent` holds when their scans began. `AgentProcess`: boot, discovery, heartbeats (`beat` holds each one's stage: asking,
answered, applying) and shutdown; a collector is starting, polled or neither.

### TimelineStore, TimelineEvents (`store-worker.js`, `events.js`)

`TimelineStore`: an operation writes (`AppendBatch`, `SaveState`, `Prune`) or reads (`List`, `Look`), enforces one
transaction at a time (`Expire`, `EvictOverTarget`, `EvictOverTotal`), then answers; `Crash` comes between any two
transactions. `reader` is someone who pages, and no action of the worker reads it.
`TimelineEvents`: an object of one of eight kinds lives its own life and is polled; `shown` is what a reader of the told
changes knows. The reducers compare and tell images and revisions after `sanitizeTimelineText` (`Sanitized`), to which all
digests are one text.

### KubeTransport, PrometheusExporter, ContextSelection (`kube.js`, `metrics-exporter.js`, `runtime-target.js`)

`KubeTransport`: one list, page by page, each request with its deadline, signal, byte limit and late data.
`PrometheusExporter`: collections replace each other, scrapes come at any time. `ContextSelection`: sources hold
documents, an edit gives a source a new version, and a selector is resolved against the sources or a validated entry.

### Inventory, CiProviders, StorageDrivers

`Inventory` has a table of what each loader does when one of its lists is missing, cut or failed, and the cleanup view in
more detail, because it says that nothing uses an object. Who uses it is a `user` with a list that would show it, or one
no collector looks for (`Uncollected`: other controllers, other fields, other kinds than those of
`resource-references.js`). `CiProviders` numbers the runs of a project from the newest, so
that a page is a window of numbers. `StorageDrivers` has, per driver, the order of its rules; a source is the set of faults
it would show.

### Serving, Running, Reading: the compositions

`Serving` puts the server and the three caches side by side, `Running` what runs by itself, `Reading` what reads and
keeps. The parts of a composition share no variable, except a clock between selection and store, which are never both
active. So an interleaving of two parts shows nothing that one part alone does not, and a behaviour is one of the part
in `focus`; the others rest in a state in which none of their fair actions is enabled, so the fairness of the whole asks
nothing of them. This keeps each run small, and each composed property (`NeverCleanWhenCut`, `NothingLeftBehind`, ...) is
the conjunction of what its parts promise.

## 4. Runs

| Run | Question | Instance |
|---|---|---|
| `relay` | Under any order of events, does the client keep one watched connection, never get stuck, answer on the right connection, give up a dead peer and come back? | 2 sockets, 1 request, delays 1, 2, 4 |
| `timeline` | Partial appends, failed saves, sources and CRDs, overlapping collectors, restarts: is anything lost, replayed or invented? | a core object and a provider object that existed at start, 2 collectors that are alike, batches of 1, the store redacts the core object's second version and keeps no status of the provider object; `Scenario`: either one collector alone, or an overlap over the first object with at most two events |
| `serving` | Are loads shared, answers as fresh as asked for, and only what a token may read reached? | CI: 2 readers, TTL 2, stale bound 4, retry up to 5; posture: 3 scopes in a cache of 2; autoscaling: 2 scopes in a cache of 1; server: 1 cache entry, one request for each way through the dispatcher and a second call that competes |
| `reading` | Is nothing called complete that is not, nothing told that is not so, and are all limits kept? | below |
| `running` | Is no channel told of one alert more than twice in a cooldown, are store requests answered truly and in order, tasks shared, and does everything settle? | client: queue of 2, 5 requests; alerting: 1 manager, 1 channel, clock to 3, 1 crash; sampler: 1 context, 2 readers, 3 reads; agent: 2 targets, 2 decisions; collector: 1 object |
| `timeline_window`, `timeline_stripped`, `ci_cache_label`, `mcp_revoked`, `cleanup`, `ci_pages`, `host_metrics` | Violations, see section 6 | as small as shows it |

The instance of `reading`: 3 contexts for the exporter; lists of 2 pages with a limit of 1 byte and bodies of up to 3
chunks for the transport; 2 stages, 2 lanes and a budget of 6 for the posture; 3 documents in 3 places and one edit each
for the selection; all namespaces or one, at most two lists of a load not whole, for the loaders; the 3 CI providers with
nested Jenkins folders, pages of 2, at most 5 runs; 2 targets with 3 identities, a quota of 3 and pages of 1 for the
store; 3 restarts and 3 occurrences for the events; 3 pods in 3 namespaces under at most 2 policies; 3 clusters read whole
or by namespace in at most 2 pages of 1 with at most two troubled lists; at most one fault and two silent sources of a
storage backend, 2 clusters, 4 sets of profiles, 2 candidates.

The bounds are the smallest at which the interesting cases occur: two batches for a partial append, two collectors for
an overlap, a version that grows twice for a stale change, a clock long enough for an answer, a failure with a long
delay and the end of the stale bound, one entry more than a cache holds, a third restart because only then an OOM kill can
hide behind another restart, two troubled lists because a finding is derived from two lists. What holds of a reader at
any bound is what the proofs are for. `CHECK_DEADLOCK FALSE` is set where the system really may stop: a closed or
rejected client with nothing in flight, a collection that was given to its reader, a cluster that used up its bounded
versions, a clock at its end.

Fairness is stated per part: that of its own timers, of requests that have a deadline, and of the event loop.

- `Relay`: weak fairness of the client's timers and of `ws` reporting the end of a connection; `ServiceReturns` (strong) for
  `ReconnectsAutomatically` only.
- `TimelineStoreClient`: timers fire, and the promises of `terminate()` and `await` go on; nothing of the worker.
- `TimelineCollector`: heartbeats come, timers fire, an await ends by the cycle deadline or the store timeout.
- `CiCache`: the HTTP client has a timeout, the event loop runs. The liveness of the other caches is that of `SharedLoad`,
  whose loads have the deadlines of what they load.
- `Alerting`: the timer fires, an evaluation ends, a delivery ends unless it goes to a mail server, which has no timeout.
- `UsageHistory`: time passes, the interval fires, a sample ends by its deadline.
- `AgentProcess`: the interval fires, an applied answer goes on; an answer that is on its way again and again arrives
  some day (strong, because heartbeats come and go).

Each property has a mutant: a definition of the module changed as a plausible bug would change it, with which TLC
finds the property violated.

## 5. Proofs

Every safety invariant and every action property of the passing runs is a theorem; `PROJECT.json` says which states
which. Only liveness is left to TLC (end of this section).

Each theorem holds for every value of the constants that meets the assumptions of the modules. An assumption is a type,
a lower bound a limit of the code meets, or a fact about data the code does not choose, and each stands, named and with
its reason, where the constants are declared. The ones that say more than a type: two objects of a kind do not share
namespace and name (`CollectionAssumption`); a profile that names a cluster or a context has endpoints of that cluster
(`DriverAssumption`); the control plane knows a token as at most one of its kinds (`TokenAssumption`). TLC evaluates all of
them in the passing runs.

| Module | Theorems about |
|---|---|
| `RelayProofs` | `Relay` |
| `TimelineProofs` | `TimelineCollector` |
| `LoopbackServerProofs`, `ServingProofs` | the server; `CiCache`, `PostureCache`, `AutoscalingCache` and all of `Serving` |
| `UsageHistoryProofs`, `RunningProofs` | the sampler; `TimelineStoreClient`, `AgentProcess`, `Alerting` and all of `Running` |
| `ReadingProofs` | the eleven parts of `Reading` |
| `DataProofs` | no component: lemmas about sequences, orders and sums that the others cite |

### Relay

`RelayProofs` holds for any finite or infinite sets of sockets and requests and any delays with
`0 < BaseDelay =< MaxDelay`. `TypeCorrect` is inductive by itself and includes that the backoff keeps its bounds
(`NextBackoffBounds`). `OneConnection`, `AlwaysSupervised`, `AlwaysRetrying`, `NoLeakedTimer`, `StatusIsTrue`,
`CloseStaysFinal` and the action properties `RepliesDelivered` and `RejectionStays` come from one inductive invariant,
`IInv == TypeOK /\ Structure /\ Promises`.

None of them is inductive alone. That no second connection is made needs that a reconnect is pending only without a
socket, which needs that the `close` event of an old socket is ignored, which needs that a live socket is the current
one. So `Structure` joins `SingleConnection`, `TimersHeld` and `CloseIsFinal` with three facts they need: before `start()`
nothing exists; a connecting socket has no timer and no acknowledgement; after `close()` every socket is on its way down.
`Promises` (supervision, retrying, truthful status, quiet after rejection) is then inductive given `Structure`. `BackoffSlows`
needs types only.

### Timeline collector

For any objects, sources, versions, batch size and any number of collectors of one target. `TypeCorrect`,
`RecordedBeforeAdvanceCorrect` (from `PollAccounted`: what the poll in progress found is waiting or stored) and
`DisabledStaysIdleCorrect` (from `StoppedIsQuiet`: a stopped collector has no timer) need no more. `DeletionsCorrect`,
`CreationsCorrect`, `KeptChangesCorrect` and `NothingReplayedCorrect` hold under `WindowSuffices`: no source holds more objects
than a poll takes. The hypothesis is needed: run `timeline_window` is the counterexample without it, and
`KeptChangesAreTrue` speaks of objects of which the store altered no version, because of `timeline_stripped`. Every
instance TLC checks as passing satisfies `WindowSuffices`.

An event is true because of the baseline it is reduced from, and that may be old: taken before a crash, by another
collector, or restored with fields missing or redacted. So the invariant `Truth` says of every snapshot in the system what it still
means for the cluster (`Faithful`): a version it holds was reached, what it holds existed, what it misses and always
existed is deleted. These claims are stable under every step of the cluster (`StaysTrue`), a poll establishes them
(`SnapshotFaithful`), sanitizing keeps them (`SanitizeFaithful`), and a difference between a faithful baseline and a poll is
a true event (`ReduceTruthful`). For `NothingReplayed` the invariant `SettledIsPast` says of every event a collector
finished that its baseline can no longer lead to it.

### Serving

- **CI cache** (`Inv`). A snapshot's stale bound counts from its own load, not from the failures after it (`Sound`); a
  request starts only when the entry it found has expired, so a remembered failure is never shown as a snapshot
  (`FoundIsSound`); a failure leaves an entry that outlives the wait (`FailureRemembered`), and a reader's `now` is never
  ahead of the clock.
- **Posture cache** (`PostureInv`). Who waits, waits for a scope that is being collected (`PostureWaits`), and what is
  cached or asked for is of the past (`PosturePast`). That the cache keeps its limit needs the facts about `Placed` and
  `Oldest` below: the key that makes room is a key of the cache.
- **Autoscaling cache** (`CapacityInv`). Who collects awaits itself, and who neither collects nor waits awaits nobody
  (`CapacityOn`). Therefore the end of a collection releases everyone who waits for it, also when its entry was evicted or
  replaced while it ran.
- **Loopback server**, three invariants. `Spoken` (for `OnlyAllowedReached`): a token is accepted as what it is known as,
  what a cache holds was said of that token, and a discovery introspection belongs to the call that waits for it.
  `Timely` (for `GrantsAreFresh`): an introspection that is going to succeed began while the token was good and is not
  older than its timeout, and an entry lives for the cache time from then. `Bounded` (for the types): no cache holds a token
  twice or more entries than it may; the entry of a legacy token whose expiry is no number is one the sweep never takes,
  and the limit holds all the same.
- **Refinement.** `CiCache`, `PostureCache` and `LoopbackServer` implement `SharedLoad`: initial states map to initial
  states, and each step maps to `Wait`, `Finish` or a stutter. For the server it takes that a token has at most one
  introspection beside those of discovery (`OneAsk`), also when a refused runtime introspection is asked again as an MCP
  one.

### Running

- **Store client** (`Inv`). What is in the inbox of a running worker is exactly what it has not handled (`PortInOrder`),
  the answer of whoever waits for handled work is on its way (`AnswerOnItsWay`), an answered request is answered before
  all later ones are (`AnsweredInOrder`), the stage agrees with the close request (`StageInOrder`), and what ended the last
  stage was an answer or a timeout unless the worker died (`LastSettled`). That close drains follows: the close request is
  the last, answers come in order, so its answer comes after all others.
- **Agent process** (`ProcessInv`). One heartbeat at a time (`OneBeat`); who waits, waits for a task that runs
  (`TasksRun`); what a heartbeat carries was decided after what the collectors were brought to (`NewestLast`), from which
  `AppliedInOrder` follows. It implements `SharedLoad` with the keys "discovery" and "heartbeat".
- **Alerting** (`AlertInv`). A manager scans by a configuration that was saved (`Fine`), and between what it remembers, the
  beginnings of scans, and what happened, the beginnings of attempts, stands `Settled`: the last attempt but one of an alert
  began before the scan of the last one did. So the guard, which keeps scans a cooldown apart, keeps an attempt and the next
  but one a cooldown apart, also when a scan has two alerts of one fingerprint or the configuration is saved during it.
- **Sampler** (`Steady`). Samples are numbered in the order they are started, and a first sample is under way until it
  ends; so nobody waits for a sampler that was closed and made again.

### Reading

- **Transport** (`TransportInv`). A request keeps no more than it was sent and, once settled, nothing (`RequestKept`); while
  pages are asked for the cluster has another and the limit allows it (`ListKept`).
- **Exporter** (`ExporterInv`). A cached or scraped collection is what that collection reached (`CachedHolds`), the one
  under way is the last begun (`CollectingHolds`).
- **Selection** (`SelectionInv`). Signatures only grow, so an entry of the current signature holds what the sources say
  now, and an entry of an older one never comes back (`EntriesHold`).
- **Posture collection** (`PostureInv`). What is accepted and what is left of the budget never exceed the limit; asked and
  abandoned requests together never exceed the lanes; a source not said to be partial was read to its end (`SaidHolds`).
- **Loaders** (`LoadersInv`). `Tells` is proved of each of the shapes in the table: every list a view needs is named when
  it failed, and when it was cut unless it is one object. The cleanup view needs more: it calls unused only what all the
  lists of references, read whole, do not name. The theorem is about users those lists show.
- **CI clients** (`CiInv`). The room left for runs bounds what the project being read may take (`CiRoom`), requests are
  bounded by projects over, the page at hand and what is asked for beside (`CiSpent`), and each GitHub repository is
  waiting, being read, told to be incomplete, or has as many runs loaded as it has (`CiAccounted`), which are all of them if
  none was loaded twice (`EachOnce`).
- **Timeline store** (`StoreInv`). At most one row per identity and per sequence number, every row that was inserted is
  there or counted as pruned (`StoreShape`), between two operations no limit is left to enforce (`StoreQuota`), and no
  reader is ahead of the counter (`StoreReaders`). A batch is a fold over its rows, so what it keeps is proved by
  induction in set form. `OldestGoFirst` is an action property over the same invariant.
- **Reducers** (`EventsInv`). An object only grows past what the last poll saw (`ObjectGrows`); then, for each kind, what a
  reader of the changes knows agrees with what was polled, as far as its redacted texts tell it apart. The first version of `ChangesAreTold` was false: section 6.
- **Network.** Who selects a pod is who isolates it, an unrestricted rule without others allows all, and the counts agree
  with the sets, by the theorems about finite sets.
- **Autoscaling** (`AutoscalingInv`: what is derived came from what was read). What is told as missing is missing, since
  the list that would have it was read whole and objects have distinct names. `CapacityIsSo`: the effective requests of a
  pod are its peak over the moments of its start (`PodNeeds`, by induction over the init containers); every active pod is in
  exactly one row of the workloads and in at most one of the nodes (`Splits`), so the rows add up (`RowsAddUp`).
- **Storage** (`BackendInv`). The rules of each driver name every fault a source shows, the selected profile is of the
  kind looked for, and its endpoints are the cluster's own, those of a profile for every context, or the host's CLI, which the theorem
  excepts (`host_metrics`).

### The compositions

In `Serving`, `Running` and `Reading` a part moves only while it is in `focus`. The invariant of the whole is the conjunction
of the parts' invariants, for the parts that have no variable in common, and, for those that share a clock, each while
it is in focus (`FocusedInv`). A step of the whole is a step of the part in focus and a stutter of the others.

### Data

What a recursive definition computes for every input cannot be proved by the library's induction theorems here, because
they take an operator. Two lemmas of `DataProofs` say the same with a set: a set of naturals that holds 0 and the successor
of each of its members holds all (`AllNaturals`); a set of subsets of a finite set that holds a subset as soon as it holds
those with one element less holds all (`AllSubsets`). From the first follows that the recursive functions of the models
exist (`FilterExists`, `StartsExist`), from the second what a sum over a finite set is, by whichever element it is taken
apart (`SumProperties`), that it depends on the weights alone (`SumOfEqual`), and that it is the sum over parts
(`SumOfUnion`, `SumOfParts`). The rest is about insertion order: `OnlyProperties`, `PlacedOrders`, `OldestIsOne`.

### Only model-checked

`HalfOpenDetected`, `ReconnectsAutomatically` and `SettlesInTheEnd`: liveness under fairness, and with it ENABLED, is beyond
the prover. Not stated as properties, so neither checked nor proved, is what section 7 lists.

## 6. Findings

Each is a run that TLC ends with a counterexample, as small as shows it.

1. `timeline_window`: a source with more objects than a poll takes (2000, or four pages) has objects recorded as deleted
   that exist: `listSource` does not look at `truncated`.
2. `timeline_stripped`: the persisted baseline loses fields that delivery and backup events are reduced from, and has
   token-like text of any object redacted, so after a restart an unchanged object is recorded as changed.
3. `mcp_revoked`: a request that comes after its MCP token was revoked is let through by a cached introspection, for as
   long as `GrantsAreFresh` allows, although revoking "immediately closes" the access.
4. `ci_cache_label`: after a failed refresh only the first reader sees the old snapshot labeled as stale.
5. `cleanup`: asked for one namespace, the cleanup view reports a service account as unused that a RoleBinding of
   another namespace names. Asked for all, it reports a Secret as unused that only something outside the 18 kinds of
   controller resources and the fields that are read names (an ACME solver, an Istio Gateway, a CSI volume).
6. `host_metrics`: on a gateway, any context with an exact profile is shown what the host's CLI says, whichever cluster
   that CLI belongs to, although profiles are said to prevent this.
7. `ci_pages`: `per_page` shrinks on the last page while the page number goes on, so runs are read twice and others never.

Seen while modelling, without a run of their own:

- Two proofs failed because the property was not so. A poll does not see all that happened between two polls, and some
  of what it does see is not told: a container that was running but not ready between a problem and readiness never gets
  `ContainerRecovered`; a Job whose `FailureTarget` and `Failed` are seen by different polls gets two `JobFailed`; a second OOM
  kill behind another restart is told as `ContainerRestarted` only (`events.js:158-170`). `ChangesAreTold` now says what is told.
  And "missing-hpa" is also said of a ScaledObject whose target is scaled by an autoscaler that KEDA made for another
  ScaledObject (`autoscaling-capacity.js:443`); the property speaks of KEDA's own.
- "provider-missing" and the node-scaling tab say that there is no autoscaler also when the older API's deployments could
  not be read or when it runs in a namespace that was not asked for; the totals of a namespaced read are that namespace's.
- OpenEBS and Portworx report a warning where a later rule would find a critical fault (`storage-provider-adapters.js:693-700`,
  `858-867`); Ceph with an exporter that lacks `ceph_health_status` and no readable CephCluster is healthy (`:321`).
- `createTimelineStore()` keeps a rejected promise for ever (`timeline/index.js:470`); `rotateAgent` can die between the new
  identity and its file (`cli.js:245`); a failed cloud provider is not told (`cloud-autoscaling.js:155`).
- The message "a restart starts a new baseline" (`timeline/index.js:434`) is not so when an older baseline had been
  persisted. The path of the catalog's autoscaling entry carries a query, so the allowlist (`server.js:469`) refuses an MCP
  token what the catalog offers it.
- Images and revisions that differ in a digest only are one redacted text to the reducers, so such a change is not told
  (`events.js:38`, `204`, `242`).
- The GitHub adapter compares how many runs it loaded with the total (`github-actions.js:184`), so where `ci_pages` loads some
  twice a repository can be called complete that is not.
- The cooldown is counted from the beginnings of the scans (`alerting.js:693`, `735`): the attempts of a slow scan and of a
  prompt one after it can be closer than a cooldown.
- `validatedKubeConfigCache` and the cache of discovery introspections are not bounded; a provider that sends a mail has
  no timeout; several alerting managers overwrite one history file.

## 7. Not modelled

- **Agent configuration and logging**: files read once, checked field by field; no state afterwards.
- **Relationship runtime and shared analyzers** (`relationship-runtime.js`, `delivery-activity.js`, `backup-activity.js`, the
  admission, provider and workload analyzers of the posture): pure functions from objects to findings, without relating
  sources that may fail. What they are given when a list fails is `Inventory`'s and `PostureCollection`'s.
- **Installers, dashboards**: run once by a person.
- **Timeline manager**: the two log slots and what `list`, `stats`, `detail` and `status` pass through.
- **Agent process**: the one-shot commands. **Control-plane client**: the payloads.
- **Alerting**: what a rule finds is any sequence of alerts; the channels' wire formats are left out. Loaded from disk, a
  file is whole or torn, and a configuration half written reads as the default.
- **Loaders**: which lists are read and what is said of them; of what the answers hold, only the cleanup findings.
- **Storage drivers**: which backend is asked through what and the status that follows; capacities and rows are left out.
  A list an adapter cannot fetch is empty to it, an unreachable monitor counts as up, and candidates beyond the eighth
  are dropped, as in the code; etcd's limit of 5000 keys is not reached.

Abstractions that hold everywhere: wording, layout, parsing of provider payloads and log excerpts are left out. A
clock ticks in the smallest unit a comparison tells apart. A file's signature changes with every edit, where the code
compares size and time. `runtimeTargetKey` is part of the fingerprint. A garbled body, and a 404 on a later page of a list,
are outcomes that `NeverCleanWhenCut` excepts, because the code treats them as the end of the list. The cluster does not
change during one collection of the autoscaling inventory. Severities are left out, and in `TimelineEvents` one reason
stands for all reasons a list of the code treats alike.
