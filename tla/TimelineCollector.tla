-------------------------- MODULE TimelineCollector --------------------------
(***************************************************************************)
(* The Timeline collector of one target, agent/src/timeline/index.js: it   *)
(* polls the cluster, compares each poll with the previous one (the        *)
(* baseline), appends the differences to the target's store and persists   *)
(* the baseline for the next process.                                      *)
(*                                                                         *)
(* An object is one uid: it is created once and deleted once, and every    *)
(* update the reducer tells (TimelineEvents) gives it the next version;    *)
(* other updates do not count here.  A baseline holds an object's version, *)
(* or only that the stored copy is not the version any more.  A source     *)
(* fails or answers as a whole, and one poll reads each source at one      *)
(* moment.  Polls, store operations, changes of the cluster, enabling and  *)
(* disabling, and restarts interleave freely.                              *)
(*                                                                         *)
(* The store runs one operation at a time; an operation the client reports *)
(* as failed may have been executed (its answer was late).                 *)
(***************************************************************************)
EXTENDS Integers, FiniteSets

CONSTANTS
    Objects,          \* uids, numbered in the order the API server lists them
    Preexisting,      \* those that exist when the agent first starts
    MaxVersion,       \* bound on the updates of one object
    Sources,          \* source ids
    SourceOf,         \* the source that lists an object
    ProviderSources,  \* sources listed only if their CRD was read (index.js line 330)
    Altered,          \* versions the store does not keep as they are: <<object, version>>
    Window,           \* MAX_ITEMS: objects of one source a poll takes
    BatchSize,        \* events per append (100)
    Collectors,       \* TargetCollector instances of the target
    None              \* no collector: the target is disabled

ASSUME ObjectAssumption == Objects \subseteq Nat /\ IsFiniteSet(Objects) /\ Preexisting \subseteq Objects
ASSUME SourceAssumption ==
    /\ \A o \in Objects : SourceOf[o] \in Sources
    /\ ProviderSources \subseteq Sources
ASSUME AlteredAssumption == Altered \subseteq Objects \X (1..MaxVersion)
ASSUME BoundAssumption == MaxVersion \in Nat \ {0} /\ Window \in Nat \ {0} /\ BatchSize \in Nat \ {0}
ASSUME NoneAssumption == None \notin Collectors

VARIABLES
    version,    \* of each object, 0 before it is created
    deleted,    \* objects that were deleted
    current,    \* the collector in the manager's map, or None
    phase,      \* what a collector is awaiting
    timer,      \* its poll timer is armed
    stopped,
    baseline,   \* the collector's baseline
    listed,     \* the snapshot of the poll in progress (current, next)
    pending,    \* events of the poll in progress still to be appended
    persisted,  \* the stored baseline
    recorded,   \* events in the store
    \* observations, read by no action
    settled     \* events of the polls a collector has finished appending

clusterVars == <<version, deleted>>
storeVars == <<persisted, recorded>>
collectorVars == <<phase, timer, stopped, baseline, listed, pending, settled>>
vars == <<clusterVars, current, collectorVars, storeVars>>

-----------------------------------------------------------------------------
(* Snapshots: what a baseline or a poll holds of each object               *)

NoSource == -1    \* the object's source is not in the snapshot
Absent   == 0     \* the source is there and does not list the object
Stripped == -2    \* the object is there, what was stored of it is none of its versions

Marks == {NoSource, Absent, Stripped} \cup 1..MaxVersion
Snapshots == [Objects -> Marks]
EmptyBaseline == [o \in Objects |-> NoSource]

Exists(o) == version[o] > 0 /\ o \notin deleted
Holds(mark) == mark # NoSource /\ mark # Absent

\* listSource: the first Window objects of a source; the truncated flag of
\* fetchKubeList is not looked at.
Visible(o) ==
    /\ Exists(o)
    /\ Cardinality({p \in Objects : Exists(p) /\ SourceOf[p] = SourceOf[o] /\ p < o}) < Window

\* No source has more objects than a poll takes: the condition under which a poll
\* sees what it reads.
WindowSuffices ==
    \A o \in Objects : Cardinality({p \in Objects : SourceOf[p] = SourceOf[o] /\ p < o}) < Window

\* loadTimelineSources: the failed sources are left out, and so are all provider
\* sources when the CRDs could not be read.
Snapshot(failed, crds) ==
    [o \in Objects |->
        IF SourceOf[o] \in failed \/ (SourceOf[o] \in ProviderSources /\ ~crds) THEN NoSource
        ELSE IF Visible(o) THEN version[o] ELSE Absent]

Event(o, what, from, to) == [object |-> o, what |-> what, from |-> from, to |-> to]
Events == [object : Objects, what : {"created", "deleted", "changed"}, from : Marks, to : Marks]

\* The event of one object whose marks differ.
Difference(o, before, now) ==
    Event(o, IF ~Holds(now[o]) THEN "deleted" ELSE IF Holds(before[o]) THEN "changed" ELSE "created",
          before[o], now[o])

\* Mutant: a source that was not in the baseline counts as an empty one.
ReduceWithoutGaps(before, now) ==
    { Difference(o, before, now) : o \in
        { p \in Objects : now[p] # NoSource /\ before[p] # now[p] /\ (Holds(now[p]) \/ Holds(before[p])) } }

\* Mutant: a source that failed counts as an empty one.
ReduceFailedAsEmpty(before, now) ==
    { Difference(o, before, now) : o \in
        { p \in Objects : before[p] # NoSource /\ before[p] # now[p] /\ (Holds(now[p]) \/ Holds(before[p])) } }

\* reduceTimelineSnapshot: the differences of the sources both snapshots have.
Reduce(before, now) ==
    { Difference(o, before, now) : o \in
        { p \in Objects : before[p] # NoSource /\ now[p] # NoSource /\ before[p] # now[p] } }

\* Mutant: no object comes back as it was.
SanitizeDropsStatus(snapshot) ==
    [o \in Objects |-> IF Holds(snapshot[o]) THEN Stripped ELSE snapshot[o]]

\* sanitizeState of store-worker.js keeps the object but not every value of it: it
\* drops the fields it does not know (status.health and status.sync of a delivery
\* object) and redacts or cuts any text, so the image repo/vault-token:1.0 of a core
\* object comes back as another.  Which versions that alters is Altered.
Sanitize(snapshot) ==
    [o \in Objects |-> IF <<o, snapshot[o]>> \in Altered THEN Stripped ELSE snapshot[o]]

-----------------------------------------------------------------------------
Running(c) == phase[c] \in {"listing", "appending", "saving"}

Init ==
    /\ version = [o \in Objects |-> IF o \in Preexisting THEN 1 ELSE 0]
    /\ deleted = {}
    /\ current = None
    /\ phase = [c \in Collectors |-> "idle"]
    /\ timer = [c \in Collectors |-> FALSE]
    /\ stopped = [c \in Collectors |-> TRUE]
    /\ baseline = [c \in Collectors |-> EmptyBaseline]
    /\ listed = [c \in Collectors |-> EmptyBaseline]
    /\ pending = [c \in Collectors |-> {}]
    /\ persisted = EmptyBaseline
    /\ recorded = {}
    /\ settled = [c \in Collectors |-> {}]

(* The cluster (external) *)

Create(o) ==
    /\ version[o] = 0
    /\ version' = [version EXCEPT ![o] = 1]
    /\ UNCHANGED <<deleted, current, collectorVars, storeVars>>

Update(o) ==
    /\ Exists(o) /\ version[o] < MaxVersion
    /\ version' = [version EXCEPT ![o] = @ + 1]
    /\ UNCHANGED <<deleted, current, collectorVars, storeVars>>

Delete(o) ==
    /\ Exists(o)
    /\ deleted' = deleted \cup {o}
    /\ UNCHANGED <<version, current, collectorVars, storeVars>>

-----------------------------------------------------------------------------
(* applyDesiredConfig, called by every heartbeat *)

\* The target is wanted and has no collector: a new one starts.  An instance
\* that was stopped and has finished stands for the new object.
Enable(c) ==
    /\ current = None
    /\ stopped[c] /\ phase[c] = "idle"
    /\ current' = c
    /\ phase' = [phase EXCEPT ![c] = "restoring"]
    /\ stopped' = [stopped EXCEPT ![c] = FALSE]
    /\ baseline' = [baseline EXCEPT ![c] = EmptyBaseline]
    /\ settled' = [settled EXCEPT ![c] = {}]
    /\ UNCHANGED <<clusterVars, timer, listed, pending, storeVars>>

\* The target is wanted and has a collector: schedule().  The store answers
\* getState before the prune of the same heartbeat, so no heartbeat that finds
\* the collector comes while it is restoring.
Heartbeat(c) ==
    /\ current = c
    /\ phase[c] # "restoring"
    /\ ~timer[c]
    /\ timer' = [timer EXCEPT ![c] = TRUE]
    /\ UNCHANGED <<clusterVars, current, phase, stopped, baseline, listed,
                   pending, settled, storeVars>>

\* Mutant: stop() leaves the timer armed.
DisableKeepsTimer(c) ==
    /\ current = c
    /\ current' = None
    /\ stopped' = [stopped EXCEPT ![c] = TRUE]
    /\ UNCHANGED <<clusterVars, phase, timer, baseline, listed, pending,
                   settled, storeVars>>

\* The target is not wanted any more, or the configuration came incomplete:
\* stop() does not interrupt what the collector is awaiting.
Disable(c) ==
    /\ current = c
    /\ current' = None
    /\ stopped' = [stopped EXCEPT ![c] = TRUE]
    /\ timer' = [timer EXCEPT ![c] = FALSE]
    /\ UNCHANGED <<clusterVars, phase, baseline, listed, pending, settled, storeVars>>

-----------------------------------------------------------------------------
(* start() *)

\* getState answers; a baseline of another schema is as good as none.
Restored(c) ==
    /\ phase[c] = "restoring"
    /\ phase' = [phase EXCEPT ![c] = "listing"]
    /\ baseline' = [baseline EXCEPT ![c] = persisted]
    /\ UNCHANGED <<clusterVars, current, timer, stopped, listed, pending,
                   settled, storeVars>>

\* getState fails: start() rejects before it schedules anything.
RestoreFails(c) ==
    /\ phase[c] = "restoring"
    /\ phase' = [phase EXCEPT ![c] = "idle"]
    /\ UNCHANGED <<clusterVars, current, timer, stopped, baseline, listed,
                   pending, settled, storeVars>>

-----------------------------------------------------------------------------
(* collect() *)

\* A tick that finds a collection running only re-arms the timer.
TimerFires(c) ==
    /\ timer[c]
    /\ ~Running(c)
    /\ timer' = [timer EXCEPT ![c] = FALSE]
    /\ phase' = [phase EXCEPT ![c] = "listing"]
    /\ UNCHANGED <<clusterVars, current, stopped, baseline, listed, pending,
                   settled, storeVars>>

\* The collection is over, its local variables with it: finally, then schedule().
Finish(c) ==
    /\ phase' = [phase EXCEPT ![c] = "idle"]
    /\ timer' = [timer EXCEPT ![c] = @ \/ ~stopped[c]]
    /\ listed' = [listed EXCEPT ![c] = EmptyBaseline]
    /\ pending' = [pending EXCEPT ![c] = {}]

\* All events are appended: the baseline advances before it is persisted.
Advance(c, snapshot, events) ==
    /\ phase' = [phase EXCEPT ![c] = "saving"]
    /\ baseline' = [baseline EXCEPT ![c] = snapshot]
    /\ settled' = [settled EXCEPT ![c] = @ \cup events]

\* The poll has read its sources.
Listed(c) ==
    /\ phase[c] = "listing"
    /\ \E failed \in SUBSET Sources, crds \in BOOLEAN :
        LET now == Snapshot(failed, crds)
            events == Reduce(baseline[c], now)
        IN  /\ listed' = [listed EXCEPT ![c] = now]
            /\ pending' = [pending EXCEPT ![c] = events]
            /\ IF events = {} THEN Advance(c, now, {})
               ELSE /\ phase' = [phase EXCEPT ![c] = "appending"]
                    /\ UNCHANGED <<baseline, settled>>
    /\ UNCHANGED <<clusterVars, current, timer, stopped, storeVars>>

\* The cycle deadline passes, or the target's context cannot be resolved.
ListFails(c) ==
    /\ phase[c] = "listing"
    /\ Finish(c)
    /\ UNCHANGED <<clusterVars, current, stopped, baseline, settled, storeVars>>

Batches(c) ==
    { batch \in SUBSET pending[c] :
        \/ Cardinality(batch) = BatchSize
        \/ batch = pending[c] /\ Cardinality(batch) < BatchSize }

\* One batch is stored; after the last one the baseline advances.
Appended(c) ==
    /\ phase[c] = "appending"
    /\ \E batch \in Batches(c) :
        /\ recorded' = recorded \cup batch
        /\ pending' = [pending EXCEPT ![c] = @ \ batch]
        /\ IF batch = pending[c]
           THEN Advance(c, listed[c], Reduce(baseline[c], listed[c]))
           ELSE UNCHANGED <<phase, baseline, settled>>
    /\ UNCHANGED <<clusterVars, current, timer, stopped, listed, persisted>>

\* Mutant: a failed append is as good as a done one.
AppendFailureIgnored(c) ==
    /\ phase[c] = "appending"
    /\ \E batch \in Batches(c) :
        /\ pending' = [pending EXCEPT ![c] = @ \ batch]
        /\ IF batch = pending[c]
           THEN Advance(c, listed[c], Reduce(baseline[c], listed[c]))
           ELSE UNCHANGED <<phase, baseline, settled>>
    /\ UNCHANGED <<clusterVars, current, timer, stopped, listed, storeVars>>

\* Mutant: the rest of a failed append is kept for later.
AppendFailureKeepsRest(c) ==
    /\ phase[c] = "appending"
    /\ phase' = [phase EXCEPT ![c] = "idle"]
    /\ timer' = [timer EXCEPT ![c] = @ \/ ~stopped[c]]
    /\ UNCHANGED <<clusterVars, current, stopped, baseline, listed, pending, settled, storeVars>>

\* An append is reported as failed, executed or not: the baseline stays, so the
\* next poll finds the same differences again.
AppendFails(c) ==
    /\ phase[c] = "appending"
    /\ \E batch \in Batches(c) \cup {{}} : recorded' = recorded \cup batch
    /\ Finish(c)
    /\ UNCHANGED <<clusterVars, current, stopped, baseline, settled, persisted>>

\* saveState succeeds.
Saved(c) ==
    /\ phase[c] = "saving"
    /\ persisted' = Sanitize(baseline[c])
    /\ Finish(c)
    /\ UNCHANGED <<clusterVars, current, stopped, baseline, settled, recorded>>

\* Mutant: the baseline is rolled back when it could not be saved.
SaveFailureRollsBack(c) ==
    /\ phase[c] = "saving"
    /\ baseline' = [baseline EXCEPT ![c] = persisted]
    /\ Finish(c)
    /\ UNCHANGED <<clusterVars, current, stopped, settled, recorded, persisted>>

\* saveState is reported as failed, executed or not.
SaveFails(c) ==
    /\ phase[c] = "saving"
    /\ persisted' \in {persisted, Sanitize(baseline[c])}
    /\ Finish(c)
    /\ UNCHANGED <<clusterVars, current, stopped, baseline, settled, recorded>>

-----------------------------------------------------------------------------
(* The store and the process *)

\* The stored baseline outlived its retention or was evicted by a quota.
BaselineExpires ==
    /\ persisted # EmptyBaseline
    /\ persisted' = EmptyBaseline
    /\ UNCHANGED <<clusterVars, current, collectorVars, recorded>>

\* The process ends at any moment, crash or shutdown, and a new one starts.
Restart ==
    /\ current' = None
    /\ phase' = [c \in Collectors |-> "idle"]
    /\ timer' = [c \in Collectors |-> FALSE]
    /\ stopped' = [c \in Collectors |-> TRUE]
    /\ baseline' = [c \in Collectors |-> EmptyBaseline]
    /\ listed' = [c \in Collectors |-> EmptyBaseline]
    /\ pending' = [c \in Collectors |-> {}]
    /\ settled' = [c \in Collectors |-> {}]
    /\ UNCHANGED <<clusterVars, storeVars>>

Cluster == \E o \in Objects : Create(o) \/ Update(o) \/ Delete(o)

ApplyDesiredConfig == \E c \in Collectors : Enable(c) \/ Heartbeat(c) \/ Disable(c)

Collect == \E c \in Collectors :
    \/ Restored(c) \/ RestoreFails(c)
    \/ TimerFires(c) \/ Listed(c) \/ ListFails(c)
    \/ Appended(c) \/ AppendFails(c)
    \/ Saved(c) \/ SaveFails(c)

Next == Cluster \/ ApplyDesiredConfig \/ Collect \/ BaselineExpires \/ Restart

Spec == Init /\ [][Next]_vars

(* Heartbeats keep coming, timers fire, and every awaited operation settles  *)
(* (cycle deadline 45 s, store request timeout 15 s).                        *)
Fairness == \A c \in Collectors :
    /\ WF_vars(Heartbeat(c))
    /\ WF_vars(TimerFires(c))
    /\ WF_vars(Restored(c) \/ RestoreFails(c))
    /\ WF_vars(Listed(c) \/ ListFails(c))
    /\ WF_vars(Appended(c) \/ AppendFails(c))
    /\ WF_vars(Saved(c) \/ SaveFails(c))

FairSpec == Spec /\ Fairness

-----------------------------------------------------------------------------
(* Properties *)

Phases == {"idle", "restoring", "listing", "appending", "saving"}

\* Types; only a collector that is appending has events to append.
TypeOK ==
    /\ version \in [Objects -> 0..MaxVersion]
    /\ deleted \subseteq Objects
    /\ current \in Collectors \cup {None}
    /\ phase \in [Collectors -> Phases]
    /\ timer \in [Collectors -> BOOLEAN]
    /\ stopped \in [Collectors -> BOOLEAN]
    /\ baseline \in [Collectors -> Snapshots]
    /\ listed \in [Collectors -> Snapshots]
    /\ pending \in [Collectors -> SUBSET Events]
    /\ \A c \in Collectors : pending[c] # {} => phase[c] = "appending"
    /\ persisted \in Snapshots
    /\ recorded \subseteq Events
    /\ settled \in [Collectors -> SUBSET Events]

\* A deletion is recorded only for an object that was deleted, whatever sources
\* failed, whichever old baseline a restart restored and however many collectors of
\* the target overlap (tests/timeline.test.js:163).  Needs Window not to be exceeded.
DeletionsAreTrue ==
    \A e \in recorded : e.what = "deleted" => e.object \in deleted

\* A creation is recorded only for an object that was created after the agent first
\* started: neither enabling, nor a gap, nor a restart makes existing inventory look
\* new (docs/cluster-timeline.md:7 and :12).
CreationsAreTrue ==
    \A e \in recorded : e.what = "created" => e.object \notin Preexisting

\* A recorded status change is one the object really went through.
ChangesAreTrue ==
    \A e \in recorded : e.what = "changed" => e.from \in 1..MaxVersion /\ e.from < e.to

\* A recorded change is one from an earlier version of the object to a later, unless
\* the store altered a version the object has had: an object whose versions the store
\* has kept as they are never changes from nothing, through gaps, restarts on old
\* baselines and overlapping collectors.
KeptChangesAreTrue ==
    \A e \in recorded : e.what = "changed" =>
        \/ e.from \in 1..MaxVersion /\ e.from < e.to
        \/ e.from = Stripped /\ \E v \in 1..e.to : <<e.object, v>> \in Altered

\* What a baseline moves past is in the store.
AdvanceIsRecorded ==
    \A c \in Collectors :
        phase[c] \in {"listing", "appending"} => Reduce(baseline[c], baseline'[c]) \subseteq recorded'

\* A collector's baseline never moves past a difference that is not in the store,
\* even when an append fails half way through its batches (lines 340-344 and 428).
RecordedBeforeAdvance == [][AdvanceIsRecorded]_vars

\* What a collector has finished appending it never finds again, whether or not the
\* baseline could be persisted (tests/timeline.test.js:220, "advances the baseline
\* when state cannot be persisted instead of replaying changes").
NothingReplayed == \A c \in Collectors : pending[c] \cap settled[c] = {}

\* A stopped collector that is idle stays idle.
StoppedRests ==
    \A c \in Collectors : stopped[c] /\ stopped'[c] /\ phase[c] = "idle" => phase'[c] = "idle"

\* A disabled collector finishes what it is doing and then never starts again: it
\* appends nothing for a target that stays disabled.
DisabledStaysIdle == [][StoppedRests]_vars

\* An enabled target is polled again and again, even after its first getState
\* failed and left it without a timer ("Heartbeats also repair a timer lost").
EnabledIsPolled ==
    \A c \in Collectors : []<>(phase[c] = "listing" \/ current # c)
=============================================================================
