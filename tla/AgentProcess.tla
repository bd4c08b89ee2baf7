---------------------------- MODULE AgentProcess ----------------------------
(***************************************************************************)
(* The agent process, agent/src/cli.js runAgent: what is started in which  *)
(* order, the discovery and heartbeat tasks, each coalesced, what a        *)
(* heartbeat brings to the Timeline manager, and the shutdown.  A target's *)
(* collector is seen from the manager: starting, polled or neither.        *)
(***************************************************************************)
EXTENDS Integers, FiniteSets

CONSTANTS
    Targets,     \* Timeline targets, by targetKey
    Scanners,    \* requests that ask for a discovery scan
    MaxRevision  \* bound: how often the control plane changes its mind

\* What is asked of the constants; who instances the module assumes it.
BoundAssumption == MaxRevision \in Nat /\ "boot" \notin Scanners /\ "timer" \notin Scanners

VARIABLES
    stage,      \* of the process
    signals,    \* the handlers are installed
    plane,      \* what the control plane wants: revision and enabled targets
    scanning,   \* the discovery task is active
    active,     \* the heartbeat coalesceAsyncTask holds on to, 0 for none
    beat,       \* heartbeat -> its progress
    waiting,    \* who awaits which task
    collectors, \* the targets with a collector
    starting,   \* the collectors that restore their baseline and collect first
    polled,     \* the collectors with a timer
    closed,     \* the manager was closed
    applied     \* observation: the revision the collectors were last brought to

beatVars == <<scanning, active, beat, waiting>>
managerVars == <<collectors, starting, polled, closed, applied>>
vars == <<stage, signals, plane, beatVars, managerVars>>

Beats == {1, 2}
Callers == Scanners \cup {"boot", "timer"}
NoBeat == [phase |-> "none", revision |-> 0, targets |-> {}, left |-> {}]

Init ==
    /\ stage = "server" /\ signals = FALSE
    /\ plane \in [revision : {0}, targets : SUBSET Targets]
    /\ scanning = FALSE /\ active = 0
    /\ beat = [b \in Beats |-> NoBeat]
    /\ waiting = {}
    /\ collectors = {} /\ starting = {} /\ polled = {}
    /\ closed = FALSE
    /\ applied = 0

\* server.listen and metricsExporter.start succeed or end the process.
Boot ==
    /\ stage \in {"server", "exporter"}
    /\ stage' = IF stage = "server" THEN "exporter" ELSE "discovery"
    /\ UNCHANGED <<signals, plane, beatVars, managerVars>>

BootFails ==
    /\ stage \in {"server", "exporter"}
    /\ stage' = "exited"
    /\ UNCHANGED <<signals, plane, beatVars, managerVars>>

Alive == stage # "exited"

\* The control plane changes what it wants (external).
Decide == \E targets \in SUBSET Targets :
    /\ plane.revision < MaxRevision /\ targets # plane.targets
    /\ plane' = [revision |-> plane.revision + 1, targets |-> targets]
    /\ UNCHANGED <<stage, signals, beatVars, managerVars>>

Waits(c) == \E t \in {"discovery", "heartbeat"} : <<c, t>> \in waiting

\* refreshDiscovery(), by the boot or by a request of the server.
Scan(c) ==
    /\ c \in IF stage = "discovery" THEN Scanners \cup {"boot"} ELSE Scanners
    /\ Alive /\ stage # "server" /\ ~Waits(c)
    /\ scanning' = TRUE
    /\ waiting' = waiting \cup {<<c, "discovery">>}
    /\ UNCHANGED <<stage, signals, plane, active, beat, managerVars>>

\* The boot goes on, whether its scan failed or not.
Scanned ==
    /\ scanning /\ Alive
    /\ scanning' = FALSE
    /\ waiting' = {w \in waiting : w[2] # "discovery"}
    /\ stage' = IF <<"boot", "discovery">> \in waiting THEN "heartbeat" ELSE stage
    /\ UNCHANGED <<signals, plane, active, beat, managerVars>>

Begun(b) == [beat EXCEPT ![b] = [NoBeat EXCEPT !.phase = "asking"]]

\* Mutant: the heartbeat is not coalesced.
CalledAnyway ==
    \E b \in {1, 2} : beat[b].phase = "none" /\ active' = b /\ beat' = Begun(b)

\* coalesceAsyncTask: whoever calls while a heartbeat is active gets that one.
Called ==
    IF active # 0 THEN UNCHANGED <<active, beat>>
    ELSE active' = 1 /\ beat' = Begun(1)

\* The boot awaits its heartbeat, the interval calls again whatever became of the last one.
Heartbeat(c) ==
    /\ \/ c = "boot" /\ stage = "heartbeat" /\ ~Waits(c)
       \/ c = "timer" /\ stage = "running"
    /\ Called
    /\ waiting' = waiting \cup {<<c, "heartbeat">>}
    /\ UNCHANGED <<stage, signals, plane, scanning, managerVars>>

\* The control plane answers with what it wants at that moment.
Answer(b) ==
    /\ beat[b].phase = "asking" /\ Alive
    /\ beat' = [beat EXCEPT ![b] = [@ EXCEPT !.phase = "answered", !.revision = plane.revision,
                                             !.targets = plane.targets, !.left = plane.targets]]
    /\ UNCHANGED <<stage, signals, plane, scanning, active, waiting, managerVars>>

\* The task is over: its callers go on, and the boot installs the interval and the handlers.
Over(b) ==
    /\ beat' = [beat EXCEPT ![b] = NoBeat]
    /\ active' = IF active = b THEN 0 ELSE active
    /\ waiting' = {w \in waiting : w[2] # "heartbeat"}
    /\ LET booted == <<"boot", "heartbeat">> \in waiting
       IN  /\ stage' = IF booted THEN "running" ELSE stage
           /\ signals' = (signals \/ booted)
    /\ UNCHANGED <<plane, scanning>>

\* Refused, unreachable, or not answered within the timeout: a late answer is not used.
HeartbeatFails(b) ==
    /\ beat[b].phase \in {"asking", "answered"} /\ Alive
    /\ Over(b)
    /\ UNCHANGED managerVars

Arrives(b) ==
    /\ beat[b].phase = "answered" /\ Alive
    /\ beat' = [beat EXCEPT ![b].phase = "applying"]
    /\ UNCHANGED <<stage, signals, plane, scanning, active, waiting, managerVars>>

\* applyDesiredConfig, up to its next wait: first the collectors not wanted stop.
StopUnwanted(b) == \E t \in collectors \ beat[b].targets :
    /\ beat[b].phase = "applying" /\ Alive
    /\ collectors' = collectors \ {t}
    /\ starting' = starting \ {t}
    /\ polled' = polled \ {t}
    /\ UNCHANGED <<stage, signals, plane, beatVars, closed, applied>>

\* Then every wanted one is made or, when it is there, has its timer repaired; an error
\* of the store is only logged.
Want(b) == \E t \in beat[b].left :
    /\ beat[b].phase = "applying" /\ collectors \subseteq beat[b].targets /\ Alive
    /\ beat' = [beat EXCEPT ![b].left = @ \ {t}]
    /\ collectors' = collectors \cup {t}
    /\ starting' = IF t \in collectors THEN starting ELSE starting \cup {t}
    /\ polled' = IF t \in collectors /\ ~closed THEN polled \cup {t} ELSE polled
    /\ UNCHANGED <<stage, signals, plane, scanning, active, waiting, closed, applied>>

Applied(b) ==
    /\ beat[b].phase = "applying" /\ beat[b].left = {} /\ collectors \subseteq beat[b].targets /\ Alive
    /\ applied' = beat[b].revision
    /\ Over(b)
    /\ UNCHANGED <<collectors, starting, polled, closed>>

\* A collector has restored its baseline and collected, or its store failed.
Started(t) == \E restored \in BOOLEAN :
    /\ t \in starting /\ Alive
    /\ starting' = starting \ {t}
    /\ polled' = IF restored /\ ~closed THEN polled \cup {t} ELSE polled
    /\ UNCHANGED <<stage, signals, plane, beatVars, collectors, closed, applied>>

\* Before the handlers are installed a signal just ends the process.
Signal ==
    /\ Alive /\ stage \notin {"closing", "closed"}
    /\ stage' = IF signals THEN "closing" ELSE "exited"
    /\ UNCHANGED <<signals, plane, beatVars, managerVars>>

\* timelineManager.close(); a heartbeat that is being applied goes on.
CloseManager ==
    /\ stage = "closing"
    /\ stage' = "closed"
    /\ closed' = TRUE
    /\ collectors' = {} /\ starting' = {} /\ polled' = {}
    /\ UNCHANGED <<signals, plane, beatVars, applied>>

Exit ==
    /\ stage = "closed"
    /\ stage' = "exited"
    /\ UNCHANGED <<signals, plane, beatVars, managerVars>>

Next ==
    \/ Boot \/ BootFails \/ Decide \/ Scanned \/ Signal \/ CloseManager \/ Exit
    \/ \E c \in Callers : Scan(c) \/ Heartbeat(c)
    \/ \E b \in Beats : Answer(b) \/ HeartbeatFails(b) \/ Arrives(b) \/ StopUnwanted(b) \/ Want(b) \/ Applied(b)
    \/ \E t \in Targets : Started(t)

\* The interval fires, requests have a timeout, and what is awaited of the store settles
\* (see TimelineStoreClient).  The control plane is assumed to come back: an answer that
\* is on its way again and again arrives.
Fairness ==
    /\ WF_vars(Heartbeat("timer"))
    /\ \A b \in Beats :
          /\ SF_vars(Answer(b)) /\ SF_vars(Arrives(b))
          /\ WF_vars(StopUnwanted(b)) /\ WF_vars(Want(b)) /\ WF_vars(Applied(b))
    /\ \A t \in Targets : WF_vars(Started(t))

Spec == Init /\ [][Next]_vars /\ Fairness

-----------------------------------------------------------------------------
Stages == {"server", "exporter", "discovery", "heartbeat", "running", "closing", "closed", "exited"}

TypeOK ==
    /\ stage \in Stages /\ signals \in BOOLEAN
    /\ plane \in [revision : 0..MaxRevision, targets : SUBSET Targets]
    /\ scanning \in BOOLEAN /\ active \in {0} \cup Beats
    /\ beat \in [Beats -> [phase : {"none", "asking", "answered", "applying"}, revision : 0..MaxRevision,
                           targets : SUBSET Targets, left : SUBSET Targets]]
    /\ waiting \subseteq Callers \X {"discovery", "heartbeat"}
    /\ collectors \subseteq Targets /\ starting \subseteq collectors /\ polled \subseteq collectors
    /\ closed \in BOOLEAN /\ applied \in 0..MaxRevision

Tasks == INSTANCE SharedLoad WITH
    Readers <- Callers, Keys <- {"discovery", "heartbeat"},
    loads <- (IF scanning THEN {"discovery"} ELSE {}) \cup (IF active # 0 THEN {"heartbeat"} ELSE {})

\* coalesceAsyncTask (task-runner.js): one discovery and one heartbeat at a time, each
\* call is given the one that is active, and its end releases them all.
SharesLoads == Tasks!Spec

\* What the collectors are brought to never goes back to an older decision of the
\* control plane, although heartbeats fail, time out and take long to apply
\* (cli.js:187-218, timeline/index.js:477-497).
AppliedInOrder == [][applied' >= applied]_vars

\* A closed manager polls nothing, also when a heartbeat is still being applied
\* (timeline/index.js:370, 384, 516).
NothingLeftBehind == closed => polled = {}

\* While the process runs and once the control plane has decided, exactly the targets it
\* wants are polled in the end: "Heartbeats also repair a timer lost to a runtime/worker
\* interruption" (timeline/index.js:493).
DesiredIsReached ==
    [](stage \notin {"closing", "closed", "exited"}) /\ <>(stage = "running") => <>[](polled = plane.targets)
=============================================================================
