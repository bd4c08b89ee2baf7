------------------------------- MODULE Running -------------------------------
(***************************************************************************)
(* What runs in the agent by itself: the client of the Timeline store, the *)
(* alert scanner, the usage sampler, the agent process and a Timeline      *)
(* collector, side by side.  They share no state: a behaviour is one of    *)
(* the part in focus, the others rest in a reachable state in which none   *)
(* of their fair actions is enabled.                                       *)
(***************************************************************************)
EXTENDS TimelineStoreClient, Sequences, FiniteSets

CONSTANTS
    Managers, Channels, Findings, Configs, MaxHistory, MaxClock, MaxCrashes,
    Contexts, Readers, IdleStop, MaxSamples, MaxReads,
    Targets, Scanners, MaxRevision,
    Objects, Preexisting, MaxVersion, Sources, SourceOf, ProviderSources, Altered, Window, BatchSize,
    Collectors, None

VARIABLES focus, clock,
    crashes, provider, config, file, manager, observed,
    reads, sampler, current, timers, reader,
    process, signals, plane, scanning, active, beat, waiting, collectors, starting, polled, closed, applied,
    version, deleted, polling, phase, timer, stopped, baseline, listed, found, persisted, recorded, settled

alVars == <<clock, crashes, provider, config, file, manager, observed>>
usVars == <<reads, sampler, current, timers, reader>>
prVars == <<process, signals, plane, scanning, active, beat, waiting, collectors, starting, polled, closed, applied>>
tiVars == <<version, deleted, polling, phase, timer, stopped, baseline, listed, found, persisted, recorded,
            settled>>
allVars == <<focus, alVars, usVars, prVars, vars, tiVars>>

-----------------------------------------------------------------------------
Alerts == INSTANCE Alerting

\* Two of the parts come with what is proved of them, for the proofs about the whole.
Usage == INSTANCE UsageHistoryProofs

Agent == INSTANCE AgentProcess WITH stage <- process

Collector == INSTANCE TimelineProofs WITH current <- polling, pending <- found

\* The assumptions of TimelineCollector.
ASSUME CollectorAssumption ==
    /\ Objects \subseteq Nat /\ IsFiniteSet(Objects) /\ Preexisting \subseteq Objects
    /\ \A o \in Objects : SourceOf[o] \in Sources
    /\ ProviderSources \subseteq Sources
    /\ Altered \subseteq Objects \X (1..MaxVersion)
    /\ MaxVersion \in Nat \ {0} /\ Window \in Nat \ {0} /\ BatchSize \in Nat \ {0}
    /\ None \notin Collectors

ASSUME PartsAssumption == Alerts!ConfigAssumption /\ Usage!BoundAssumption /\ Agent!BoundAssumption

-----------------------------------------------------------------------------
\* A store that was opened and closed.
ClientClosed ==
    /\ stage = "closed" /\ sequence = 2 /\ closeId = 2 /\ pending = {}
    /\ outcome = [id \in Ids |-> IF id \in 1..2 THEN "answered" ELSE "none"]
    /\ fatal = FALSE /\ crashed = FALSE /\ worker = "dead"
    /\ inbox = {} /\ outbox = {} /\ handled = {1, 2}

\* It takes two requests.
ASSUME ClosedAssumption == MaxSequence >= 2

AllInit ==
    /\ focus \in {"alerting", "usage", "process", "client", "collector"}
    /\ Alerts!Init /\ (focus = "alerting" \/ (provider = "post" /\ config = Alerts!Default))
    /\ Usage!Init
    /\ Agent!Init /\ (focus = "process" \/ plane.targets = {})
    /\ IF focus = "client" THEN Init ELSE ClientClosed
    /\ Collector!Init

AllNext ==
    /\ UNCHANGED focus
    /\ \/ focus = "alerting" /\ Alerts!Next /\ UNCHANGED <<usVars, prVars, vars, tiVars>>
       \/ focus = "usage" /\ Usage!Next /\ UNCHANGED <<alVars, prVars, vars, tiVars>>
       \/ focus = "process" /\ Agent!Next /\ UNCHANGED <<alVars, usVars, vars, tiVars>>
       \/ focus = "client" /\ Next /\ UNCHANGED <<alVars, usVars, prVars, tiVars>>
       \/ focus = "collector" /\ Collector!Next /\ UNCHANGED <<alVars, usVars, prVars, vars>>

AllSpec ==
    /\ AllInit /\ [][AllNext]_allVars
    /\ Alerts!Fairness /\ Usage!Fairness /\ Agent!Fairness /\ Fairness /\ Collector!Fairness

-----------------------------------------------------------------------------
(* Each part is looked at while it is in focus: at rest it does not move.    *)

\* The type invariants of the parts.
AllTypeOK ==
    /\ focus = "client" => TypeOK
    /\ focus = "alerting" => Alerts!TypeOK
    /\ focus = "usage" => Usage!TypeOK
    /\ focus = "process" => Agent!TypeOK
    /\ focus = "collector" => Collector!TypeOK

\* See Alerting and AgentProcess.
CooldownHonoured == focus = "alerting" => Alerts!CooldownHonoured
SharesLoads == Agent!SharesLoads

\* The decisions of the control plane are applied, and the requests of the store
\* carried out, in the order they were made.
AppliedInOrder == Agent!AppliedInOrder /\ []InOrder

\* Timers, waiting readers and accepted requests end with what they belong to.
NothingLeftBehind ==
    /\ focus = "usage" => Usage!NothingLeftBehind
    /\ focus = "process" => Agent!NothingLeftBehind
    /\ focus = "client" => ClosedIsDrained

\* Alerting that was switched off ends, a sampler nobody reads stops, the Timeline
\* targets the control plane wants are started in the end and an enabled one is polled
\* again and again, and every request of the store, close included, settles.
SettlesInTheEnd ==
    /\ Alerts!QuietAfterDisabling /\ Usage!StopsInTheEnd /\ Agent!DesiredIsReached
    /\ EverySettles /\ CloseEnds /\ Collector!EnabledIsPolled
=============================================================================
