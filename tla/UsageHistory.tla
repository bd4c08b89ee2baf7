---------------------------- MODULE UsageHistory ----------------------------
(***************************************************************************)
(* The usage sampler, agent/src/usage-history.js: reading the history of a *)
(* context makes a sampler with a timer, the first sample is taken at once *)
(* and the reader waits for it, and a sampler nobody reads stops itself.   *)
(* A sample under way outlives its sampler; a new one may then be made.    *)
(***************************************************************************)
EXTENDS Integers, FiniteSets

CONSTANTS
    Contexts, Readers,
    IdleStop,     \* IDLE_STOP_MS
    MaxSamples,   \* USAGE_HISTORY_SAMPLES
    MaxReads      \* bound on the reads of a behaviour

\* What is asked of the constants; who instances the module assumes it.
BoundAssumption == IdleStop \in Nat /\ MaxSamples \in Nat \ {0} /\ MaxReads \in Nat

VARIABLES
    reads,    \* how many reads there were
    sampler,  \* number -> a sampler object, also one that was stopped
    current,  \* context -> the number of its sampler in the map, 0 for none
    timers,   \* the samplers whose interval is armed
    reader    \* reader -> what it waits for or got

vars == <<reads, sampler, current, timers, reader>>

SamplerObjects == 1..MaxReads
Unmade == [made |-> FALSE, idle |-> 0, inFlight |-> FALSE, first |-> FALSE, samples |-> 0]

Init ==
    /\ reads = 0
    /\ sampler = [n \in SamplerObjects |-> Unmade]
    /\ current = [c \in Contexts |-> 0]
    /\ timers = {}
    /\ reader = [r \in Readers |-> [phase |-> "idle", on |-> 0, samples |-> 0]]

\* Time goes by for the samplers that may still be read.
Tick ==
    /\ \E n \in timers : sampler[n].idle =< IdleStop
    /\ sampler' = [n \in SamplerObjects |->
          IF sampler[n].made /\ sampler[n].idle =< IdleStop THEN [sampler[n] EXCEPT !.idle = @ + 1] ELSE sampler[n]]
    /\ UNCHANGED <<reads, current, timers, reader>>

\* ensure(): a sampler is made with its first sample under way, before its timer.
Ensure(c) ==
    LET n == IF current[c] # 0 THEN current[c] ELSE reads + 1
    IN  /\ sampler' = [sampler EXCEPT ![n] =
              IF current[c] # 0 THEN [@ EXCEPT !.idle = 0]
              ELSE [Unmade EXCEPT !.made = TRUE, !.inFlight = TRUE, !.first = TRUE]]
        /\ current' = [current EXCEPT ![c] = n]
        /\ timers' = timers \cup {n}

\* read(): with nothing sampled yet it waits for the first sample.
Read(r, c) ==
    /\ reads < MaxReads /\ reader[r].phase # "waiting"
    /\ reads' = reads + 1
    /\ Ensure(c)
    /\ LET n == current'[c]
           s == sampler'[n]
       IN  reader' = [reader EXCEPT ![r] =
              [phase |-> IF s.samples = 0 /\ s.first THEN "waiting" ELSE "answered", on |-> n, samples |-> s.samples]]

\* Mutant: the sampler leaves the map, its timer runs on.
StopKeepingTimer(c) ==
    /\ current' = [current EXCEPT ![c] = 0]
    /\ UNCHANGED timers

Stop(c) ==
    /\ current' = [current EXCEPT ![c] = 0]
    /\ timers' = timers \ {current[c]}

\* The interval of the context's sampler: a sample still under way is let be, one
\* nobody reads any more stops, else the next sample begins.
TimerFires(c) ==
    /\ current[c] \in timers /\ ~sampler[current[c]].inFlight
    /\ IF sampler[current[c]].idle > IdleStop
       THEN Stop(c) /\ UNCHANGED sampler
       ELSE sampler' = [sampler EXCEPT ![current[c]].inFlight = TRUE] /\ UNCHANGED <<current, timers>>
    /\ UNCHANGED <<reads, reader>>

\* The metrics arrive, or not; those who waited for the first sample are answered.
Sampled(n) == \E available \in BOOLEAN :
    LET s == sampler[n]
        samples == IF available /\ s.samples < MaxSamples THEN s.samples + 1 ELSE s.samples
    IN  /\ s.inFlight
        /\ sampler' = [sampler EXCEPT ![n].inFlight = FALSE, ![n].first = FALSE, ![n].samples = samples]
        /\ reader' = [r \in Readers |-> IF reader[r].phase = "waiting" /\ reader[r].on = n
                                        THEN [reader[r] EXCEPT !.phase = "answered", !.samples = samples]
                                        ELSE reader[r]]
        /\ UNCHANGED <<reads, current, timers>>

\* close(): every sampler stops, whatever is under way.
Close ==
    /\ current # [c \in Contexts |-> 0]
    /\ current' = [c \in Contexts |-> 0]
    /\ timers' = timers \ {current[c] : c \in Contexts}
    /\ UNCHANGED <<reads, sampler, reader>>

Next ==
    \/ Tick \/ Close
    \/ \E r \in Readers, c \in Contexts : Read(r, c)
    \/ \E c \in Contexts : TimerFires(c)
    \/ \E n \in SamplerObjects : Sampled(n)

\* Time goes by, the interval fires, and loadLocalMetrics settles: it has deadlines.
Fairness ==
    /\ WF_vars(Tick)
    /\ \A c \in Contexts : WF_vars(TimerFires(c))
    /\ \A n \in SamplerObjects : WF_vars(Sampled(n))

Spec == Init /\ [][Next]_vars /\ Fairness

-----------------------------------------------------------------------------
TypeOK ==
    /\ reads \in 0..MaxReads
    /\ sampler \in [SamplerObjects -> [made : BOOLEAN, idle : 0..(IdleStop + 1), inFlight : BOOLEAN,
                                first : BOOLEAN, samples : 0..MaxSamples]]
    /\ current \in [Contexts -> 0..MaxReads] /\ timers \subseteq SamplerObjects
    /\ reader \in [Readers -> [phase : {"idle", "waiting", "answered"}, on : 0..MaxReads, samples : 0..MaxSamples]]

\* "One sampler per kubeconfig context" (usage-history.js:2): the armed timers are those
\* of the samplers in the map, no timer is left of one that stopped, and a reader waits
\* only for a sample that is under way, be its sampler still there or not.
NothingLeftBehind ==
    /\ timers = {current[c] : c \in Contexts} \ {0}
    /\ \A c, d \in Contexts : current[c] = current[d] /\ current[c] # 0 => c = d
    /\ \A r \in Readers : reader[r].phase = "waiting" => sampler[reader[r].on].inFlight

\* "stops after an idle period" (usage-history.js:3): in the end, when nobody reads any
\* more, nothing samples.
StopsInTheEnd == <>[](timers = {} /\ \A n \in SamplerObjects : ~sampler[n].inFlight)
=============================================================================
