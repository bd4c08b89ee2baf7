------------------------------ MODULE Alerting ------------------------------
(***************************************************************************)
(* The alert scanner, agent/src/alerting.js.  A manager per kubeconfig     *)
(* context scans on a timer that the first request arms, delivers what it  *)
(* finds to the channels of the config, an alert again after a cooldown,   *)
(* and keeps a history.  The managers share one config file and one        *)
(* history file; neither is written atomically.                            *)
(***************************************************************************)
EXTENDS Integers, Sequences, FiniteSetsExt

CONSTANTS
    Managers,    \* the contexts
    Channels,
    Findings,    \* what a scan may find: sequences of fingerprints
    Configs,     \* what may be saved: enabled, the channels of the rule that are on, cooldown
    MaxHistory,  \* MAX_HISTORY_ITEMS
    MaxClock,    \* bound on the time a behaviour takes
    MaxCrashes   \* bound on restarts of the agent

Fingerprints == UNION {Range(f) : f \in Findings}
Keys == Fingerprints \X Channels

\* What readJsonFile makes of a file that is missing or torn.
Default == [enabled |-> FALSE, on |-> <<>>, cooldown |-> 600]

\* What is asked of the constants; who instances the module assumes it.
ConfigAssumption ==
    /\ \A c \in Configs : c \in [enabled : BOOLEAN, on : Seq(Channels), cooldown : Nat]
    /\ \A f \in Findings : f \in Seq(Fingerprints)
    /\ {MaxHistory, MaxClock, MaxCrashes} \subseteq Nat

VARIABLES
    clock, crashes,
    provider,  \* "post", or "smtp", which may never answer
    config,    \* the config file
    file,      \* the history file
    manager,   \* context -> what the agent keeps of it, Absent before a request
    observed   \* observation: when the last attempts and those before them began, by key,
               \* and the shortest time from one to the next but one

vars == <<clock, crashes, provider, config, file, manager, observed>>

Never == -1
ManualTest == <<"manual-test", "any">>
NoScan == [phase |-> "idle", config |-> Default, now |-> 0, todo |-> <<>>]
Absent == [there |-> FALSE, timer |-> FALSE, active |-> {}, lastSent |-> [k \in Keys |-> Never],
           history |-> <<>>, scan |-> NoScan, testing |-> FALSE]
NothingObserved == [m \in Managers |-> [k \in Keys |-> Never]]

Init ==
    /\ clock = 0 /\ crashes = 0
    /\ provider \in {"post", "smtp"}
    /\ config \in Configs \cup {Default}
    /\ file = <<>>
    /\ manager = [m \in Managers |-> Absent]
    /\ observed = [last |-> NothingObserved, before |-> NothingObserved, shortest |-> MaxClock]

Tick ==
    /\ clock < MaxClock
    /\ clock' = clock + 1
    /\ UNCHANGED <<crashes, provider, config, file, manager, observed>>

LastItems(items) == SubSeq(items, IF Len(items) > MaxHistory THEN Len(items) - MaxHistory + 1 ELSE 1, Len(items))

\* managerFor: made by the first request of the context, with the history of the file.
Opened(m) ==
    IF manager[m].there THEN manager[m]
    ELSE [Absent EXCEPT !.there = TRUE, !.history = LastItems(file)]

\* Mutant: a scan that finds alerting disabled ends at once.
ScanBegunKeeping(r, saved) ==
    IF r.scan.phase # "idle" \/ ~saved.enabled THEN r
    ELSE [r EXCEPT !.scan = [phase |-> "evaluating", config |-> saved, now |-> clock, todo |-> <<>>]]

\* The beginning of scan(), up to the first wait.
ScanBegun(r, saved) ==
    IF r.scan.phase # "idle" THEN r
    ELSE IF saved.enabled
         THEN [r EXCEPT !.scan = [phase |-> "evaluating", config |-> saved, now |-> clock, todo |-> <<>>]]
         ELSE [r EXCEPT !.active = {}]

\* Armed once, with the interval of that moment, and never taken away.
TimerEnsured(r, saved) ==
    IF r.timer \/ ~saved.enabled THEN r ELSE ScanBegun([r EXCEPT !.timer = TRUE], saved)

Summary(m) ==
    /\ manager' = [manager EXCEPT ![m] = TimerEnsured(Opened(m), config)]
    /\ UNCHANGED <<clock, crashes, provider, config, file, observed>>

Save(m) == \E saved \in Configs \ {config} :
    /\ config' = saved
    /\ manager' = [manager EXCEPT ![m] = TimerEnsured(Opened(m), saved)]
    /\ UNCHANGED <<clock, crashes, provider, file, observed>>

TimerFires(m) ==
    /\ manager[m].timer
    /\ manager' = [manager EXCEPT ![m] = ScanBegun(manager[m], config)]
    /\ UNCHANGED <<clock, crashes, provider, config, file, observed>>

Cooling(r, key, scan) ==
    r.lastSent[key] # Never /\ scan.now - r.lastSent[key] < scan.config.cooldown

\* deliver() of one alert after the other, up to the next one that is sent.
Delivering(r, scan, todo) ==
    LET due == {i \in 1..Len(todo) : ~Cooling(r, todo[i], scan)}
    IN  IF due = {} THEN [r EXCEPT !.scan = NoScan]
        ELSE [r EXCEPT !.scan = [scan EXCEPT !.phase = "sending", !.todo = SubSeq(todo, Min(due), Len(todo))]]

\* The enabled channels of the rule, for every alert in turn.
Deliveries(found, on) ==
    [i \in 1..(Len(found) * Len(on)) |-> <<found[((i - 1) \div Len(on)) + 1], on[((i - 1) % Len(on)) + 1]>>]

\* What is seen of an attempt that begins, now, with the manager in state r.
Shorter(m, key) ==
    LET first == observed.before[m][key]
    IN  IF first = Never \/ clock - first >= observed.shortest THEN observed.shortest ELSE clock - first

Attempting(m, r) ==
    IF r.scan.phase # "sending" THEN observed
    ELSE LET key == Head(r.scan.todo)
         IN  [last |-> [observed.last EXCEPT ![m][key] = clock],
              before |-> [observed.before EXCEPT ![m][key] = observed.last[m][key]],
              shortest |-> Shorter(m, key)]

\* The rules have been evaluated; one that could not be is an alert of its own.  Two
\* alerts of one rule may have the same fingerprint.
Evaluated(m) == \E found \in Findings :
    LET r == manager[m]
        s == r.scan
    IN  /\ s.phase = "evaluating"
        /\ manager' = [manager EXCEPT ![m] =
              Delivering([r EXCEPT !.active = Range(found)], s, Deliveries(found, s.config.on))]
        /\ observed' = Attempting(m, manager'[m])
        /\ UNCHANGED <<clock, crashes, provider, config, file>>

\* The kubeconfig cannot be read: the scan ends and what was active stays so.
EvaluationFails(m) ==
    /\ manager[m].scan.phase = "evaluating"
    /\ manager' = [manager EXCEPT ![m].scan = NoScan]
    /\ UNCHANGED <<clock, crashes, provider, config, file, observed>>

Recorded(r, key) == [r EXCEPT !.history = LastItems(Append(@, key))]

\* Mutant: a delivery that failed is tried again at the next scan.
SentCoolingIfDelivered(m) == \E delivered, persisted \in BOOLEAN :
    LET r == manager[m]
        s == r.scan
        key == Head(s.todo)
        sent == Recorded(IF delivered THEN [r EXCEPT !.lastSent[key] = s.now] ELSE r, key)
    IN  /\ s.phase = "sending"
        /\ manager' = [manager EXCEPT ![m] =
              IF persisted THEN Delivering(sent, s, Tail(s.todo)) ELSE [sent EXCEPT !.scan = NoScan]]
        /\ file' = IF persisted THEN sent.history ELSE file
        /\ observed' = Attempting(m, manager'[m])
        /\ UNCHANGED <<clock, crashes, provider, config>>

\* A delivery ends, well or badly: the cooldown starts either way.  If the history
\* cannot be written the rest of the scan is given up.
Sent(m) == \E persisted \in BOOLEAN :
    LET r == manager[m]
        s == r.scan
        key == Head(s.todo)
        sent == Recorded([r EXCEPT !.lastSent[key] = s.now], key)
    IN  /\ s.phase = "sending"
        /\ manager' = [manager EXCEPT ![m] =
              IF persisted THEN Delivering(sent, s, Tail(s.todo)) ELSE [sent EXCEPT !.scan = NoScan]]
        /\ file' = IF persisted THEN sent.history ELSE file
        /\ observed' = Attempting(m, manager'[m])
        /\ UNCHANGED <<clock, crashes, provider, config>>

\* A test message goes out beside a scan; only a delivered one is recorded.
Test(m) ==
    /\ ~manager[m].testing
    /\ manager' = [manager EXCEPT ![m] = [Opened(m) EXCEPT !.testing = TRUE]]
    /\ UNCHANGED <<clock, crashes, provider, config, file, observed>>

Tested(m) == \E delivered \in BOOLEAN :
    LET r == [manager[m] EXCEPT !.testing = FALSE]
    IN  /\ manager[m].testing
        /\ IF delivered
           THEN /\ manager' = [manager EXCEPT ![m] = Recorded(r, ManualTest)]
                /\ file' = manager'[m].history
           ELSE manager' = [manager EXCEPT ![m] = r] /\ UNCHANGED file
        /\ UNCHANGED <<clock, crashes, provider, config, observed>>

\* The agent restarts, perhaps in the middle of writing one of the files.
Crash == \E torn \in {"none", "config", "history"} :
    /\ crashes < MaxCrashes
    /\ crashes' = crashes + 1
    /\ config' = IF torn = "config" THEN Default ELSE config
    /\ file' = IF torn = "history" THEN <<>> ELSE file
    /\ manager' = [m \in Managers |-> Absent]
    /\ observed' = [observed EXCEPT !.last = NothingObserved, !.before = NothingObserved]
    /\ UNCHANGED <<clock, provider>>

Next ==
    \/ Tick \/ Crash
    \/ \E m \in Managers :
          Summary(m) \/ Save(m) \/ TimerFires(m) \/ Evaluated(m) \/ EvaluationFails(m) \/ Sent(m) \/ Test(m) \/ Tested(m)

\* The timer fires, the lists of an evaluation have deadlines, a posted message is
\* answered or given up by fetch.  Nothing ends a mail server's silence.
Fairness == \A m \in Managers :
    /\ WF_vars(TimerFires(m)) /\ WF_vars(Evaluated(m) \/ EvaluationFails(m))
    /\ WF_vars(provider = "post" /\ Sent(m))

Spec == Init /\ [][Next]_vars /\ Fairness

-----------------------------------------------------------------------------
TypeOK ==
    /\ clock \in 0..MaxClock /\ crashes \in 0..MaxCrashes
    /\ config \in Configs \cup {Default}
    /\ Len(file) =< MaxHistory
    /\ \A m \in Managers :
          LET r == manager[m]
          IN  /\ DOMAIN r = DOMAIN Absent /\ Len(r.history) =< MaxHistory
              /\ r.active \subseteq Fingerprints
              /\ r.scan.phase \in {"idle", "evaluating", "sending"}
              /\ (r.scan.phase = "sending") = (r.scan.todo # <<>>)
              /\ r.lastSent \in [Keys -> Never..MaxClock]

\* While the agent runs, a channel is told of one alert at most twice within a cooldown, the
\* shortest of those configured: from an attempt to the next but one a cooldown passes,
\* whatever scans, saves and alerts with the same fingerprint come between.  The cooldown is
\* counted from the beginnings of the scans (deliver, alerting.js:705-743, :693), so that a
\* late attempt of a slow scan and a prompt one of the next may be closer than that.
CooldownHonoured == observed.shortest >= Min({c.cooldown : c \in Configs} \cup {MaxClock})

\* Alerting that is switched off for good has no active alert left in the end: the
\* timer outlives the switch, and the running scan ends (scan, alerting.js:680-703).
QuietAfterDisabling ==
    provider = "post" /\ <>[]~config.enabled => \A m \in Managers : <>[](manager[m].active = {})
=============================================================================
