---------------------------- MODULE TimelineEvents ----------------------------
(***************************************************************************)
(* The reducers of agent/src/timeline/events.js: what the Timeline tells   *)
(* of one object that two polls saw differently.                           *)
(*                                                                         *)
(* The object lives its own life and is polled at any moment, so a poll    *)
(* may skip states.  A told change names an aspect of the object, its      *)
(* value before and after; a reader who starts from the baseline and       *)
(* follows the told changes knows the values "shown".  How severe a change *)
(* is, and how it is worded, is left out.                                  *)
(***************************************************************************)
EXTENDS Integers

CONSTANTS
    MaxRestarts,   \* bound on the restarts of a container
    MaxCount       \* bound on the occurrences of an Event

\* What is asked of the constants; who instances the module assumes it.
TimelineEventsAssumption == MaxRestarts \in Nat /\ MaxCount \in Nat \ {0}

VARIABLES
    kind,       \* of the object
    object,     \* as the API server has it
    baseline,   \* as the last poll saw it
    shown       \* aspect -> value, as told

vars == <<kind, object, baseline, shown>>

-----------------------------------------------------------------------------
(* The objects (external): a pod of one container, a node, a workload, a   *)
(* volume, a CronJob, a Job, an object of a delivery or backup controller  *)
(* and a Kubernetes Event.  Conditions, once there, stay.                  *)

First == [
    pod |-> [state |-> "running", last |-> "none", ready |-> FALSE, restarts |-> 0,
             phase |-> "Running", condition |-> "False"],
    node |-> [Ready |-> "True", MemoryPressure |-> "False", unschedulable |-> FALSE, version |-> "v1"],
    workload |-> [images |-> "i1", replicas |-> 1, revision |-> "r1", Available |-> "False",
                  Progressing |-> <<"True", "ReplicaSetUpdated">>],
    volume |-> [phase |-> "Pending"],
    cronjob |-> [suspend |-> FALSE],
    job |-> [Complete |-> "none", Failed |-> "none", FailureTarget |-> "none"],
    provider |-> [phase |-> "Running", revision |-> "r1", ready |-> "Unknown", error |-> FALSE],
    event |-> [count |-> 0, time |-> 0]]

Kinds == DOMAIN First

Problems == {"OOMKilled", "Error", "CrashLoopBackOff"}

PodLives ==
    \/ /\ object.state = "running" /\ object.phase = "Running"
       /\ \E reason \in {"OOMKilled", "Error"} :
             object' = [object EXCEPT !.state = reason, !.ready = FALSE, !.condition = "False"]
    \/ /\ object.state \in {"OOMKilled", "Error"} /\ object.phase = "Running"
       /\ object' = [object EXCEPT !.state = "CrashLoopBackOff", !.last = object.state]
    \/ /\ object.state \in Problems /\ object.phase = "Running" /\ object.restarts < MaxRestarts
       /\ object' = [object EXCEPT !.state = "running", !.restarts = @ + 1,
                                   !.last = IF object.state = "CrashLoopBackOff" THEN @ ELSE object.state]
    \/ /\ object.state = "running" /\ object.phase = "Running"
       /\ object' = [object EXCEPT !.ready = ~@, !.condition = IF object.ready THEN "False" ELSE "True"]
    \/ /\ object.phase = "Running"
       /\ object' = [object EXCEPT !.phase = "Evicted", !.state = "Error", !.ready = FALSE, !.condition = "False"]

\* The values an aspect of the other kinds may take.  An image or a revision may be told
\* apart from another by a digest only.
Values == [
    Ready |-> {"True", "False", "Unknown"}, MemoryPressure |-> {"True", "False"},
    unschedulable |-> BOOLEAN, version |-> {"v1", "v2"},
    images |-> {"i1", "digest1", "digest2"}, replicas |-> {1, 2},
    revision |-> {"r1", "digest1", "digest2"}, Available |-> {"True", "False"},
    Progressing |-> {<<"True", "ReplicaSetUpdated">>, <<"True", "NewReplicaSetAvailable">>,
                     <<"False", "ProgressDeadlineExceeded">>},
    phase |-> {"Pending", "Running", "Bound", "Lost", "Failed"}, suspend |-> BOOLEAN,
    ready |-> {"True", "False", "Unknown"}, error |-> BOOLEAN]

JobLives ==
    /\ object.Complete = "none" /\ object.Failed = "none"
    /\ \/ object.FailureTarget = "none" /\ object' = [object EXCEPT !.Complete = "True"]
       \/ object.FailureTarget = "none" /\ object' = [object EXCEPT !.FailureTarget = "True"]
       \/ object' = [object EXCEPT !.Failed = "True"]

EventRepeats ==
    /\ object.count < MaxCount
    /\ object' = [object EXCEPT !.count = @ + 1, !.time = @ + 1]

Live ==
    /\ CASE kind = "pod" -> PodLives
         [] kind = "job" -> JobLives
         [] kind = "event" -> EventRepeats
         [] OTHER -> \E aspect \in DOMAIN object : \E value \in Values[aspect] \ {object[aspect]} :
                        object' = [object EXCEPT ![aspect] = value]
    /\ UNCHANGED <<kind, baseline, shown>>

-----------------------------------------------------------------------------
(* The reducers: the aspects that are told when an object was o and is n   *)

\* containerProblem
Problem(pod) == IF pod.state \in Problems THEN pod.state ELSE "none"

\* The last termination decides, the current one only if there was none before.
Cause(pod) ==
    IF "OOMKilled" = (IF pod.last # "none" THEN pod.last ELSE pod.state) THEN "OOMKilled" ELSE "ContainerRestarted"

Restarted(o, n) == n.restarts > o.restarts

\* A restart after an OOM kill tells the kill as well.
ProblemTold(o, n) ==
    \/ /\ Problem(n) \notin {Problem(o), "none"}
       /\ ~(Restarted(o, n) /\ Cause(n) = "OOMKilled" /\ Problem(n) = "OOMKilled")
    \/ Problem(o) # "none" /\ Problem(n) = "none" /\ n.state = "running" /\ n.ready

\* What the pod is now told to be; a kill is remembered until the next problem.
ReducePod(o, n) ==
    LET killed == Restarted(o, n) /\ Cause(n) = "OOMKilled"
        told == {a \in {"phase", "condition"} : o[a] # n[a]}
                \cup (IF Restarted(o, n) THEN {"restarts"} ELSE {})
                \cup (IF ProblemTold(o, n) THEN {"problem", "killed"} ELSE {})
                \cup (IF killed THEN {"killed"} ELSE {})
    IN  [a \in told |->
            CASE a = "killed" -> killed
              [] a = "problem" -> IF Problem(n) = "none" THEN "Ready" ELSE Problem(n)
              [] OTHER -> n[a]]

\* sanitizeTimelineText, of an object: a run of 32 token characters and more, as a digest is,
\* is redacted.
Sanitized(o) ==
    [a \in DOMAIN o |-> IF a \in {"images", "revision"} /\ o[a] \in {"digest1", "digest2"}
                        THEN "[REDACTED]" ELSE o[a]]

\* Images, replicas, revisions, versions and flags are told when their sanitized texts differ,
\* conditions when their status does; a rollout that completes keeps its status and changes
\* the reason.
ReduceAspects(o, n, aspects) ==
    LET before == Sanitized(o)
        after == Sanitized(n)
        changed == {a \in aspects :
            IF a = "Progressing"
            THEN \/ before[a][1] # after[a][1]
                 \/ after[a] = <<"True", "NewReplicaSetAvailable">> /\ before[a] # after[a]
            ELSE before[a] # after[a]}
    IN  [a \in changed |-> after[a]]

\* What is only a target of failure is not told next to the failure itself.
ReduceJob(o, n) ==
    [a \in {a \in DOMAIN n : /\ n[a] = "True" /\ o[a] # "True"
                             /\ ~(a = "FailureTarget" /\ n.Failed = "True")} |-> n[a]]

ReduceProvider(o, n) ==
    [a \in (IF Sanitized(o) = Sanitized(n) THEN {} ELSE {"status"}) |-> Sanitized(n)]

\* An Event is told when it is first seen and when it occurs again.
ReduceKubernetesEvent(o, n) ==
    LET known == \/ n.count = 0
                 \/ o.count # 0 /\ (o = n \/ n.count < o.count \/ (n.count = o.count /\ n.time =< o.time))
    IN  [a \in (IF known THEN {} ELSE {"occurrence"}) |-> n]

ReduceObject(k, o, n) ==
    CASE k = "pod" -> ReducePod(o, n)
      [] k = "job" -> ReduceJob(o, n)
      [] k = "provider" -> ReduceProvider(o, n)
      [] k = "event" -> ReduceKubernetesEvent(o, n)
      [] OTHER -> ReduceAspects(o, n, DOMAIN n)

-----------------------------------------------------------------------------
\* What a reader knows of an object without having been told a change; its texts are known
\* as they are told.
Known(k, o) ==
    CASE k = "pod" -> [restarts |-> o.restarts, killed |-> FALSE, problem |-> Problem(o),
                       phase |-> o.phase, condition |-> o.condition]
      [] k = "provider" -> [status |-> Sanitized(o)]
      [] k = "event" -> [occurrence |-> o]
      [] OTHER -> Sanitized(o)

\* What is known once changes have been told.
After(known, told) ==
    [a \in DOMAIN known \cup DOMAIN told |-> IF a \in DOMAIN told THEN told[a] ELSE known[a]]

Init ==
    /\ kind \in Kinds
    /\ object = First[kind]
    /\ baseline = object
    /\ shown = Known(kind, object)

Poll ==
    /\ baseline' = object
    /\ shown' = After(shown, ReduceObject(kind, baseline, object))
    /\ UNCHANGED <<kind, object>>

Next == Live \/ Poll

Spec == Init /\ [][Next]_vars

-----------------------------------------------------------------------------
(* Properties                                                              *)

TypeOK ==
    /\ kind \in Kinds
    /\ DOMAIN object = DOMAIN First[kind]
    /\ DOMAIN baseline = DOMAIN First[kind]
    /\ DOMAIN shown = DOMAIN Known(kind, First[kind])

\* Whatever the polls skip, who follows the told changes knows the object as the last poll
\* saw it: how often its container restarted and what is wrong with it, its phase and its
\* conditions, whether a rollout is complete, how a Job ended, and the last occurrence of an
\* Event.  What is wrong with a container is the last problem that was told; a kill may have been
\* told as the cause of a restart since.  Images and revisions are known as their sanitized
\* texts, which are what the reducers compare: of two digests the change is not told.
\* (agent/src/timeline/events.js:20, :152, :208, :261, :280, :344)
ChangesAreTold ==
    CASE kind = "pod" ->
            /\ shown.restarts = baseline.restarts
            /\ shown.phase = baseline.phase /\ shown.condition = baseline.condition
            /\ Problem(baseline) # "none" =>
                  \/ shown.problem = Problem(baseline)
                  \/ shown.killed /\ Problem(baseline) = "OOMKilled"
      [] kind = "workload" ->
            /\ \A a \in DOMAIN baseline \ {"Progressing"} : shown[a] = Sanitized(baseline)[a]
            /\ shown.Progressing[1] = baseline.Progressing[1]
            /\ baseline.Progressing[2] = "NewReplicaSetAvailable" => shown.Progressing = baseline.Progressing
      [] kind = "job" ->
            /\ shown.Complete = baseline.Complete /\ shown.Failed = baseline.Failed
            /\ baseline.FailureTarget = "True" => "True" \in {shown.FailureTarget, shown.Failed}
      [] OTHER -> shown = Known(kind, baseline)
=============================================================================
