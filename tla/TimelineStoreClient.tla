------------------------ MODULE TimelineStoreClient ------------------------
(***************************************************************************)
(* The client of the Timeline store, agent/src/timeline/store.js: requests *)
(* go to a worker thread over a message port, each with an id and a timer, *)
(* and the worker answers with the id.  The worker may be slow, may die,   *)
(* and close() drains what was accepted before it ends the worker.         *)
(*                                                                         *)
(* A request refused at once (fatal, closed, queue full, bad key, too      *)
(* large) changes nothing and is not a step.  Ids count up, and both ports *)
(* deliver in order, so a port is the set of the ids in it.                *)
(***************************************************************************)
EXTENDS Integers, FiniteSets

CONSTANTS
    MaxQueue,    \* maxQueue
    MaxSequence  \* bound on the requests of one store

ASSUME BoundAssumption == MaxQueue \in Nat \ {0} /\ MaxSequence \in Nat \ {0}

VARIABLES
    stage,     \* of createTimelineStore() and close()
    sequence,  \* the last id given out; 1 is init
    closeId,   \* the id of the close request, 0 before it
    pending,   \* ids with a caller waiting and a timer armed
    outcome,   \* what the caller of an id was told
    fatal,
    worker,    \* "running" or "dead"
    inbox,     \* ids posted to the worker
    outbox,    \* ids the worker has answered
    \* observations, read by no action
    handled,   \* ids whose operation the worker has carried out
    crashed    \* the worker died by itself

clientVars == <<stage, sequence, closeId, pending, outcome, fatal>>
workerVars == <<worker, inbox, outbox, handled, crashed>>
vars == <<clientVars, workerVars>>

Ids == 1..MaxSequence
\* The message a port delivers next.
First(id, ids) == id \in ids /\ \A other \in ids : id =< other

Init ==
    /\ stage = "opening"
    /\ sequence = 1 /\ closeId = 0
    /\ pending = {1}
    /\ outcome = [id \in Ids |-> "none"]
    /\ fatal = FALSE
    /\ worker = "running"
    /\ inbox = {1} /\ outbox = {}
    /\ handled = {} /\ crashed = FALSE

\* A message posted to a worker that is gone is dropped without an error.
Post ==
    /\ sequence < MaxSequence
    /\ sequence' = sequence + 1
    /\ pending' = pending \cup {sequence + 1}
    /\ inbox' = IF worker = "running" THEN inbox \cup {sequence + 1} ELSE inbox

\* request(): accepted.
Request ==
    /\ stage = "open"
    /\ ~fatal
    /\ Cardinality(pending) < MaxQueue
    /\ Post
    /\ UNCHANGED <<stage, closeId, outcome, fatal, worker, outbox, handled, crashed>>

\* Mutant: close() also asks a worker that is known to be gone.
CloseIgnoresFatal ==
    /\ stage = "open"
    /\ stage' = "draining"
    /\ closeId' = sequence + 1
    /\ Post
    /\ UNCHANGED <<outcome, fatal, worker, outbox, handled, crashed>>

\* close(): one more request, whatever the length of the queue, unless the worker
\* is known to be gone.
Close ==
    /\ stage = "open"
    /\ \/ /\ fatal
          /\ stage' = "terminating"
          /\ UNCHANGED <<sequence, closeId, pending, inbox>>
       \/ /\ ~fatal
          /\ stage' = "draining"
          /\ closeId' = sequence + 1
          /\ Post
    /\ UNCHANGED <<outcome, fatal, worker, outbox, handled, crashed>>

Settle(ids, told) ==
    /\ pending' = pending \ ids
    /\ outcome' = [id \in Ids |-> IF id \in ids THEN told ELSE outcome[id]]

\* requestTimeoutMs is over; the worker is not told.
TimerFires(id) ==
    /\ id \in pending
    /\ Settle({id}, "timed out")
    /\ UNCHANGED <<stage, sequence, closeId, fatal, workerVars>>

\* Mutant: answers are matched by position.
AnswerToOldest ==
    /\ \E id \in outbox, waiting \in pending :
        /\ First(id, outbox) /\ First(waiting, pending)
        /\ outbox' = outbox \ {id}
        /\ Settle({waiting}, "answered")
    /\ UNCHANGED <<stage, sequence, closeId, fatal, worker, inbox, handled, crashed>>

\* handleMessage: the result or the error of the operation; late answers are ignored.
HandleMessage ==
    /\ \E id \in outbox :
        /\ First(id, outbox)
        /\ outbox' = outbox \ {id}
        /\ Settle({id} \cap pending, "answered")
    /\ UNCHANGED <<stage, sequence, closeId, fatal, worker, inbox, handled, crashed>>

\* Mutant: only new requests are refused.
FailKeepsPending ==
    /\ worker = "dead"
    /\ fatal' = TRUE
    /\ outcome' = [id \in Ids |-> IF id \in pending THEN "failed" ELSE outcome[id]]
    /\ UNCHANGED <<stage, sequence, closeId, pending, workerVars>>

\* The worker's `error' or `exit' event: fail().  After close() an exit is expected.
Fail ==
    /\ worker = "dead"
    /\ stage \in {"opening", "open"} \/ pending # {}
    /\ fatal' = TRUE
    /\ Settle(pending, "failed")
    /\ UNCHANGED <<stage, sequence, closeId, workerVars>>

\* createTimelineStore() goes on when init has settled; an answer may be an error.
Opened ==
    /\ stage = "opening" /\ outcome[1] # "none"
    /\ stage' \in IF outcome[1] = "answered" THEN {"open", "terminating"} ELSE {"terminating"}
    /\ UNCHANGED <<sequence, closeId, pending, outcome, fatal, workerVars>>

\* close() goes on when its request has settled, one way or the other.
Drained ==
    /\ stage = "draining" /\ outcome[closeId] # "none"
    /\ stage' = "terminating"
    /\ UNCHANGED <<sequence, closeId, pending, outcome, fatal, workerVars>>

\* worker.terminate(), whatever the worker is doing.
Terminate ==
    /\ stage = "terminating"
    /\ stage' = "closed"
    /\ worker' = "dead" /\ inbox' = {}
    /\ UNCHANGED <<sequence, closeId, pending, outcome, fatal, outbox, handled, crashed>>

\* The worker's message handler: one operation at a time, answered in any case.
Handles ==
    /\ worker = "running"
    /\ \E id \in inbox :
        /\ First(id, inbox)
        /\ inbox' = inbox \ {id}
        /\ outbox' = outbox \cup {id}
        /\ handled' = handled \cup {id}
    /\ UNCHANGED <<clientVars, worker, crashed>>

\* The worker dies (external).
Crash ==
    /\ worker = "running"
    /\ worker' = "dead" /\ inbox' = {} /\ crashed' = TRUE
    /\ UNCHANGED <<clientVars, outbox, handled>>

Next ==
    \/ Request \/ Close \/ HandleMessage \/ Fail
    \/ \E id \in Ids : TimerFires(id)
    \/ Opened \/ Drained \/ Terminate
    \/ Handles \/ Crash

Spec == Init /\ [][Next]_vars

\* Timers fire and the event loop runs; nothing is assumed of the worker.
Fairness ==
    /\ WF_vars(Opened) /\ WF_vars(Drained) /\ WF_vars(Terminate)
    /\ \A id \in Ids : WF_vars(TimerFires(id))

FairSpec == Spec /\ Fairness

-----------------------------------------------------------------------------
(* Properties *)

Stages == {"opening", "open", "draining", "terminating", "closed"}
Outcomes == {"none", "answered", "timed out", "failed"}

\* Types; a caller waits exactly until it was told something.
TypeOK ==
    /\ stage \in Stages
    /\ sequence \in Ids /\ closeId \in 0..sequence
    /\ outcome \in [Ids -> Outcomes]
    /\ pending \subseteq 1..sequence
    /\ \A id \in Ids : IF id \in 1..sequence THEN id \in pending <=> outcome[id] = "none"
                       ELSE outcome[id] = "none"
    /\ fatal \in BOOLEAN /\ crashed \in BOOLEAN
    /\ worker \in {"running", "dead"}
    /\ inbox \subseteq 1..sequence /\ outbox \subseteq handled /\ handled \subseteq 1..sequence

\* Whoever is told that the worker answered had its own operation carried out: an
\* answer that comes after its caller's timeout never settles another request.
AnswersAreTrue == \A id \in Ids : outcome[id] = "answered" => id \in handled

\* The worker carries requests out in the order they were accepted, also those
\* whose caller has given up: what a failed request still does, it does before
\* anything asked later.  The collector's AppendFails and SaveFails rest on this.
InOrder == \A id \in handled : 1..id \subseteq handled

\* Once the worker is known to be gone nobody waits for it: not those who were
\* waiting, not those who ask later, not close() (lines 48, 75 and 123).
NobodyWaitsForDead == fatal => pending = {}

\* "Drain accepted work even when the bounded public queue is full" (line 121): when
\* close() has ended the worker, all that was accepted was carried out and answered,
\* unless the worker died or the last request, which is close, timed out.
ClosedIsDrained ==
    stage = "closed" /\ ~crashed /\ (\A id \in {1, sequence} : outcome[id] # "timed out") =>
        handled = 1..sequence /\ pending = {}

\* Every accepted request settles, even if the worker never answers.
EverySettles == \A id \in Ids : (id =< sequence) ~> (outcome[id] # "none")

\* close() ends, even if the worker never answers.
CloseEnds == (stage = "draining") ~> (stage = "closed")
=============================================================================
