--------------------------- MODULE RunningProofs ---------------------------
(***************************************************************************)
(* Proofs about what runs by itself, for any queue, contexts, channels,    *)
(* targets and bounds: the client of the Timeline store, the agent         *)
(* process, the alert scanner, and all of them side by side with the usage *)
(* sampler and the collector, whose proofs are in modules of their own.    *)
(***************************************************************************)
EXTENDS Running, DataProofs, TLAPS

-----------------------------------------------------------------------------
(* The client of the Timeline store *)

USE BoundAssumption

\* The parts of TypeOK that are about the callers, and the others.
Callers ==
    /\ pending \subseteq 1..sequence
    /\ \A id \in Ids : IF id \in 1..sequence THEN id \in pending <=> outcome[id] = "none"
                       ELSE outcome[id] = "none"

LEMMA TypeInit == Init => TypeOK
<1> SUFFICES ASSUME Init PROVE TypeOK
  OBVIOUS
<1>1. Callers
  BY DEF Init, Callers, Ids
<1>2. sequence \in Ids /\ closeId \in 0..sequence /\ inbox \subseteq 1..sequence
  BY DEF Init, Ids
<1>3. QED
  BY <1>1, <1>2 DEF Init, TypeOK, Callers, Stages, Outcomes

\* Telling the callers of some ids something keeps TypeOK.
LEMMA SettleType ==
    ASSUME TypeOK, NEW ids, NEW told \in Outcomes \ {"none"}, Settle(ids \cap pending, told),
           UNCHANGED sequence
    PROVE  Callers' /\ outcome' \in [Ids -> Outcomes]
<1>1. outcome' \in [Ids -> Outcomes]
  BY DEF Settle, TypeOK
<1>2. pending' \subseteq 1..sequence
  BY DEF Settle, TypeOK
<1>3. ASSUME NEW id \in Ids
      PROVE  IF id \in 1..sequence THEN id \in pending' <=> outcome'[id] = "none"
             ELSE outcome'[id] = "none"
  BY DEF Settle, TypeOK
<1>4. QED
  BY <1>1, <1>2, <1>3 DEF Callers

LEMMA PostType ==
    ASSUME TypeOK, Post, UNCHANGED outcome
    PROVE  Callers' /\ sequence' \in Ids /\ inbox' \subseteq 1..sequence'
<1>1. sequence' = sequence + 1 /\ sequence' \in Ids /\ sequence \in Nat
  BY DEF Post, TypeOK, Ids
<1>2. inbox' \subseteq 1..sequence' /\ pending' \subseteq 1..sequence'
  BY <1>1 DEF Post, TypeOK
<1>3. ASSUME NEW id \in Ids
      PROVE  IF id \in 1..sequence' THEN id \in pending' <=> outcome'[id] = "none"
             ELSE outcome'[id] = "none"
  BY <1>1 DEF Post, TypeOK, Ids
<1>4. QED
  BY <1>1, <1>2, <1>3 DEF Callers

LEMMA TypeStep == TypeOK /\ [Next]_vars => TypeOK'
<1> SUFFICES ASSUME TypeOK, [Next]_vars
             PROVE  TypeOK'
  OBVIOUS
<1> USE DEF clientVars, workerVars
<1>1. CASE Request
  <2>1. Callers' /\ sequence' \in Ids /\ inbox' \subseteq 1..sequence' /\ sequence' = sequence + 1
    BY <1>1, PostType DEF Request, Post
  <2>2. QED
    BY <1>1, <2>1 DEF Request, TypeOK, Callers, Ids
<1>2. CASE Close
  <2>1. CASE Post /\ closeId' = sequence + 1 /\ stage' = "draining"
    <3>1. Callers' /\ sequence' \in Ids /\ inbox' \subseteq 1..sequence' /\ sequence' = sequence + 1
      BY <1>2, <2>1, PostType DEF Close, Post
    <3>2. QED
      BY <1>2, <2>1, <3>1 DEF Close, TypeOK, Callers, Stages, Ids
  <2>2. CASE UNCHANGED <<sequence, closeId, pending, inbox>> /\ stage' = "terminating"
    BY <1>2, <2>2 DEF Close, TypeOK, Stages
  <2>3. QED
    BY <1>2, <2>1, <2>2 DEF Close
<1>3. CASE HandleMessage
  <2>1. PICK id \in outbox : outbox' = outbox \ {id} /\ Settle({id} \cap pending, "answered")
    BY <1>3 DEF HandleMessage
  <2>2. Callers' /\ outcome' \in [Ids -> Outcomes]
    BY <1>3, <2>1, SettleType DEF HandleMessage, Outcomes
  <2>3. QED
    BY <1>3, <2>1, <2>2 DEF HandleMessage, TypeOK, Callers
<1>4. CASE Fail
  <2>1. Settle(pending \cap pending, "failed")
    BY <1>4 DEF Fail
  <2>2. Callers' /\ outcome' \in [Ids -> Outcomes]
    BY <1>4, <2>1, SettleType DEF Fail, Outcomes
  <2>3. QED
    BY <1>4, <2>2 DEF Fail, TypeOK, Callers
<1>5. ASSUME NEW id \in Ids, TimerFires(id) PROVE TypeOK'
  <2>1. Settle({id} \cap pending, "timed out")
    <3>1. {id} \cap pending = {id}
      BY <1>5 DEF TimerFires
    <3>2. QED
      BY <1>5, <3>1 DEF TimerFires
  <2>2. Callers' /\ outcome' \in [Ids -> Outcomes]
    BY <1>5, <2>1, SettleType DEF TimerFires, Outcomes
  <2>3. QED
    BY <1>5, <2>2 DEF TimerFires, TypeOK, Callers
<1>6. CASE Opened \/ Drained \/ Terminate
  BY <1>6 DEF Opened, Drained, Terminate, TypeOK, Stages
<1>7. CASE Handles
  BY <1>7 DEF Handles, TypeOK
<1>8. CASE Crash
  BY <1>8 DEF Crash, TypeOK
<1>9. CASE UNCHANGED vars
  BY <1>9 DEF vars, TypeOK
<1>10. QED
  BY <1>1, <1>2, <1>3, <1>4, <1>5, <1>6, <1>7, <1>8, <1>9 DEF Next

\* Every reachable state is well typed: a caller waits exactly until it was told.
THEOREM TypeCorrect == Spec => []TypeOK
  BY TypeInit, TypeStep, PTL DEF Spec

-----------------------------------------------------------------------------
(* The inductive invariant                                                   *)

\* The worker has all requests, those it carried out and those it has before it.
PortInOrder ==
    /\ inbox \cap handled = {}
    /\ worker = "running" => inbox \cup handled = 1..sequence
    /\ worker = "dead" => inbox = {}

\* An answer is on its way for whoever still waits for what was carried out.
AnswerOnItsWay == pending \cap handled \subseteq outbox

\* Answers come in order.
AnsweredInOrder ==
    \A id \in 1..sequence : outcome[id] = "answered" => \A earlier \in 1..id : earlier \notin pending

\* Where close() stands, and why a worker is gone.
StageInOrder ==
    /\ closeId # 0 => closeId = sequence /\ stage \in {"draining", "terminating", "closed"}
    /\ stage = "draining" => closeId # 0
    /\ stage = "opening" => sequence = 1
    /\ worker = "dead" /\ ~crashed => stage = "closed"
    /\ fatal => worker = "dead"

\* While the worker is alive nobody is failed, and the worker is ended only after the
\* last request was told something.
LastSettled ==
    ~crashed => /\ stage # "closed" => \A id \in 1..sequence : outcome[id] # "failed"
                /\ stage \in {"terminating", "closed"} => outcome[sequence] \in {"answered", "timed out"}

Inv ==
    /\ TypeOK /\ AnswersAreTrue /\ InOrder /\ NobodyWaitsForDead
    /\ PortInOrder /\ AnswerOnItsWay /\ AnsweredInOrder /\ StageInOrder /\ LastSettled

LEMMA InvInit == Init => Inv
  BY TypeInit DEF Init, Inv, AnswersAreTrue, InOrder, NobodyWaitsForDead, PortInOrder, AnswerOnItsWay,
                  AnsweredInOrder, StageInOrder, LastSettled, Ids
-----------------------------------------------------------------------------
(* The effect of an action on what the invariant is about                    *)

\* A request is posted under a new id that nobody knows yet.
LEMMA PostFacts ==
    ASSUME TypeOK, Post
    PROVE  /\ sequence \in Nat /\ sequence' = sequence + 1 /\ sequence' \in Ids
           /\ outcome[sequence'] = "none" /\ sequence' \notin handled
  BY DEF Post, TypeOK, Ids

\* Only callers that wait are told something, and they wait no longer.
LEMMA SettleFacts ==
    ASSUME TypeOK, NEW ids, NEW told, Settle(ids, told), ids \subseteq pending
    PROVE  /\ pending' = pending \ ids
           /\ \A id \in ids : outcome'[id] = told
           /\ \A id \in Ids \ ids : outcome'[id] = outcome[id]
           /\ \A id \in Ids : outcome[id] # "none" => outcome'[id] = outcome[id]
  BY DEF Settle, TypeOK, Ids

\* Every action either leaves the callers alone, or posts, or settles.
LEMMA CallerSteps ==
    ASSUME TypeOK, [Next]_vars
    PROVE  \/ UNCHANGED <<sequence, pending, outcome>>
           \/ Post /\ ~fatal /\ UNCHANGED <<outcome, fatal, worker, outbox, handled, crashed>>
           \/ \E id \in outbox : /\ First(id, outbox) /\ outbox' = outbox \ {id}
                                 /\ Settle({id} \cap pending, "answered")
                                 /\ UNCHANGED <<stage, sequence, closeId, fatal, worker, inbox,
                                                handled, crashed>>
           \/ \E id \in pending : Settle({id}, "timed out") /\ UNCHANGED workerVars
                                  /\ UNCHANGED <<stage, sequence, closeId, fatal>>
           \/ Fail
<1> USE DEF clientVars, workerVars
<1>1. CASE Request
  BY <1>1 DEF Request
<1>2. CASE Close
  BY <1>2 DEF Close
<1>3. CASE HandleMessage
  BY <1>3 DEF HandleMessage
<1>4. ASSUME NEW id \in Ids, TimerFires(id)
      PROVE  id \in pending /\ Settle({id}, "timed out") /\ UNCHANGED workerVars
             /\ UNCHANGED <<stage, sequence, closeId, fatal>>
  BY <1>4 DEF TimerFires
<1>5. CASE Opened \/ Drained \/ Terminate \/ Handles \/ Crash \/ UNCHANGED vars
  BY <1>5 DEF Opened, Drained, Terminate, Handles, Crash, vars
<1>6. QED
  <2> HIDE DEF clientVars, workerVars
  <2> QED
    BY <1>1, <1>2, <1>3, <1>4, <1>5 DEF Next

\* Every action either leaves the worker alone, or hands it a request, or is one of
\* the worker's steps.
LEMMA WorkerSteps ==
    ASSUME TypeOK, [Next]_vars
    PROVE  \/ UNCHANGED <<worker, inbox, outbox, handled, crashed, sequence>>
           \/ Post /\ UNCHANGED <<worker, outbox, handled, crashed>>
           \/ HandleMessage \/ Handles \/ Crash \/ Terminate
<1> USE DEF clientVars, workerVars
<1>1. CASE Request \/ Close
  BY <1>1 DEF Request, Close
<1>2. ASSUME NEW id \in Ids, TimerFires(id) PROVE UNCHANGED <<worker, inbox, outbox, handled, crashed, sequence>>
  BY <1>2 DEF TimerFires
<1>3. CASE Fail \/ Opened \/ Drained \/ UNCHANGED vars
  BY <1>3 DEF Fail, Opened, Drained, vars
<1>4. QED
  <2> HIDE DEF clientVars, workerVars
  <2> QED
    BY <1>1, <1>2, <1>3 DEF Next

LEMMA PortInOrderStep ==
    ASSUME TypeOK, PortInOrder, [Next]_vars
    PROVE  PortInOrder'
<1>1. CASE UNCHANGED <<worker, inbox, outbox, handled, crashed, sequence>>
  BY <1>1 DEF PortInOrder
<1>2. CASE Post /\ UNCHANGED <<worker, outbox, handled, crashed>>
  <2>1. inbox' = IF worker = "running" THEN inbox \cup {sequence'} ELSE inbox
    BY <1>2 DEF Post
  <2>2. 1..sequence' = 1..sequence \cup {sequence'}
    BY <1>2, PostFacts
  <2>3. QED
    BY <1>2, <2>1, <2>2, PostFacts DEF PortInOrder, TypeOK
<1>3. CASE HandleMessage
  BY <1>3 DEF HandleMessage, PortInOrder
<1>4. CASE Handles
  BY <1>4 DEF Handles, PortInOrder, clientVars
<1>5. CASE Crash \/ Terminate
  BY <1>5 DEF Crash, Terminate, PortInOrder, clientVars
<1>6. QED
  BY <1>1, <1>2, <1>3, <1>4, <1>5, WorkerSteps

LEMMA InOrderStep ==
    ASSUME TypeOK, PortInOrder, InOrder, [Next]_vars
    PROVE  InOrder'
<1>1. CASE UNCHANGED handled
  BY <1>1 DEF InOrder
<1>2. CASE Handles
  <2>1. PICK id \in inbox : First(id, inbox) /\ handled' = handled \cup {id}
    BY <1>2 DEF Handles
  <2>2. \A earlier \in 1..id : earlier = id \/ earlier \in handled
    BY <1>2, <2>1 DEF First, PortInOrder, TypeOK, Ids, Handles
  <2>3. QED
    BY <2>1, <2>2 DEF InOrder
<1>3. QED
  BY <1>1, <1>2, WorkerSteps DEF HandleMessage, Crash, Terminate

LEMMA IdsGivenOut ==
    ASSUME TypeOK
    PROVE  sequence \in Ids /\ 1..sequence \subseteq Ids
  BY DEF TypeOK, Ids

LEMMA AnswersStep ==
    ASSUME TypeOK, InOrder, AnswersAreTrue, AnswerOnItsWay, AnsweredInOrder, [Next]_vars
    PROVE  AnswersAreTrue' /\ AnswerOnItsWay' /\ AnsweredInOrder'
<1>1. CASE UNCHANGED <<sequence, pending, outcome>>
  <2>1. handled \subseteq handled' /\ pending \cap handled' \subseteq outbox'
    <3>1. CASE HandleMessage
      BY <1>1, <3>1 DEF HandleMessage, AnswerOnItsWay, Settle, First, TypeOK
    <3>2. CASE Handles
      BY <3>2 DEF Handles, AnswerOnItsWay
    <3>3. CASE UNCHANGED <<outbox, handled>>
      BY <3>3 DEF AnswerOnItsWay
    <3>4. QED
      BY <3>1, <3>2, <3>3, WorkerSteps DEF Crash, Terminate
  <2>2. QED
    BY <1>1, <2>1 DEF AnswersAreTrue, AnswerOnItsWay, AnsweredInOrder
<1>2. CASE Post /\ ~fatal /\ UNCHANGED <<outcome, fatal, worker, outbox, handled, crashed>>
  <2>1. pending' = pending \cup {sequence'}
    BY <1>2 DEF Post
  <2>2. QED
    BY <1>2, <2>1, PostFacts DEF AnswersAreTrue, AnswerOnItsWay, AnsweredInOrder, Ids
<1>3. ASSUME NEW id \in outbox, First(id, outbox), outbox' = outbox \ {id},
             Settle({id} \cap pending, "answered"),
             UNCHANGED <<stage, sequence, closeId, fatal, worker, inbox, handled, crashed>>
      PROVE  AnswersAreTrue' /\ AnswerOnItsWay' /\ AnsweredInOrder'
  <2>1. /\ pending' = pending \ {id}
        /\ \A other \in Ids : other # id => outcome'[other] = outcome[other]
    BY <1>3, SettleFacts
  <2>2. id \in handled /\ id \in 1..sequence
    BY DEF TypeOK
  <2>3. AnswersAreTrue' /\ AnswerOnItsWay'
    BY <1>3, <2>1, <2>2 DEF AnswersAreTrue, AnswerOnItsWay
  <2>4. \A earlier \in 1..id : earlier \notin pending'
    BY <1>3, <2>1, <2>2 DEF InOrder, AnswerOnItsWay, First, TypeOK
  <2>5. AnsweredInOrder'
    BY <1>3, <2>1, <2>4 DEF AnsweredInOrder, TypeOK, Ids
  <2>6. QED
    BY <2>3, <2>5
<1>4. ASSUME NEW ids \in SUBSET pending, NEW told \in {"timed out", "failed"}, Settle(ids, told),
             UNCHANGED <<sequence, handled, outbox>>
      PROVE  AnswersAreTrue' /\ AnswerOnItsWay' /\ AnsweredInOrder'
  <2>1. /\ pending' = pending \ ids
        /\ \A id \in Ids : outcome'[id] = "answered" => outcome[id] = "answered"
    <3>1. ids \subseteq pending /\ told # "answered"
      BY <1>4
    <3>2. /\ pending' = pending \ ids
          /\ \A id \in ids : outcome'[id] = told
          /\ \A id \in Ids \ ids : outcome'[id] = outcome[id]
      BY <1>4, <3>1, SettleFacts
    <3>3. QED
      BY <3>1, <3>2
  <2>2. 1..sequence \subseteq Ids
    BY IdsGivenOut
  <2>3. AnswersAreTrue' /\ AnswerOnItsWay'
    <3>1. AnswersAreTrue'
      BY <1>4, <2>1 DEF AnswersAreTrue
    <3>2. AnswerOnItsWay'
      BY <1>4, <2>1 DEF AnswerOnItsWay
    <3>3. QED
      BY <3>1, <3>2
  <2>4. AnsweredInOrder'
    BY <1>4, <2>1, <2>2 DEF AnsweredInOrder
  <2>5. QED
    BY <2>3, <2>4
<1>5. CASE Fail
  <2>1. Settle(pending, "failed") /\ UNCHANGED <<sequence, handled, outbox>>
    BY <1>5 DEF Fail, workerVars
  <2>2. QED
    BY <1>4, <2>1
<1>6. ASSUME NEW id \in pending, Settle({id}, "timed out"), UNCHANGED workerVars, UNCHANGED sequence
      PROVE  AnswersAreTrue' /\ AnswerOnItsWay' /\ AnsweredInOrder'
  BY <1>4, <1>6 DEF workerVars
<1>7. QED
  BY <1>1, <1>2, <1>3, <1>5, <1>6, CallerSteps

LEMMA NobodyWaitsStep ==
    ASSUME TypeOK, NobodyWaitsForDead, [Next]_vars
    PROVE  NobodyWaitsForDead'
<1>1. CASE Fail
  BY <1>1, SettleFacts DEF Fail, NobodyWaitsForDead
<1>2. CASE UNCHANGED fatal /\ pending' \subseteq pending
  BY <1>2 DEF NobodyWaitsForDead
<1>3. CASE Post /\ ~fatal /\ UNCHANGED fatal
  BY <1>3 DEF NobodyWaitsForDead
<1>4. UNCHANGED fatal \/ Fail
  BY DEF Next, Request, Close, HandleMessage, TimerFires, Opened, Drained, Terminate, Handles, Crash,
         clientVars, workerVars, vars
<1>5. QED
  BY <1>1, <1>2, <1>3, <1>4, CallerSteps DEF Settle

\* What settles is told, and stays told.
LEMMA ToldStep ==
    ASSUME TypeOK, [Next]_vars, ~Fail
    PROVE  \A id \in Ids : outcome'[id] = outcome[id] \/ outcome'[id] \in {"answered", "timed out"}
<1>1. ASSUME NEW ids \in SUBSET pending, NEW told \in {"answered", "timed out"}, Settle(ids, told)
      PROVE  \A id \in Ids : outcome'[id] = outcome[id] \/ outcome'[id] \in {"answered", "timed out"}
  <2>1. ids \subseteq pending
    BY <1>1
  <2>2. /\ \A id \in ids : outcome'[id] = told
        /\ \A id \in Ids \ ids : outcome'[id] = outcome[id]
    BY <1>1, <2>1, SettleFacts
  <2>3. QED
    BY <1>1, <2>2
<1>2. ASSUME NEW id \in outbox, Settle({id} \cap pending, "answered")
      PROVE  \A other \in Ids : outcome'[other] = outcome[other] \/ outcome'[other] \in {"answered", "timed out"}
  BY <1>1, <1>2
<1>3. ASSUME NEW id \in pending, Settle({id}, "timed out")
      PROVE  \A other \in Ids : outcome'[other] = outcome[other] \/ outcome'[other] \in {"answered", "timed out"}
  BY <1>1, <1>3
<1>4. QED
  BY <1>2, <1>3, CallerSteps

LEMMA StageStep ==
    ASSUME TypeOK, StageInOrder, [Next]_vars
    PROVE  StageInOrder'
<1> USE DEF StageInOrder, clientVars, workerVars
<1>1. CASE Request
  BY <1>1, PostFacts DEF Request
<1>2. CASE Close
  BY <1>2, PostFacts DEF Close
<1>3. CASE HandleMessage
  BY <1>3 DEF HandleMessage
<1>4. CASE Fail
  BY <1>4 DEF Fail
<1>5. ASSUME NEW id \in Ids, TimerFires(id) PROVE StageInOrder'
  BY <1>5 DEF TimerFires
<1>6. CASE Opened
  BY <1>6 DEF Opened
<1>7. CASE Drained
  BY <1>7 DEF Drained
<1>8. CASE Terminate
  BY <1>8 DEF Terminate
<1>9. CASE Handles
  BY <1>9 DEF Handles
<1>10. CASE Crash
  BY <1>10 DEF Crash
<1>11. CASE UNCHANGED vars
  BY <1>11 DEF vars
<1>12. QED
  <2> HIDE DEF StageInOrder, clientVars, workerVars
  <2> QED
    BY <1>1, <1>2, <1>3, <1>4, <1>5, <1>6, <1>7, <1>8, <1>9, <1>10, <1>11 DEF Next

LEMMA LastSettledStep ==
    ASSUME TypeOK, StageInOrder, LastSettled, NobodyWaitsForDead, [Next]_vars
    PROVE  LastSettled'
<1> SUFFICES ASSUME ~crashed'
             PROVE  LastSettled'
  BY DEF LastSettled
<1>1. ~crashed
  BY DEF Next, Request, Close, HandleMessage, Fail, TimerFires, Opened, Drained, Terminate, Handles,
         Crash, clientVars, workerVars, vars
<1>2. 1..sequence \subseteq Ids /\ sequence \in 1..sequence /\ 1 \in 1..sequence /\ sequence \in Ids
  BY DEF TypeOK, Ids
<1>3. CASE Fail
  <2>1. stage = "closed" /\ UNCHANGED <<stage, sequence>>
    BY <1>1, <1>3 DEF Fail, StageInOrder
  <2>2. sequence \notin pending
    BY <1>1, <1>2, <2>1 DEF LastSettled, TypeOK
  <2>3. outcome'[sequence] = outcome[sequence]
    BY <1>2, <1>3, <2>2, SettleFacts DEF Fail
  <2>4. QED
    BY <1>1, <2>1, <2>3 DEF LastSettled
<1>4. CASE Request \/ Close
  <2>1. stage = "open" /\ stage' \in {"open", "draining"} /\ Post /\ UNCHANGED outcome
    <3>1. CASE Request
      BY <3>1 DEF Request
    <3>2. CASE Close
      BY <1>1, <3>2 DEF Close, StageInOrder
    <3>3. QED
      BY <1>4, <3>1, <3>2
  <2>2. 1..sequence' = 1..sequence \cup {sequence'} /\ outcome[sequence'] = "none"
    BY <2>1, PostFacts
  <2>3. QED
    BY <1>1, <2>1, <2>2 DEF LastSettled
<1>5. CASE UNCHANGED sequence /\ ~Fail /\ (stage' = stage \/ (stage = "terminating" /\ stage' = "closed"))
  BY <1>1, <1>2, <1>5, ToldStep DEF LastSettled
<1>6. CASE Opened \/ Drained
  <2>1. UNCHANGED <<sequence, outcome>> /\ stage' \in {"open", "terminating"}
        /\ stage \in {"opening", "draining"}
    BY <1>6 DEF Opened, Drained
  <2>2. outcome[sequence] # "none"
    BY <1>6 DEF Opened, Drained, StageInOrder
  <2>3. outcome[sequence] \in {"answered", "timed out"}
    BY <1>1, <1>2, <2>1, <2>2 DEF LastSettled, TypeOK, Outcomes
  <2>4. QED
    BY <1>1, <2>1, <2>3 DEF LastSettled
<1>7. \/ Fail \/ Request \/ Close \/ Opened \/ Drained
      \/ UNCHANGED sequence /\ (stage' = stage \/ (stage = "terminating" /\ stage' = "closed"))
  BY DEF Next, HandleMessage, TimerFires, Terminate, Handles, Crash, clientVars, workerVars, vars
<1>8. QED
  BY <1>3, <1>4, <1>5, <1>6, <1>7

LEMMA InvStep == Inv /\ [Next]_vars => Inv'
  BY TypeStep, PortInOrderStep, InOrderStep, AnswersStep, NobodyWaitsStep, StageStep, LastSettledStep
     DEF Inv

LEMMA InvCorrect == Spec => []Inv
  BY InvInit, InvStep, PTL DEF Spec

-----------------------------------------------------------------------------
\* No answer, however late, settles a request that was not carried out
\* (handleMessage, lines 56-63).
THEOREM AnswersCorrect == Spec => []AnswersAreTrue
<1>1. Inv => AnswersAreTrue
  BY DEF Inv
<1>2. QED
  BY <1>1, InvCorrect, PTL

\* What is carried out is carried out in the order it was accepted.
THEOREM InOrderCorrect == Spec => []InOrder
<1>1. Inv => InOrder
  BY DEF Inv
<1>2. QED
  BY <1>1, InvCorrect, PTL

\* fail() leaves nobody waiting and nobody begins to wait after it (lines 48-55).
THEOREM NobodyWaitsCorrect == Spec => []NobodyWaitsForDead
<1>1. Inv => NobodyWaitsForDead
  BY DEF Inv
<1>2. QED
  BY <1>1, InvCorrect, PTL

LEMMA DrainedIfClosed == Inv => ClosedIsDrained
<1> SUFFICES ASSUME Inv, stage = "closed", ~crashed, outcome[sequence] # "timed out"
             PROVE  handled = 1..sequence /\ pending = {}
  BY DEF ClosedIsDrained
<1>1. outcome[sequence] = "answered" /\ sequence \in Ids
  BY DEF Inv, LastSettled, TypeOK
<1>2. sequence \in handled /\ sequence \in 1..sequence
  BY <1>1 DEF Inv, AnswersAreTrue, TypeOK, Ids
<1>3. handled = 1..sequence
  BY <1>2 DEF Inv, InOrder, TypeOK
<1>4. pending = {}
  BY <1>1, <1>2 DEF Inv, AnsweredInOrder, TypeOK
<1> QED
  BY <1>3, <1>4

\* close() drains what was accepted (lines 117-135), for any queue.
THEOREM ClosedIsDrainedCorrect == Spec => []ClosedIsDrained
  BY DrainedIfClosed, InvCorrect, PTL

\* In the composition the client begins opened and closed, unless it is in focus.
LEMMA ClosedInv == ClientClosed => Inv
<1> SUFFICES ASSUME ClientClosed PROVE Inv
  OBVIOUS
<1>1. 1..2 = {1, 2} /\ 2 \in Ids /\ 1..2 \subseteq Ids
  BY ClosedAssumption DEF Ids
<1>2. TypeOK
  <2>1. outcome \in [Ids -> Outcomes]
        /\ \A id \in Ids : IF id \in 1..sequence THEN id \in pending <=> outcome[id] = "none"
                           ELSE outcome[id] = "none"
    BY DEF ClientClosed, Outcomes
  <2>2. stage \in Stages /\ sequence \in Ids /\ closeId \in 0..sequence /\ pending \subseteq 1..sequence
    BY <1>1 DEF ClientClosed, Stages
  <2>3. worker \in {"running", "dead"} /\ fatal \in BOOLEAN /\ crashed \in BOOLEAN
    BY DEF ClientClosed
  <2>4. inbox \subseteq 1..sequence /\ outbox \subseteq handled /\ handled \subseteq 1..sequence
    BY <1>1 DEF ClientClosed
  <2> QED
    BY <2>1, <2>2, <2>3, <2>4 DEF TypeOK
<1> QED
  BY <1>1, <1>2 DEF ClientClosed, Inv, AnswersAreTrue, InOrder, NobodyWaitsForDead, PortInOrder, AnswerOnItsWay,
                    AnsweredInOrder, StageInOrder, LastSettled

-----------------------------------------------------------------------------
(* The agent process *)

BeatType == [phase : {"none", "asking", "answered", "applying"}, revision : 0..MaxRevision,
             targets : SUBSET Targets, left : SUBSET Targets]

\* There is one heartbeat at a time, the one coalesceAsyncTask holds on to.
OneBeat ==
    /\ beat[2] = Agent!NoBeat
    /\ active = (IF beat[1].phase = "none" THEN 0 ELSE 1)

\* Who waits, waits for a task that runs; the interval never waits for a scan.
TasksRun ==
    /\ \A w \in waiting : w[2] = "discovery" => scanning /\ w[1] # "timer"
    /\ \A w \in waiting : w[2] = "heartbeat" => active # 0

\* What a heartbeat carries was decided after what the collectors were brought to.
NewestLast ==
    /\ applied =< plane.revision
    /\ beat[1].phase \in {"answered", "applying"} =>
          applied =< beat[1].revision /\ beat[1].revision =< plane.revision

ProcessInv == Agent!TypeOK /\ Agent!NothingLeftBehind /\ OneBeat /\ TasksRun /\ NewestLast

LEMMA ProcessBounds ==
    /\ MaxRevision \in Nat /\ "boot" \notin Scanners /\ "timer" \notin Scanners
    /\ Agent!NoBeat \in BeatType /\ Agent!NoBeat.phase = "none" /\ Agent!Beats = {1, 2}
  BY PartsAssumption DEF Agent!BoundAssumption, Agent!NoBeat, Agent!Beats, BeatType

LEMMA ProcessInit == Agent!Init => ProcessInv
<1> SUFFICES ASSUME Agent!Init PROVE ProcessInv
  OBVIOUS
<1>1. beat \in [{1, 2} -> BeatType] /\ beat[1] = Agent!NoBeat /\ beat[2] = Agent!NoBeat
  BY ProcessBounds DEF Agent!Init
<1>2. plane \in [revision : 0..MaxRevision, targets : SUBSET Targets] /\ plane.revision = 0
  BY ProcessBounds DEF Agent!Init
<1>3. Agent!TypeOK
  BY <1>1, <1>2, ProcessBounds DEF Agent!Init, Agent!TypeOK, Agent!Stages, BeatType
<1> QED
  BY <1>1, <1>2, <1>3, ProcessBounds
  DEF Agent!Init, ProcessInv, Agent!NothingLeftBehind, OneBeat, TasksRun, NewestLast

\* What the steps that leave the heartbeat alone keep of it.
LEMMA BeatRests ==
    ASSUME ProcessInv, UNCHANGED <<active, beat, applied>>, plane'.revision \in Nat, plane'.revision >= plane.revision
    PROVE  OneBeat' /\ NewestLast'
<1>1. applied \in Nat /\ plane.revision \in Nat /\ beat[1].revision \in Nat
  BY ProcessBounds DEF ProcessInv, Agent!TypeOK, BeatType
<1> QED
  BY <1>1 DEF ProcessInv, OneBeat, NewestLast

\* The end of a heartbeat, well or badly.
LEMMA BeatOver ==
    ASSUME ProcessInv, NEW b \in Agent!Beats, beat[b].phase # "none", Agent!Over(b)
    PROVE  /\ b = 1 /\ active = 1 /\ active' = 0 /\ beat' = [beat EXCEPT ![1] = Agent!NoBeat]
           /\ waiting' = {w \in waiting : w[2] # "heartbeat"}
           /\ OneBeat' /\ TasksRun' /\ beat' \in [{1, 2} -> BeatType]
           /\ process' \in Agent!Stages /\ signals' \in BOOLEAN /\ beat'[1].phase = "none"
<1>1. b = 1 /\ active = 1
  BY ProcessBounds DEF ProcessInv, OneBeat
<1>2. beat \in [{1, 2} -> BeatType]
  BY ProcessBounds DEF ProcessInv, Agent!TypeOK, BeatType
<1>3. /\ beat' = [beat EXCEPT ![1] = Agent!NoBeat] /\ active' = 0
      /\ waiting' = {w \in waiting : w[2] # "heartbeat"} /\ UNCHANGED scanning
  BY <1>1 DEF Agent!Over
<1>4. beat' \in [{1, 2} -> BeatType] /\ beat'[1] = Agent!NoBeat /\ beat'[2] = beat[2]
  BY <1>2, <1>3, ProcessBounds
<1>5. process' \in Agent!Stages /\ signals' \in BOOLEAN
  BY DEF Agent!Over, ProcessInv, Agent!TypeOK, Agent!Stages
<1>6. OneBeat' /\ TasksRun'
  BY <1>3, <1>4, ProcessBounds DEF ProcessInv, OneBeat, TasksRun
<1> QED
  BY <1>1, <1>3, <1>4, <1>5, <1>6, ProcessBounds

\* The boot, scans, signals, and what the control plane decides.
LEMMA BootSteps ==
    ASSUME ProcessInv, Agent!Boot \/ Agent!BootFails \/ Agent!Signal \/ Agent!Exit \/ Agent!CloseManager
                       \/ Agent!Decide \/ Agent!Scanned \/ (\E c \in Agent!Callers : Agent!Scan(c))
    PROVE  ProcessInv'
<1> USE DEF Agent!beatVars, Agent!managerVars
<1>1. plane.revision \in Nat /\ plane \in [revision : 0..MaxRevision, targets : SUBSET Targets]
  BY ProcessBounds DEF ProcessInv, Agent!TypeOK
<1>2. CASE Agent!Boot \/ Agent!BootFails \/ Agent!Signal \/ Agent!Exit \/ Agent!CloseManager
  <2>1. UNCHANGED <<plane, scanning, active, beat, waiting, applied>>
    BY <1>2 DEF Agent!Boot, Agent!BootFails, Agent!Signal, Agent!Exit, Agent!CloseManager
  <2>2. process' \in Agent!Stages /\ signals' = signals
    BY <1>2 DEF Agent!Boot, Agent!BootFails, Agent!Signal, Agent!Exit, Agent!CloseManager, Agent!Stages
  <2>3. \/ UNCHANGED <<collectors, starting, polled, closed>>
        \/ closed' = TRUE /\ collectors' = {} /\ starting' = {} /\ polled' = {}
    BY <1>2 DEF Agent!Boot, Agent!BootFails, Agent!Signal, Agent!Exit, Agent!CloseManager
  <2>4. /\ collectors' \subseteq Targets /\ starting' \subseteq collectors' /\ polled' \subseteq collectors'
        /\ closed' \in BOOLEAN /\ (closed' => polled' = {})
    <3>1. CASE UNCHANGED <<collectors, starting, polled, closed>>
      BY <3>1 DEF ProcessInv, Agent!TypeOK, Agent!NothingLeftBehind
    <3>2. CASE closed' = TRUE /\ collectors' = {} /\ starting' = {} /\ polled' = {}
      BY <3>2
    <3> QED
      BY <2>3, <3>1, <3>2
  <2>5. Agent!TypeOK' /\ Agent!NothingLeftBehind' /\ TasksRun'
    BY <2>1, <2>2, <2>4 DEF ProcessInv, Agent!TypeOK, Agent!NothingLeftBehind, TasksRun
  <2> QED
    BY <1>1, <2>1, <2>5, BeatRests DEF ProcessInv
<1>3. CASE Agent!Decide
  <2>1. /\ UNCHANGED <<process, signals, scanning, active, beat, waiting, collectors, starting, polled, closed, applied>>
        /\ plane' \in [revision : 0..MaxRevision, targets : SUBSET Targets] /\ plane'.revision = plane.revision + 1
    BY <1>1, <1>3, ProcessBounds DEF Agent!Decide
  <2>2. Agent!TypeOK' /\ Agent!NothingLeftBehind' /\ TasksRun'
    BY <2>1 DEF ProcessInv, Agent!TypeOK, Agent!NothingLeftBehind, TasksRun
  <2> QED
    BY <1>1, <2>1, <2>2, BeatRests DEF ProcessInv
<1>4. CASE Agent!Scanned
  <2>1. /\ UNCHANGED <<signals, plane, active, beat, collectors, starting, polled, closed, applied>>
        /\ scanning' = FALSE /\ waiting' = {w \in waiting : w[2] # "discovery"} /\ process' \in Agent!Stages
    BY <1>4 DEF Agent!Scanned, ProcessInv, Agent!TypeOK, Agent!Stages
  <2>2. Agent!TypeOK' /\ Agent!NothingLeftBehind' /\ TasksRun'
    BY <2>1 DEF ProcessInv, Agent!TypeOK, Agent!NothingLeftBehind, TasksRun
  <2> QED
    BY <1>1, <2>1, <2>2, BeatRests DEF ProcessInv
<1>5. ASSUME NEW c \in Agent!Callers, Agent!Scan(c) PROVE ProcessInv'
  <2>1. /\ UNCHANGED <<process, signals, plane, active, beat, collectors, starting, polled, closed, applied>>
        /\ scanning' = TRUE /\ waiting' = waiting \cup {<<c, "discovery">>} /\ c # "timer"
    BY <1>5, ProcessBounds DEF Agent!Scan
  <2>2. Agent!TypeOK' /\ Agent!NothingLeftBehind' /\ TasksRun'
    BY <2>1 DEF ProcessInv, Agent!TypeOK, Agent!NothingLeftBehind, TasksRun
  <2> QED
    BY <1>1, <2>1, <2>2, BeatRests DEF ProcessInv
<1> QED
  BY <1>2, <1>3, <1>4, <1>5

\* A heartbeat begins or is joined, is answered, fails, and is applied.
LEMMA BeatSteps ==
    ASSUME ProcessInv,
           \/ \E c \in Agent!Callers : Agent!Heartbeat(c)
           \/ \E b \in Agent!Beats : \/ Agent!Answer(b) \/ Agent!HeartbeatFails(b) \/ Agent!Arrives(b)
                                     \/ Agent!Applied(b)
    PROVE  ProcessInv' /\ applied' >= applied
<1> USE DEF Agent!beatVars, Agent!managerVars
<1>1. /\ beat \in [{1, 2} -> BeatType] /\ plane \in [revision : 0..MaxRevision, targets : SUBSET Targets]
      /\ plane.revision \in Nat /\ beat[1].revision \in Nat /\ applied \in 0..MaxRevision /\ applied \in Nat
  BY ProcessBounds DEF ProcessInv, Agent!TypeOK, BeatType
<1>2. ASSUME NEW c \in Agent!Callers, Agent!Heartbeat(c) PROVE ProcessInv' /\ applied' = applied
  <2>1. /\ UNCHANGED <<process, signals, plane, scanning, collectors, starting, polled, closed, applied>>
        /\ waiting' = waiting \cup {<<c, "heartbeat">>}
    BY <1>2 DEF Agent!Heartbeat
  <2>2. \/ active # 0 /\ UNCHANGED <<active, beat>>
        \/ active = 0 /\ active' = 1 /\ beat' = [beat EXCEPT ![1] = [Agent!NoBeat EXCEPT !.phase = "asking"]]
    BY <1>2 DEF Agent!Heartbeat, Agent!Called, Agent!Begun
  <2>3. [Agent!NoBeat EXCEPT !.phase = "asking"] \in BeatType
        /\ [Agent!NoBeat EXCEPT !.phase = "asking"].phase = "asking"
    BY ProcessBounds DEF Agent!NoBeat, BeatType
  <2>4. beat' \in [{1, 2} -> BeatType] /\ active' = 1 /\ OneBeat'
        /\ (beat'[1].phase \in {"answered", "applying"} => beat'[1] = beat[1])
    <3> DEFINE begun == [Agent!NoBeat EXCEPT !.phase = "asking"]
    <3>1. begun \in BeatType /\ begun.phase = "asking"
      BY <2>3
    <3> HIDE DEF begun
    <3>2. beat[2] = Agent!NoBeat /\ (active # 0 => active = 1 /\ beat[1].phase # "none")
      BY DEF ProcessInv, OneBeat
    <3>3. CASE active # 0 /\ UNCHANGED <<active, beat>>
      BY <1>1, <3>2, <3>3 DEF OneBeat
    <3>4. CASE active = 0 /\ active' = 1 /\ beat' = [beat EXCEPT ![1] = begun]
      <4>1. beat' \in [{1, 2} -> BeatType] /\ beat'[1] = begun /\ beat'[2] = beat[2]
        BY <1>1, <3>1, <3>4
      <4> QED
        BY <3>1, <3>2, <3>4, <4>1 DEF OneBeat
    <3> QED
      BY <2>2, <3>3, <3>4 DEF begun
  <2>5. Agent!TypeOK' /\ Agent!NothingLeftBehind' /\ TasksRun' /\ NewestLast'
    BY <1>1, <2>1, <2>4, ProcessBounds
    DEF ProcessInv, Agent!TypeOK, Agent!NothingLeftBehind, TasksRun, NewestLast, BeatType
  <2> QED
    BY <2>1, <2>4, <2>5 DEF ProcessInv
<1>3. ASSUME NEW b \in Agent!Beats, Agent!Answer(b) \/ Agent!Arrives(b) PROVE ProcessInv' /\ applied' = applied
  <2>1. /\ UNCHANGED <<process, signals, plane, scanning, active, waiting, collectors, starting, polled, closed, applied>>
        /\ beat[b].phase # "none"
    BY <1>3 DEF Agent!Answer, Agent!Arrives
  <2>2. b = 1 /\ active = 1
    BY <2>1, ProcessBounds DEF ProcessInv, OneBeat
  <2>3. /\ beat' \in [{1, 2} -> BeatType] /\ beat'[2] = beat[2] /\ beat'[1].phase # "none"
        /\ \/ beat'[1].revision = plane.revision
           \/ beat'[1].revision = beat[1].revision /\ beat[1].phase = "answered"
    <3>1. CASE Agent!Answer(b)
      <4> DEFINE answered == [beat[1] EXCEPT !.phase = "answered", !.revision = plane.revision,
                                             !.targets = plane.targets, !.left = plane.targets]
      <4>1. beat' = [beat EXCEPT ![1] = answered]
        BY <2>2, <3>1 DEF Agent!Answer
      <4>2. answered \in BeatType /\ answered.phase = "answered" /\ answered.revision = plane.revision
        BY <1>1 DEF BeatType
      <4> HIDE DEF answered
      <4>3. beat' \in [{1, 2} -> BeatType] /\ beat'[1] = answered /\ beat'[2] = beat[2]
        BY <1>1, <4>1, <4>2
      <4> QED
        BY <4>2, <4>3
    <3>2. CASE Agent!Arrives(b)
      BY <1>1, <2>2, <3>2 DEF Agent!Arrives, BeatType
    <3> QED
      BY <1>3, <3>1, <3>2
  <2>4. Agent!TypeOK' /\ Agent!NothingLeftBehind' /\ TasksRun' /\ NewestLast' /\ OneBeat'
    BY <1>1, <2>1, <2>2, <2>3, ProcessBounds
    DEF ProcessInv, Agent!TypeOK, Agent!NothingLeftBehind, TasksRun, NewestLast, OneBeat, BeatType
  <2> QED
    BY <2>1, <2>4 DEF ProcessInv
<1>4. ASSUME NEW b \in Agent!Beats, Agent!HeartbeatFails(b) PROVE ProcessInv' /\ applied' = applied
  <2>1. Agent!Over(b) /\ UNCHANGED <<collectors, starting, polled, closed, applied>> /\ beat[b].phase # "none"
    BY <1>4 DEF Agent!HeartbeatFails
  <2>2. UNCHANGED <<plane, scanning>>
    BY <2>1 DEF Agent!Over
  <2>3. Agent!TypeOK' /\ Agent!NothingLeftBehind' /\ NewestLast'
    BY <1>1, <2>1, <2>2, BeatOver, ProcessBounds
    DEF ProcessInv, Agent!TypeOK, Agent!NothingLeftBehind, NewestLast, BeatType
  <2> QED
    BY <2>1, <2>3, BeatOver DEF ProcessInv
<1>5. ASSUME NEW b \in Agent!Beats, Agent!Applied(b) PROVE ProcessInv' /\ applied' >= applied
  <2>1. /\ Agent!Over(b) /\ UNCHANGED <<collectors, starting, polled, closed>> /\ beat[b].phase = "applying"
        /\ applied' = beat[b].revision
    BY <1>5 DEF Agent!Applied
  <2>2. UNCHANGED <<plane, scanning>>
    BY <2>1 DEF Agent!Over
  <2>3. b = 1
    BY <2>1, BeatOver
  <2>4. applied' \in 0..MaxRevision /\ applied' >= applied /\ applied' =< plane.revision
    BY <1>1, <2>1, <2>3, ProcessBounds DEF ProcessInv, NewestLast, BeatType
  <2>5. Agent!TypeOK' /\ Agent!NothingLeftBehind' /\ NewestLast'
    BY <1>1, <2>1, <2>2, <2>4, BeatOver, ProcessBounds
    DEF ProcessInv, Agent!TypeOK, Agent!NothingLeftBehind, NewestLast, BeatType
  <2> QED
    BY <2>1, <2>4, <2>5, BeatOver DEF ProcessInv
<1> QED
  BY <1>1, <1>2, <1>3, <1>4, <1>5

\* Collectors are stopped, made and started.
LEMMA CollectorSteps ==
    ASSUME ProcessInv,
           \/ \E b \in Agent!Beats : Agent!StopUnwanted(b) \/ Agent!Want(b)
           \/ \E t \in Targets : Agent!Started(t)
    PROVE  ProcessInv' /\ applied' = applied
<1> USE DEF Agent!beatVars, Agent!managerVars
<1>1. /\ beat \in [{1, 2} -> BeatType] /\ plane.revision \in Nat
      /\ collectors \subseteq Targets /\ starting \subseteq collectors /\ polled \subseteq collectors
  BY ProcessBounds DEF ProcessInv, Agent!TypeOK, BeatType
<1>2. UNCHANGED <<process, signals, plane, scanning, active, waiting, closed, applied>>
  BY DEF Agent!StopUnwanted, Agent!Want, Agent!Started
<1>3. CASE UNCHANGED beat
  <2>1. collectors' \subseteq Targets /\ starting' \subseteq collectors' /\ polled' \subseteq collectors'
        /\ (closed => polled' \subseteq polled)
    <3>1. ASSUME NEW b \in Agent!Beats, Agent!StopUnwanted(b)
          PROVE  \E t \in collectors : collectors' = collectors \ {t} /\ starting' = starting \ {t} /\ polled' = polled \ {t}
      BY <3>1 DEF Agent!StopUnwanted
    <3>2. ASSUME NEW t \in Targets, Agent!Started(t)
          PROVE  /\ t \in starting /\ collectors' = collectors /\ starting' = starting \ {t}
                 /\ \/ polled' = polled
                    \/ ~closed /\ polled' = polled \cup {t}
      BY <3>2 DEF Agent!Started
    <3>3. ASSUME NEW b \in Agent!Beats, Agent!Want(b) PROVE FALSE
      <4>1. beat[b].phase = "applying" /\ \E t \in beat[b].left : beat' = [beat EXCEPT ![b].left = @ \ {t}]
        BY <3>3 DEF Agent!Want
      <4> QED
        BY <1>1, <1>3, <4>1, ProcessBounds DEF BeatType
    <3> QED
      BY <1>1, <3>1, <3>2, <3>3
  <2>2. Agent!TypeOK' /\ Agent!NothingLeftBehind' /\ TasksRun'
    BY <1>2, <1>3, <2>1 DEF ProcessInv, Agent!TypeOK, Agent!NothingLeftBehind, TasksRun
  <2> QED
    BY <1>1, <1>2, <1>3, <2>2, BeatRests DEF ProcessInv
<1>4. ASSUME NEW b \in Agent!Beats, Agent!Want(b) PROVE ProcessInv'
  <2>1. PICK t \in beat[b].left :
           /\ beat[b].phase = "applying" /\ beat' = [beat EXCEPT ![b].left = @ \ {t}]
           /\ collectors' = collectors \cup {t}
           /\ starting' = (IF t \in collectors THEN starting ELSE starting \cup {t})
           /\ polled' = (IF t \in collectors /\ ~closed THEN polled \cup {t} ELSE polled)
    BY <1>4 DEF Agent!Want
  <2>2. b = 1
    BY <2>1, ProcessBounds DEF ProcessInv, OneBeat
  <2>3. t \in Targets
    BY <1>1, <2>1, <2>2 DEF BeatType
  <2>4. /\ beat' \in [{1, 2} -> BeatType] /\ beat'[2] = beat[2] /\ beat'[1].phase = beat[1].phase
        /\ beat'[1].revision = beat[1].revision
    BY <1>1, <2>1, <2>2 DEF BeatType
  <2>5. collectors' \subseteq Targets /\ starting' \subseteq collectors' /\ polled' \subseteq collectors'
        /\ (closed => polled' = polled)
    BY <1>1, <2>1, <2>3
  <2>6. Agent!TypeOK'
    BY <1>2, <2>4, <2>5, ProcessBounds DEF ProcessInv, Agent!TypeOK, BeatType
  <2> QED
    BY <1>2, <2>4, <2>5, <2>6 DEF ProcessInv, Agent!NothingLeftBehind, TasksRun, OneBeat, NewestLast
<1> QED
  BY <1>2, <1>3, <1>4 DEF Agent!StopUnwanted, Agent!Started

LEMMA ProcessStep ==
    ASSUME ProcessInv, [Agent!Next]_(Agent!vars) PROVE ProcessInv' /\ applied' >= applied
<1>1. applied \in Nat
  BY ProcessBounds DEF ProcessInv, Agent!TypeOK
<1>2. CASE UNCHANGED Agent!vars
  BY <1>1, <1>2 DEF Agent!vars, Agent!beatVars, Agent!managerVars, ProcessInv, Agent!TypeOK, Agent!NothingLeftBehind,
              OneBeat, TasksRun, NewestLast
<1>3. ASSUME Agent!Boot \/ Agent!BootFails \/ Agent!Signal \/ Agent!Exit \/ Agent!CloseManager
             \/ Agent!Decide \/ Agent!Scanned \/ (\E c \in Agent!Callers : Agent!Scan(c))
      PROVE  applied' = applied
  BY <1>3 DEF Agent!Boot, Agent!BootFails, Agent!Signal, Agent!Exit, Agent!CloseManager, Agent!Decide, Agent!Scanned,
              Agent!Scan, Agent!managerVars
<1> QED
  BY <1>1, <1>2, <1>3, BootSteps, BeatSteps, CollectorSteps DEF Agent!Next

\* The tasks that run.
TasksActive == (IF scanning THEN {"discovery"} ELSE {}) \cup (IF active # 0 THEN {"heartbeat"} ELSE {})

LEMMA TasksMapping ==
    /\ Agent!Tasks!Init <=> TasksActive = {} /\ waiting = {}
    /\ TasksActive' = TasksActive /\ waiting' = waiting => UNCHANGED Agent!Tasks!vars
    /\ Agent!Tasks!Next <=> \/ \E c \in Agent!Callers, t \in {"discovery", "heartbeat"} : Agent!Tasks!Wait(c, t)
                            \/ \E t \in {"discovery", "heartbeat"} : Agent!Tasks!Finish(t)
    /\ \A c, t : Agent!Tasks!Wait(c, t) <=>
          /\ \A other \in {"discovery", "heartbeat"} : <<c, other>> \notin waiting
          /\ TasksActive' = TasksActive \cup {t}
          /\ waiting' = waiting \cup {<<c, t>>}
    /\ \A t : Agent!Tasks!Finish(t) <=>
          t \in TasksActive /\ TasksActive' = TasksActive \ {t} /\ waiting' = {w \in waiting : w[2] # t}
  BY DEF Agent!Tasks!Init, Agent!Tasks!vars, Agent!Tasks!Next, Agent!Tasks!Wait, Agent!Tasks!Finish, TasksActive

LEMMA TasksShared ==
    ASSUME ProcessInv, [Agent!Next]_(Agent!vars)
    PROVE  [Agent!Tasks!Next]_(Agent!Tasks!vars)
<1> USE DEF Agent!beatVars, Agent!managerVars
<1>1. CASE UNCHANGED <<scanning, active, waiting>>
  BY <1>1, TasksMapping DEF TasksActive
<1>2. CASE Agent!Scanned
  <2>1. scanning /\ scanning' = FALSE /\ active' = active /\ waiting' = {w \in waiting : w[2] # "discovery"}
    BY <1>2 DEF Agent!Scanned
  <2>2. Agent!Tasks!Finish("discovery")
    BY <2>1, TasksMapping DEF TasksActive
  <2> QED
    BY <2>2, TasksMapping
<1>3. ASSUME NEW c \in Agent!Callers, Agent!Scan(c) PROVE Agent!Tasks!Next
  <2>1. /\ \A t \in {"discovery", "heartbeat"} : <<c, t>> \notin waiting
        /\ scanning' = TRUE /\ active' = active /\ waiting' = waiting \cup {<<c, "discovery">>}
    BY <1>3 DEF Agent!Scan, Agent!Waits
  <2>2. TasksActive' = TasksActive \cup {"discovery"}
    BY <2>1 DEF TasksActive
  <2> QED
    BY <2>1, <2>2, TasksMapping
<1>4. ASSUME NEW c \in Agent!Callers, Agent!Heartbeat(c)
      PROVE  Agent!Tasks!Next \/ UNCHANGED Agent!Tasks!vars
  <2>1. /\ scanning' = scanning /\ waiting' = waiting \cup {<<c, "heartbeat">>} /\ active' # 0
        /\ (active # 0 => active' = active)
    BY <1>4 DEF Agent!Heartbeat, Agent!Called
  <2>2. TasksActive' = TasksActive \cup {"heartbeat"}
    BY <2>1 DEF TasksActive
  <2>3. <<c, "discovery">> \notin waiting
    BY <1>4 DEF Agent!Heartbeat, Agent!Waits, ProcessInv, TasksRun
  <2>4. CASE <<c, "heartbeat">> \in waiting
    <3>1. waiting' = waiting /\ active # 0
      BY <2>1, <2>4 DEF ProcessInv, TasksRun
    <3> QED
      BY <2>1, <3>1, TasksMapping DEF TasksActive
  <2> QED
    BY <2>1, <2>2, <2>3, <2>4, TasksMapping
<1>5. ASSUME NEW b \in Agent!Beats, Agent!HeartbeatFails(b) \/ Agent!Applied(b) PROVE Agent!Tasks!Next
  <2>1. beat[b].phase # "none" /\ Agent!Over(b)
    BY <1>5 DEF Agent!HeartbeatFails, Agent!Applied
  <2>2. active = 1 /\ active' = 0 /\ waiting' = {w \in waiting : w[2] # "heartbeat"} /\ scanning' = scanning
    BY <2>1, BeatOver DEF Agent!Over
  <2>3. Agent!Tasks!Finish("heartbeat")
    BY <2>2, TasksMapping DEF TasksActive
  <2> QED
    BY <2>3, TasksMapping
<1> QED
  BY <1>1, <1>2, <1>3, <1>4, <1>5
  DEF Agent!Next, Agent!vars, Agent!Boot, Agent!BootFails, Agent!Decide, Agent!Signal, Agent!CloseManager, Agent!Exit,
      Agent!Answer, Agent!Arrives, Agent!StopUnwanted, Agent!Want, Agent!Started

\* The process and its refinement, without its fairness.
LEMMA ProcessCorrect ==
    Agent!Init /\ [][Agent!Next]_(Agent!vars) => []ProcessInv /\ Agent!SharesLoads /\ Agent!AppliedInOrder
<1>1. Agent!Init => ProcessInv
  BY ProcessInit
<1>2. ProcessInv /\ [Agent!Next]_(Agent!vars) => ProcessInv'
  BY ProcessStep
<1>3. Agent!Init => Agent!Tasks!Init
  BY TasksMapping DEF Agent!Init, TasksActive
<1>4. ProcessInv /\ [Agent!Next]_(Agent!vars) => [Agent!Tasks!Next]_(Agent!Tasks!vars)
  BY TasksShared
<1>5. ProcessInv /\ [Agent!Next]_(Agent!vars) => [applied' >= applied]_(Agent!vars)
  BY ProcessStep
<1> QED
  BY <1>1, <1>2, <1>3, <1>4, <1>5, PTL DEF Agent!SharesLoads, Agent!Tasks!Spec, Agent!AppliedInOrder

-----------------------------------------------------------------------------
(* The alert scanner *)

Entries == Alerts!Keys \cup {Alerts!ManualTest}
Attempts == [Alerts!Keys -> Alerts!Never..MaxClock]
ScanType == [phase : {"idle", "evaluating", "sending"}, config : Configs \cup {Alerts!Default},
             now : 0..MaxClock, todo : Seq(Alerts!Keys)]
ManagerType == [there : BOOLEAN, timer : BOOLEAN, active : SUBSET Alerts!Fingerprints, lastSent : Attempts,
                history : Seq(Entries), scan : ScanType, testing : BOOLEAN]

Shortest == Alerts!Min({c.cooldown : c \in Configs} \cup {MaxClock})

\* Between two deliveries of a scan that began now: the last attempt but one of an alert began
\* before the scan of the last one did, and an attempt since then is one of this scan.
Settled(now, sent, last, before, t) ==
    \A k \in Alerts!Keys :
        /\ last[k] =< t /\ before[k] =< t
        /\ Shortest > 0 => before[k] =< sent[k] /\ (last[k] =< now \/ sent[k] = now)

\* When the scan began, and what will have been sent when the delivery that runs is over.
Since(scan, t) == IF scan.phase = "idle" THEN t ELSE scan.now
Attempted(scan, sent) ==
    IF scan.phase = "sending" THEN [sent EXCEPT ![Head(scan.todo)] = scan.now] ELSE sent

\* A manager scans by a configuration that was saved, and remembers of the attempts made up
\* to the time t the scans they were made in.
Fine(r, last, before, t) ==
    /\ r \in ManagerType /\ Len(r.history) =< MaxHistory
    /\ r.there \/ r = Alerts!Absent
    /\ (r.scan.phase = "sending") = (r.scan.todo # <<>>)
    /\ r.scan.phase # "idle" => r.scan.config \in Configs /\ r.scan.now =< t
    /\ Settled(Since(r.scan, t), Attempted(r.scan, r.lastSent), last, before, t)

ObservedType == [last : [Managers -> Attempts], before : [Managers -> Attempts], shortest : Int]

AlertInv ==
    /\ clock \in 0..MaxClock /\ crashes \in 0..MaxCrashes
    /\ config \in Configs \cup {Alerts!Default}
    /\ file \in Seq(Entries) /\ Len(file) =< MaxHistory
    /\ manager \in [Managers -> ManagerType]
    /\ \A m \in Managers : Fine(manager[m], observed.last[m], observed.before[m], clock)
    /\ observed \in ObservedType
    /\ observed.shortest >= Shortest

LEMMA AlertBounds ==
    /\ MaxHistory \in Nat /\ MaxClock \in Nat /\ MaxCrashes \in Nat
    /\ \A c \in Configs : c \in [enabled : BOOLEAN, on : Seq(Channels), cooldown : Nat]
    /\ \A f \in Findings : f \in Seq(Alerts!Fingerprints)
    /\ Alerts!Never = -1 /\ Alerts!Never..MaxClock \subseteq Int /\ 0 \in 0..MaxClock
    /\ Alerts!Default.enabled = FALSE
  BY PartsAssumption DEF Alerts!ConfigAssumption, Alerts!Never, Alerts!Default

\* The shortest of the configured cooldowns.
LEMMA CooldownMin ==
    LET S == {c.cooldown : c \in Configs} \cup {MaxClock}
    IN  Alerts!Min(S) \in Nat /\ \A n \in S : Alerts!Min(S) =< n
<1> DEFINE S == {c.cooldown : c \in Configs} \cup {MaxClock}
<1>1. S \in SUBSET Nat /\ S # {}
  BY AlertBounds
<1> HIDE DEF S
<1>2. \E m \in S : \A n \in S : m =< n
  BY <1>1, Smallest
<1>3. Alerts!Min(S) \in S /\ \A n \in S : Alerts!Min(S) =< n
  BY <1>2 DEF Alerts!Min
<1> QED
  BY <1>1, <1>3 DEF S

LEMMA LastItemsType ==
    ASSUME NEW items \in Seq(Entries)
    PROVE  Alerts!LastItems(items) \in Seq(Entries) /\ Len(Alerts!LastItems(items)) =< MaxHistory
<1> DEFINE n == Len(items)
           first == IF n > MaxHistory THEN n - MaxHistory + 1 ELSE 1
<1>1. n \in Nat /\ MaxHistory \in Nat /\ first \in Int /\ first >= 1 /\ n - first + 1 =< MaxHistory
  BY AlertBounds, LenProperties
<1>2. \A i \in first..n : items[i] \in Entries
  BY <1>1, ElementOfSeq
<1>3. Alerts!LastItems(items) = SubSeq(items, first, n)
  BY DEF Alerts!LastItems
<1> HIDE DEF n, first
<1>4. /\ SubSeq(items, first, n) \in Seq(Entries)
      /\ Len(SubSeq(items, first, n)) = IF first <= n THEN n - first + 1 ELSE 0
  BY <1>1, <1>2, SubSeqProperties
<1> QED
  BY <1>1, <1>3, <1>4

LEMMA FlatIndex ==
    ASSUME NEW k \in Nat, NEW n \in Nat, NEW i \in 1..(k * n)
    PROVE  ((i - 1) \div n) + 1 \in 1..k /\ ((i - 1) % n) + 1 \in 1..n
<1>1. n > 0 /\ k * n \in Nat
  <2>1. CASE n = 0
    BY <2>1
  <2> QED
    BY <2>1
<1> DEFINE q == (i - 1) \div n
           r == (i - 1) % n
<1>2. q \in Int /\ r \in 0..(n - 1) /\ i - 1 = n * q + r
  BY <1>1
<1> HIDE DEF q, r
<1>3. q < k
  <2>1. SUFFICES ASSUME q >= k PROVE FALSE
    BY <1>2
  <2>2. n * q >= n * k
    BY <1>1, <1>2, <2>1
  <2>3. n * k = k * n /\ i =< k * n
    BY <1>1
  <2> QED
    BY <1>1, <1>2, <2>2, <2>3
<1>4. q >= 0
  <2>1. SUFFICES ASSUME q =< -1 PROVE FALSE
    BY <1>2
  <2>2. n * q =< -n
    BY <1>1, <1>2, <2>1
  <2> QED
    BY <1>1, <1>2, <2>2
<1> QED
  BY <1>2, <1>3, <1>4 DEF q, r

LEMMA DeliveriesType ==
    ASSUME NEW sent \in Seq(Alerts!Fingerprints), NEW on \in Seq(Channels)
    PROVE  Alerts!Deliveries(sent, on) \in Seq(Alerts!Keys)
<1> DEFINE n == Len(sent) * Len(on)
           f == [i \in 1..n |-> <<sent[((i - 1) \div Len(on)) + 1], on[((i - 1) % Len(on)) + 1]>>]
<1>1. Len(sent) \in Nat /\ Len(on) \in Nat /\ n \in Nat
  BY LenProperties
<1>2. ASSUME NEW i \in 1..n
      PROVE  <<sent[((i - 1) \div Len(on)) + 1], on[((i - 1) % Len(on)) + 1]>> \in Alerts!Keys
  <2>1. ((i - 1) \div Len(on)) + 1 \in 1..Len(sent) /\ ((i - 1) % Len(on)) + 1 \in 1..Len(on)
    BY <1>1, FlatIndex
  <2>2. sent[((i - 1) \div Len(on)) + 1] \in Alerts!Fingerprints /\ on[((i - 1) % Len(on)) + 1] \in Channels
    BY <2>1, ElementOfSeq
  <2> QED
    BY <2>2 DEF Alerts!Keys
<1>3. f \in [1..n -> Alerts!Keys]
  BY <1>2
<1>4. Alerts!Deliveries(sent, on) = f
  BY DEF Alerts!Deliveries
<1> HIDE DEF f, n
<1> QED
  BY <1>1, <1>3, <1>4, SeqDef

-----------------------------------------------------------------------------
(* What the steps of a manager keep of it *)

LEMMA IdleScan ==
    /\ Alerts!NoScan \in ScanType /\ Alerts!NoScan.phase = "idle" /\ Alerts!NoScan.todo = <<>>
    /\ Alerts!Absent \in ManagerType /\ Alerts!Absent.history = <<>> /\ Alerts!Absent.scan = Alerts!NoScan
    /\ Alerts!Absent.lastSent = [k \in Alerts!Keys |-> Alerts!Never]
<1>1. /\ Alerts!NoScan.phase = "idle" /\ Alerts!NoScan.todo = <<>> /\ Alerts!NoScan.now = 0
      /\ Alerts!NoScan.config = Alerts!Default /\ Alerts!NoScan \in ScanType
  BY AlertBounds, EmptySeq DEF Alerts!NoScan, ScanType
<1>2. [k \in Alerts!Keys |-> Alerts!Never] \in Attempts
  BY AlertBounds DEF Attempts
<1> QED
  BY <1>1, <1>2, EmptySeq DEF Alerts!Absent, ManagerType

LEMMA OpenedFine ==
    ASSUME AlertInv, NEW m \in Managers
    PROVE  Fine(Alerts!Opened(m), observed.last[m], observed.before[m], clock) /\ Alerts!Opened(m).there
<1>1. CASE manager[m].there
  BY <1>1 DEF AlertInv, Alerts!Opened
<1>2. CASE ~manager[m].there
  <2> DEFINE h == Alerts!LastItems(file)
  <2>1. h \in Seq(Entries) /\ Len(h) =< MaxHistory
    BY LastItemsType DEF AlertInv
  <2> HIDE DEF h
  <2>2. Alerts!Opened(m) = [Alerts!Absent EXCEPT !.there = TRUE, !.history = h]
    BY <1>2 DEF Alerts!Opened, h
  <2> DEFINE r == [Alerts!Absent EXCEPT !.there = TRUE, !.history = h]
  <2>3. /\ r \in ManagerType /\ r.history = h /\ r.scan = Alerts!NoScan /\ r.there
        /\ r.lastSent = Alerts!Absent.lastSent
    BY <2>1, IdleScan DEF ManagerType
  <2>4. Fine(Alerts!Absent, observed.last[m], observed.before[m], clock)
    BY <1>2 DEF AlertInv, Fine
  <2> HIDE DEF r
  <2> QED
    BY <2>1, <2>2, <2>3, <2>4, IdleScan DEF Fine, r
<1> QED
  BY <1>1, <1>2

LEMMA ScanBegunFine ==
    ASSUME AlertInv, NEW r, NEW last, NEW before, Fine(r, last, before, clock), r.there, NEW saved \in Configs \cup {Alerts!Default}
    PROVE  Fine(Alerts!ScanBegun(r, saved), last, before, clock) /\ Alerts!ScanBegun(r, saved).there
<1>1. CASE r.scan.phase # "idle"
  BY <1>1 DEF Alerts!ScanBegun
<1>2. CASE r.scan.phase = "idle" /\ saved.enabled
  <2> DEFINE s == [phase |-> "evaluating", config |-> saved, now |-> clock, todo |-> <<>>]
             t == [r EXCEPT !.scan = s]
  <2>1. s \in ScanType /\ s.phase = "evaluating" /\ s.config = saved /\ s.todo = <<>> /\ saved \in Configs
        /\ s.now = clock /\ clock =< clock
    BY <1>2, AlertBounds, EmptySeq DEF ScanType, AlertInv
  <2> HIDE DEF s
  <2>2. t \in ManagerType /\ t.scan = s /\ t.history = r.history /\ t.lastSent = r.lastSent
        /\ t.there = r.there
    BY <2>1 DEF Fine, ManagerType
  <2>3. Alerts!ScanBegun(r, saved) = t
    BY <1>2 DEF Alerts!ScanBegun, s
  <2>4. /\ Since(r.scan, clock) = clock /\ Attempted(r.scan, r.lastSent) = r.lastSent
        /\ Since(s, clock) = clock /\ Attempted(s, r.lastSent) = r.lastSent
    BY <1>2, <2>1 DEF Since, Attempted
  <2> HIDE DEF t
  <2> QED
    BY <2>1, <2>2, <2>3, <2>4 DEF Fine
<1>3. CASE r.scan.phase = "idle" /\ ~saved.enabled
  <2> DEFINE t == [r EXCEPT !.active = {}]
  <2>1. t \in ManagerType /\ t.scan = r.scan /\ t.history = r.history /\ t.lastSent = r.lastSent
        /\ t.there = r.there
    BY DEF Fine, ManagerType
  <2>2. Alerts!ScanBegun(r, saved) = t
    BY <1>3 DEF Alerts!ScanBegun
  <2> HIDE DEF t
  <2> QED
    BY <1>3, <2>1, <2>2 DEF Fine
<1> QED
  BY <1>1, <1>2, <1>3

LEMMA TimerEnsuredFine ==
    ASSUME AlertInv, NEW r, NEW last, NEW before, Fine(r, last, before, clock), r.there, NEW saved \in Configs \cup {Alerts!Default}
    PROVE  Fine(Alerts!TimerEnsured(r, saved), last, before, clock) /\ Alerts!TimerEnsured(r, saved).there
<1> DEFINE t == [r EXCEPT !.timer = TRUE]
<1>1. t \in ManagerType /\ t.scan = r.scan /\ t.history = r.history /\ t.lastSent = r.lastSent
      /\ t.there = r.there
  BY DEF Fine, ManagerType
<1> HIDE DEF t
<1>2. Fine(t, last, before, clock) /\ t.there
  BY <1>1 DEF Fine
<1>3. Fine(Alerts!ScanBegun(t, saved), last, before, clock) /\ Alerts!ScanBegun(t, saved).there
  BY <1>2, ScanBegunFine
<1> QED
  BY <1>3 DEF Alerts!TimerEnsured, t

\* The deliveries that are cooling are passed over, and the attempt that begins is the next
\* but one to no attempt less than a cooldown ago.
LEMMA DeliveringFine ==
    ASSUME AlertInv, NEW m \in Managers, NEW r \in ManagerType, r.there, Len(r.history) =< MaxHistory,
           NEW scan \in ScanType, scan.config \in Configs, scan.now =< clock, NEW todo \in Seq(Alerts!Keys),
           Settled(scan.now, r.lastSent, observed.last[m], observed.before[m], clock),
           manager' = [manager EXCEPT ![m] = Alerts!Delivering(r, scan, todo)],
           observed' = Alerts!Attempting(m, manager'[m])
    PROVE  /\ Fine(manager'[m], observed'.last[m], observed'.before[m], clock)
           /\ \A n \in Managers \ {m} : observed'.last[n] = observed.last[n] /\ observed'.before[n] = observed.before[n]
           /\ observed' \in ObservedType /\ observed'.shortest >= Shortest
<1> DEFINE due == {i \in 1..Len(todo) : ~Alerts!Cooling(r, todo[i], scan)}
           first == Alerts!Min(due)
           rest == SubSeq(todo, first, Len(todo))
           s == [scan EXCEPT !.phase = "sending", !.todo = rest]
           t == [r EXCEPT !.scan = s]
           last == observed.last[m]
           before == observed.before[m]
<1>1. /\ manager \in [Managers -> ManagerType] /\ observed \in ObservedType /\ observed.shortest >= Shortest
      /\ clock \in 0..MaxClock /\ MaxClock \in Nat /\ Alerts!Never = -1
      /\ Shortest \in Nat /\ scan.config.cooldown \in Nat /\ Shortest =< scan.config.cooldown
  <2>1. scan.config.cooldown \in {c.cooldown : c \in Configs} \cup {MaxClock}
    OBVIOUS
  <2>2. Shortest \in Nat /\ Shortest =< scan.config.cooldown
    BY <2>1, CooldownMin DEF Shortest
  <2> QED
    BY <2>2, AlertBounds DEF AlertInv
<1>2. /\ last \in Attempts /\ before \in Attempts /\ r.lastSent \in Attempts /\ scan.now \in 0..MaxClock
      /\ manager'[m] = Alerts!Delivering(r, scan, todo)
  BY <1>1 DEF ManagerType, ScanType, ObservedType
<1>3. \A k \in Alerts!Keys : /\ {last[k], before[k], r.lastSent[k]} \subseteq Int
                             /\ last[k] \in Alerts!Never..MaxClock /\ before[k] >= -1
                             /\ last[k] =< clock /\ before[k] =< clock
                             /\ Shortest > 0 => /\ before[k] =< r.lastSent[k]
                                                /\ last[k] =< scan.now \/ r.lastSent[k] = scan.now
  BY <1>1, <1>2 DEF Settled, Attempts
<1>4. CASE due = {}
  <2> DEFINE u == [r EXCEPT !.scan = Alerts!NoScan]
  <2>1. manager'[m] = u
    BY <1>4, <1>2 DEF Alerts!Delivering
  <2>2. u \in ManagerType /\ u.scan = Alerts!NoScan /\ u.history = r.history /\ u.lastSent = r.lastSent
        /\ u.there = r.there
    BY IdleScan DEF ManagerType
  <2> HIDE DEF u
  <2>3. observed' = observed
    BY <2>1, <2>2, IdleScan DEF Alerts!Attempting
  <2>4. Since(u.scan, clock) = clock /\ Attempted(u.scan, u.lastSent) = r.lastSent
    BY <2>2, IdleScan DEF Since, Attempted
  <2>5. Settled(clock, r.lastSent, last, before, clock)
    BY <1>3 DEF Settled
  <2>6. Fine(u, last, before, clock)
    BY <2>2, <2>4, <2>5, IdleScan DEF Fine
  <2> QED
    BY <1>1, <2>1, <2>3, <2>6
<1>5. CASE due # {}
  <2>1. Len(todo) \in Nat /\ due \in SUBSET Nat
    BY LenProperties
  <2>2. first \in due
    <3> HIDE DEF due
    <3>1. \E i \in due : \A n \in due : i =< n
      BY <1>5, <2>1, Smallest
    <3> QED
      BY <3>1 DEF Alerts!Min
  <2>3. first \in 1..Len(todo) /\ ~Alerts!Cooling(r, todo[first], scan)
    BY <2>2
  <2>4. manager'[m] = t
    BY <1>5, <1>2 DEF Alerts!Delivering
  <2> HIDE DEF due, first
  <2>5. Head(rest) = todo[first]
    BY <2>1, <2>3, HeadTailOfSubSeq
  <2>6. rest \in Seq(Alerts!Keys) /\ rest # <<>>
    <3>1. \A i \in first..Len(todo) : todo[i] \in Alerts!Keys
      BY <2>1, <2>3, ElementOfSeq
    <3>2. first \in Int /\ Len(todo) \in Int /\ first =< Len(todo)
      BY <2>1, <2>3
    <3>3. rest \in Seq(Alerts!Keys) /\ Len(rest) = Len(todo) - first + 1
      BY <3>1, <3>2, SubSeqProperties
    <3>4. Len(rest) # 0
      BY <3>2, <3>3
    <3> QED
      BY <3>3, <3>4, EmptySeq
  <2> DEFINE key == Head(rest)
  <2>7. key \in Alerts!Keys /\ ~Alerts!Cooling(r, key, scan)
    BY <2>1, <2>3, <2>5, ElementOfSeq
  <2> HIDE DEF rest
  <2>8. s \in ScanType /\ s.phase = "sending" /\ s.config = scan.config /\ s.todo = rest /\ s.now = scan.now
    BY <2>6 DEF ScanType
  <2> HIDE DEF s
  <2>9. t \in ManagerType /\ t.scan = s /\ t.history = r.history /\ t.lastSent = r.lastSent
        /\ t.there = r.there
    BY <2>8 DEF ManagerType
  <2> HIDE DEF t
  <2>10. observed' = [last |-> [observed.last EXCEPT ![m][key] = clock],
                      before |-> [observed.before EXCEPT ![m][key] = observed.last[m][key]],
                      shortest |-> Alerts!Shorter(m, key)]
    BY <2>4, <2>8, <2>9 DEF Alerts!Attempting
  <2> HIDE DEF key
  <2> DEFINE soon == [last EXCEPT ![key] = clock]
             old == [before EXCEPT ![key] = last[key]]
             told == [r.lastSent EXCEPT ![key] = scan.now]
  <2>11. /\ clock \in Alerts!Never..MaxClock /\ last[key] \in Alerts!Never..MaxClock
         /\ soon \in Attempts /\ old \in Attempts
         /\ observed'.last = [observed.last EXCEPT ![m] = soon]
         /\ observed'.before = [observed.before EXCEPT ![m] = old]
    <3>1. clock \in Alerts!Never..MaxClock /\ last[key] \in Alerts!Never..MaxClock
      BY <1>1, <1>2, <2>7 DEF Attempts
    <3> QED
      BY <1>1, <1>2, <2>7, <2>10, <3>1 DEF Attempts, ObservedType
  <2>12. /\ observed'.last \in [Managers -> Attempts] /\ observed'.last[m] = soon
         /\ observed'.before \in [Managers -> Attempts] /\ observed'.before[m] = old
         /\ \A n \in Managers \ {m} : observed'.last[n] = observed.last[n] /\ observed'.before[n] = observed.before[n]
    <3>1. observed.last \in [Managers -> Attempts] /\ observed.before \in [Managers -> Attempts]
      BY <1>1 DEF ObservedType
    <3> HIDE DEF soon, old
    <3>2. \A f, g \in [Managers -> Attempts] : \A x \in Attempts :
             g = [f EXCEPT ![m] = x] => g[m] = x /\ \A n \in Managers \ {m} : g[n] = f[n]
      OBVIOUS
    <3>3. observed'.last \in [Managers -> Attempts] /\ observed'.before \in [Managers -> Attempts]
      BY <2>11, <3>1
    <3> QED
      BY <2>11, <3>1, <3>2, <3>3
  <2>13. r.lastSent[key] # Alerts!Never => scan.now - r.lastSent[key] >= scan.config.cooldown
    BY <1>1, <1>2, <1>3, <2>7 DEF Alerts!Cooling
  <2>14. Shortest > 0 => last[key] =< scan.now
    BY <1>1, <1>2, <1>3, <2>7, <2>13
  <2>15. Settled(scan.now, told, soon, old, clock)
    <3> SUFFICES ASSUME NEW k \in Alerts!Keys
                 PROVE  /\ soon[k] =< clock /\ old[k] =< clock
                        /\ Shortest > 0 => old[k] =< told[k] /\ (soon[k] =< scan.now \/ told[k] = scan.now)
      BY DEF Settled
    <3>1. CASE k = key
      <4>1. soon[k] = clock /\ old[k] = last[key] /\ told[k] = scan.now
        BY <1>2, <3>1 DEF Attempts
      <4> HIDE DEF soon, old, told
      <4> QED
        BY <1>1, <1>3, <2>7, <2>14, <4>1
    <3>2. CASE k # key
      <4>1. soon[k] = last[k] /\ old[k] = before[k] /\ told[k] = r.lastSent[k]
        BY <1>2, <3>2 DEF Attempts
      <4> HIDE DEF soon, old, told
      <4> QED
        BY <1>3, <4>1
    <3> QED
      BY <3>1, <3>2
  <2>16. Fine(t, soon, old, clock)
    <3>1. Since(t.scan, clock) = scan.now /\ Attempted(t.scan, t.lastSent) = told
      BY <2>8, <2>9 DEF Since, Attempted, key
    <3> HIDE DEF soon, old, told
    <3> QED
      BY <2>6, <2>8, <2>9, <2>15, <3>1 DEF Fine
  <2>17. observed'.shortest \in Int /\ observed'.shortest >= Shortest
    <3>1. observed'.shortest = IF before[key] = Alerts!Never \/ clock - before[key] >= observed.shortest
                               THEN observed.shortest ELSE clock - before[key]
      BY <2>10 DEF Alerts!Shorter
    <3>2. observed.shortest \in Int /\ before[key] \in Int /\ before[key] >= -1 /\ before[key] =< clock
          /\ (Shortest > 0 => before[key] =< r.lastSent[key]) /\ r.lastSent[key] \in Int
      BY <1>1, <1>3, <2>7 DEF ObservedType
    <3> HIDE DEF last, before
    <3>3. before[key] # Alerts!Never => clock - before[key] >= Shortest
      BY <1>1, <1>2, <2>13, <3>2
    <3> QED
      BY <1>1, <3>1, <3>2, <3>3
  <2>18. observed' \in ObservedType
    BY <2>10, <2>12, <2>17 DEF ObservedType
  <2> QED
    BY <2>4, <2>12, <2>16, <2>17, <2>18
<1> QED
  BY <1>4, <1>5

-----------------------------------------------------------------------------
(* The steps of the scanner *)

\* A manager that has just been made, or was lost.
LEMMA NothingAttempted ==
    ASSUME clock \in Nat
    PROVE  LET nothing == [k \in Alerts!Keys |-> Alerts!Never] IN Fine(Alerts!Absent, nothing, nothing, clock)
<1> DEFINE nothing == [k \in Alerts!Keys |-> Alerts!Never]
<1>1. \A k \in Alerts!Keys : nothing[k] = -1
  BY AlertBounds
<1>2. /\ Since(Alerts!Absent.scan, clock) = clock
      /\ Attempted(Alerts!Absent.scan, Alerts!Absent.lastSent) = nothing
  BY IdleScan DEF Since, Attempted
<1> HIDE DEF nothing
<1>3. Settled(clock, nothing, nothing, nothing, clock)
  BY <1>1 DEF Settled
<1>4. Fine(Alerts!Absent, nothing, nothing, clock)
  BY <1>2, <1>3, IdleScan, AlertBounds, EmptySeq DEF Fine
<1> QED
  BY <1>4 DEF nothing

LEMMA AlertInit == Alerts!Init => AlertInv
<1> SUFFICES ASSUME Alerts!Init PROVE AlertInv
  OBVIOUS
<1> DEFINE nothing == [k \in Alerts!Keys |-> Alerts!Never]
<1>1. nothing \in Attempts
  BY AlertBounds DEF Attempts
<1>2. /\ observed.last = [m \in Managers |-> nothing] /\ observed.before = [m \in Managers |-> nothing]
      /\ observed.shortest = MaxClock
  BY DEF Alerts!Init, Alerts!NothingObserved
<1> HIDE DEF nothing
<1>3. \A m \in Managers : manager[m] = Alerts!Absent /\ observed.last[m] = nothing
                                   /\ observed.before[m] = nothing
  BY <1>2 DEF Alerts!Init
<1>4. Fine(Alerts!Absent, nothing, nothing, clock)
  BY NothingAttempted DEF nothing, Alerts!Init
<1>5. manager \in [Managers -> ManagerType]
  BY IdleScan DEF Alerts!Init
<1>6. observed.shortest >= Shortest
  BY <1>2, CooldownMin, AlertBounds DEF Shortest
<1>7. observed \in ObservedType
  BY <1>1, <1>2, AlertBounds DEF Alerts!Init, Alerts!NothingObserved, ObservedType
<1>8. clock \in 0..MaxClock /\ crashes \in 0..MaxCrashes /\ config \in Configs \cup {Alerts!Default}
      /\ file \in Seq(Entries) /\ Len(file) =< MaxHistory
  BY AlertBounds, EmptySeq DEF Alerts!Init
<1> QED
  BY <1>3, <1>4, <1>5, <1>6, <1>7, <1>8 DEF AlertInv

\* A manager is changed, what was attempted is not.
LEMMA ManagerChanges ==
    ASSUME AlertInv, NEW m \in Managers, NEW r, Fine(r, observed.last[m], observed.before[m], clock),
           manager' = [manager EXCEPT ![m] = r], UNCHANGED <<clock, crashes, observed>>,
           config' \in Configs \cup {Alerts!Default}, file' \in Seq(Entries), Len(file') =< MaxHistory
    PROVE  AlertInv'
<1>1. manager' \in [Managers -> ManagerType] /\ manager'[m] = r /\ \A n \in Managers \ {m} : manager'[n] = manager[n]
  BY DEF AlertInv, Fine
<1>2. \A n \in Managers : Fine(manager'[n], observed.last[n], observed.before[n], clock)
  BY <1>1 DEF AlertInv
<1>3. \A n \in Managers : Fine(manager[n], observed.last[n], observed.before[n], clock)'
  BY <1>2 DEF Fine, Settled, Since, Attempted
<1> QED
  BY <1>1, <1>3 DEF AlertInv, ObservedType

LEMMA KnownManager ==
    ASSUME AlertInv, NEW m \in Managers
    PROVE  Fine(manager[m], observed.last[m], observed.before[m], clock) /\ manager[m] \in ManagerType
  BY DEF AlertInv

\* Requests, saves, the timer, and test messages.
LEMMA RequestSteps ==
    ASSUME AlertInv, NEW m \in Managers,
           Alerts!Summary(m) \/ Alerts!Save(m) \/ Alerts!TimerFires(m) \/ Alerts!Test(m)
    PROVE  AlertInv'
<1>1. config \in Configs \cup {Alerts!Default} /\ file \in Seq(Entries) /\ Len(file) =< MaxHistory
  BY DEF AlertInv
<1>2. CASE Alerts!Summary(m)
  <2>1. Fine(Alerts!TimerEnsured(Alerts!Opened(m), config), observed.last[m], observed.before[m], clock)
    BY <1>1, OpenedFine, TimerEnsuredFine
  <2> QED
    BY <1>1, <1>2, <2>1, ManagerChanges DEF Alerts!Summary
<1>3. CASE Alerts!Save(m)
  <2>1. PICK saved \in Configs \ {config} :
           /\ config' = saved /\ manager' = [manager EXCEPT ![m] = Alerts!TimerEnsured(Alerts!Opened(m), saved)]
           /\ UNCHANGED <<clock, crashes, provider, file, observed>>
    BY <1>3 DEF Alerts!Save
  <2>2. Fine(Alerts!TimerEnsured(Alerts!Opened(m), saved), observed.last[m], observed.before[m], clock)
    BY OpenedFine, TimerEnsuredFine
  <2> QED
    BY <1>1, <2>1, <2>2, ManagerChanges
<1>4. CASE Alerts!TimerFires(m)
  <2>1. manager[m].timer /\ Fine(manager[m], observed.last[m], observed.before[m], clock)
    BY <1>4, KnownManager DEF Alerts!TimerFires
  <2>2. manager[m].there
    BY <2>1 DEF Fine, Alerts!Absent
  <2>3. Fine(Alerts!ScanBegun(manager[m], config), observed.last[m], observed.before[m], clock)
    BY <1>1, <2>1, <2>2, ScanBegunFine
  <2> QED
    BY <1>1, <1>4, <2>3, ManagerChanges DEF Alerts!TimerFires
<1>5. CASE Alerts!Test(m)
  <2> DEFINE r == Alerts!Opened(m)
             t == [r EXCEPT !.testing = TRUE]
  <2>1. Fine(r, observed.last[m], observed.before[m], clock) /\ r.there
    BY OpenedFine
  <2> HIDE DEF r
  <2>2. t \in ManagerType /\ t.scan = r.scan /\ t.history = r.history /\ t.lastSent = r.lastSent /\ t.there = r.there
    BY <2>1 DEF Fine, ManagerType
  <2>3. manager' = [manager EXCEPT ![m] = t] /\ UNCHANGED <<clock, crashes, config, file, observed>>
    BY <1>5 DEF Alerts!Test, r
  <2> HIDE DEF t
  <2>4. Fine(t, observed.last[m], observed.before[m], clock)
    BY <2>1, <2>2 DEF Fine
  <2> QED
    BY <1>1, <2>3, <2>4, ManagerChanges
<1> QED
  BY <1>2, <1>3, <1>4, <1>5

\* What is delivered is recorded.
LEMMA RecordedType ==
    ASSUME NEW r \in ManagerType, NEW key \in Entries
    PROVE  LET t == Alerts!Recorded(r, key)
           IN  /\ t \in ManagerType /\ Len(t.history) =< MaxHistory
               /\ t.scan = r.scan /\ t.lastSent = r.lastSent /\ t.there = r.there
<1> DEFINE h == Alerts!LastItems(Append(r.history, key))
<1>1. Append(r.history, key) \in Seq(Entries)
  BY AppendProperties DEF ManagerType
<1>2. h \in Seq(Entries) /\ Len(h) =< MaxHistory
  BY <1>1, LastItemsType
<1>3. Alerts!Recorded(r, key) = [r EXCEPT !.history = h]
  BY DEF Alerts!Recorded
<1> HIDE DEF h
<1> QED
  BY <1>2, <1>3 DEF ManagerType

LEMMA TestedStep == ASSUME AlertInv, NEW m \in Managers, Alerts!Tested(m) PROVE AlertInv'
<1> DEFINE r == [manager[m] EXCEPT !.testing = FALSE]
           t == Alerts!Recorded(r, Alerts!ManualTest)
<1>1. config \in Configs \cup {Alerts!Default} /\ file \in Seq(Entries) /\ Len(file) =< MaxHistory
  BY DEF AlertInv
<1>2. /\ manager[m].testing /\ UNCHANGED <<clock, crashes, provider, config, observed>>
      /\ \/ manager' = [manager EXCEPT ![m] = t] /\ file' = manager'[m].history
         \/ manager' = [manager EXCEPT ![m] = r] /\ file' = file
  BY DEF Alerts!Tested
<1>3. Fine(manager[m], observed.last[m], observed.before[m], clock) /\ manager[m].there
  BY <1>2, KnownManager DEF Fine, Alerts!Absent
<1>4. /\ r \in ManagerType /\ r.scan = manager[m].scan /\ r.history = manager[m].history
      /\ r.lastSent = manager[m].lastSent /\ r.there
  BY <1>3 DEF Fine, ManagerType
<1> HIDE DEF r
<1>5. t \in ManagerType /\ Len(t.history) =< MaxHistory /\ t.scan = r.scan /\ t.lastSent = r.lastSent /\ t.there
  BY <1>4, RecordedType DEF Entries
<1> HIDE DEF t
<1>6. Fine(r, observed.last[m], observed.before[m], clock) /\ Fine(t, observed.last[m], observed.before[m], clock)
  BY <1>3, <1>4, <1>5 DEF Fine
<1>7. CASE manager' = [manager EXCEPT ![m] = t] /\ file' = manager'[m].history
  <2>1. file' = t.history /\ t.history \in Seq(Entries)
    BY <1>5, <1>7 DEF AlertInv, ManagerType
  <2> QED
    BY <1>1, <1>2, <1>5, <1>6, <1>7, <2>1, ManagerChanges
<1> QED
  BY <1>1, <1>2, <1>6, <1>7, ManagerChanges

\* A manager goes on delivering.
LEMMA DeliveringStep ==
    ASSUME AlertInv, NEW m \in Managers, NEW r \in ManagerType, r.there, Len(r.history) =< MaxHistory,
           NEW scan \in ScanType, scan.config \in Configs, scan.now =< clock, NEW todo \in Seq(Alerts!Keys),
           Settled(scan.now, r.lastSent, observed.last[m], observed.before[m], clock),
           manager' = [manager EXCEPT ![m] = Alerts!Delivering(r, scan, todo)],
           observed' = Alerts!Attempting(m, manager'[m]), UNCHANGED <<clock, crashes, config>>,
           file' \in Seq(Entries), Len(file') =< MaxHistory
    PROVE  AlertInv'
<1>1. /\ Fine(manager'[m], observed'.last[m], observed'.before[m], clock)
      /\ \A n \in Managers \ {m} : observed'.last[n] = observed.last[n] /\ observed'.before[n] = observed.before[n]
      /\ observed' \in ObservedType /\ observed'.shortest >= Shortest
  BY DeliveringFine
<1>2. manager' \in [Managers -> ManagerType] /\ \A n \in Managers \ {m} : manager'[n] = manager[n]
  <2> DEFINE one == Alerts!Delivering(r, scan, todo)
  <2> HIDE DEF one
  <2>1. manager \in [Managers -> ManagerType] /\ manager' = [manager EXCEPT ![m] = one]
    BY DEF AlertInv, one
  <2>2. one \in ManagerType
    BY <1>1, <2>1 DEF Fine
  <2> QED
    BY <2>1, <2>2
<1>3. \A n \in Managers : Fine(manager'[n], observed'.last[n], observed'.before[n], clock)
  BY <1>1, <1>2 DEF AlertInv
<1>4. \A n \in Managers : Fine(manager[n], observed.last[n], observed.before[n], clock)'
  BY <1>3 DEF Fine, Settled, Since, Attempted
<1> QED
  BY <1>1, <1>2, <1>4 DEF AlertInv, ObservedType

LEMMA EvaluatedStep ==
    ASSUME AlertInv, NEW m \in Managers, Alerts!Evaluated(m) \/ Alerts!EvaluationFails(m) PROVE AlertInv'
<1> DEFINE s == manager[m].scan
           last == observed.last[m]
           before == observed.before[m]
<1>1. config \in Configs \cup {Alerts!Default} /\ file \in Seq(Entries) /\ Len(file) =< MaxHistory
  BY DEF AlertInv
<1>2. s.phase = "evaluating" /\ Fine(manager[m], last, before, clock) /\ manager[m] \in ManagerType
  BY KnownManager DEF Alerts!Evaluated, Alerts!EvaluationFails
<1>3. manager[m].there /\ s \in ScanType /\ s.config \in Configs /\ s.now =< clock
      /\ Settled(s.now, manager[m].lastSent, last, before, clock)
  <2>1. Since(s, clock) = s.now /\ Attempted(s, manager[m].lastSent) = manager[m].lastSent
    BY <1>2 DEF Since, Attempted
  <2> QED
    BY <1>2, <2>1, IdleScan DEF Fine, ManagerType
<1>4. CASE Alerts!Evaluated(m)
  <2>1. PICK sent \in Findings :
          /\ manager' = [manager EXCEPT ![m] = Alerts!Delivering([manager[m] EXCEPT !.active = Alerts!Range(sent)],
                                                                 s, Alerts!Deliveries(sent, s.config.on))]
          /\ observed' = Alerts!Attempting(m, manager'[m])
          /\ UNCHANGED <<clock, crashes, provider, config, file>>
    BY <1>4 DEF Alerts!Evaluated
  <2>2. Alerts!Deliveries(sent, s.config.on) \in Seq(Alerts!Keys)
    <3>1. sent \in Seq(Alerts!Fingerprints) /\ s.config.on \in Seq(Channels)
      BY <1>3, AlertBounds
    <3> QED
      BY <3>1, DeliveriesType
  <2> DEFINE r == [manager[m] EXCEPT !.active = Alerts!Range(sent)]
             todo == Alerts!Deliveries(sent, s.config.on)
  <2>3. r \in ManagerType /\ r.there /\ r.lastSent = manager[m].lastSent /\ Len(r.history) =< MaxHistory
    <3>1. Alerts!Range(sent) \in SUBSET Alerts!Fingerprints
      BY DEF Alerts!Fingerprints
    <3> QED
      BY <1>2, <1>3, <3>1 DEF Fine, ManagerType
  <2>4. manager' = [manager EXCEPT ![m] = Alerts!Delivering(r, s, todo)]
    BY <2>1
  <2> HIDE DEF r, todo, s
  <2>5. todo \in Seq(Alerts!Keys)
    BY <2>2 DEF todo
  <2> QED
    BY <1>1, <1>3, <2>1, <2>3, <2>4, <2>5, DeliveringStep
<1>5. CASE Alerts!EvaluationFails(m)
  <2> DEFINE r == [manager[m] EXCEPT !.scan = Alerts!NoScan]
  <2>1. r \in ManagerType /\ r.there /\ r.lastSent = manager[m].lastSent /\ r.scan = Alerts!NoScan
        /\ r.history = manager[m].history /\ Len(r.history) =< MaxHistory
    BY <1>2, <1>3, IdleScan DEF Fine, ManagerType
  <2>2. manager' = [manager EXCEPT ![m] = r] /\ UNCHANGED <<clock, crashes, config, file, observed>>
    BY <1>5 DEF Alerts!EvaluationFails
  <2> HIDE DEF r
  <2>3. Fine(r, last, before, clock)
    <3>1. Since(r.scan, clock) = clock /\ Attempted(r.scan, r.lastSent) = manager[m].lastSent
      BY <2>1, IdleScan DEF Since, Attempted
    <3>2. Settled(clock, manager[m].lastSent, last, before, clock)
      BY <1>3 DEF Settled
    <3> QED
      BY <2>1, <3>1, <3>2, IdleScan DEF Fine
  <2> QED
    BY <1>1, <2>2, <2>3, ManagerChanges
<1> QED
  BY <1>4, <1>5

LEMMA SentStep == ASSUME AlertInv, NEW m \in Managers, Alerts!Sent(m) PROVE AlertInv'
<1> DEFINE s == manager[m].scan
           key == Head(s.todo)
           told == [manager[m].lastSent EXCEPT ![key] = s.now]
           r == [manager[m] EXCEPT !.lastSent = told]
           sent == Alerts!Recorded(r, key)
           given == [sent EXCEPT !.scan = Alerts!NoScan]
           last == observed.last[m]
           before == observed.before[m]
<1>1. Fine(manager[m], last, before, clock) /\ manager[m].there /\ s \in ScanType /\ s.config \in Configs
      /\ s.phase = "sending" /\ s.todo # <<>> /\ s.todo \in Seq(Alerts!Keys) /\ s.now \in 0..MaxClock
      /\ s.now =< clock /\ manager[m] \in ManagerType
  BY KnownManager, IdleScan DEF Fine, ManagerType, ScanType, Alerts!Sent
<1>2. Settled(s.now, told, last, before, clock)
  <2>1. Since(s, clock) = s.now /\ Attempted(s, manager[m].lastSent) = told
    BY <1>1 DEF Since, Attempted
  <2> QED
    BY <1>1, <2>1 DEF Fine
<1>3. key \in Alerts!Keys /\ Tail(s.todo) \in Seq(Alerts!Keys)
  <2> HIDE DEF s
  <2> QED
    BY <1>1, HeadTailProperties
<1>4. /\ UNCHANGED <<clock, crashes, provider, config>>
      /\ \/ /\ manager' = [manager EXCEPT ![m] = Alerts!Delivering(sent, s, Tail(s.todo))]
            /\ file' = sent.history
         \/ manager' = [manager EXCEPT ![m] = given] /\ file' = file
      /\ observed' = Alerts!Attempting(m, manager'[m])
  <2>1. r = [manager[m] EXCEPT !.lastSent[key] = s.now]
    BY <1>1 DEF ManagerType
  <2> HIDE DEF r
  <2> QED
    BY <2>1 DEF Alerts!Sent
<1>5. told \in Attempts
  <2>1. s.now \in Alerts!Never..MaxClock
    BY <1>1, AlertBounds
  <2> QED
    BY <1>1, <1>3, <2>1 DEF ManagerType, Attempts
<1> HIDE DEF told
<1>6. r \in ManagerType /\ r.there /\ r.lastSent = told /\ r.scan = s
  BY <1>1, <1>5 DEF ManagerType
<1> HIDE DEF r, key
<1>7. sent \in ManagerType /\ Len(sent.history) =< MaxHistory /\ sent.lastSent = told /\ sent.there
      /\ sent.history \in Seq(Entries)
  <2>1. key \in Entries
    BY <1>3 DEF Entries
  <2>2. sent \in ManagerType /\ Len(sent.history) =< MaxHistory /\ sent.lastSent = told /\ sent.there
    BY <1>6, <2>1, RecordedType
  <2> HIDE DEF sent
  <2> QED
    BY <2>2 DEF ManagerType
<1> HIDE DEF sent
<1>8. CASE manager' = [manager EXCEPT ![m] = Alerts!Delivering(sent, s, Tail(s.todo))] /\ file' = sent.history
  <2> HIDE DEF s
  <2> QED
    BY <1>1, <1>2, <1>3, <1>4, <1>7, <1>8, DeliveringStep
<1>9. CASE manager' = [manager EXCEPT ![m] = given] /\ file' = file
  <2>1. /\ given \in ManagerType /\ given.scan = Alerts!NoScan /\ given.history = sent.history
        /\ given.lastSent = told /\ given.there
    BY <1>7, IdleScan DEF ManagerType
  <2> HIDE DEF given
  <2>2. Fine(given, last, before, clock)
    <3>1. Since(given.scan, clock) = clock /\ Attempted(given.scan, given.lastSent) = told
      BY <2>1, IdleScan DEF Since, Attempted
    <3>2. Settled(clock, told, last, before, clock)
      BY <1>2 DEF Settled
    <3> QED
      BY <1>7, <2>1, <3>1, <3>2, IdleScan DEF Fine
  <2>3. observed' = observed
    <3>1. manager'[m] = given
      BY <1>9 DEF AlertInv
    <3> QED
      BY <1>4, <2>1, <3>1, IdleScan DEF Alerts!Attempting
  <2> QED
    BY <1>4, <1>9, <2>2, <2>3, ManagerChanges DEF AlertInv
<1> QED
  BY <1>4, <1>8, <1>9

\* Time passes, and the agent restarts.
LEMMA TickStep == AlertInv /\ Alerts!Tick => AlertInv'
<1> SUFFICES ASSUME AlertInv, Alerts!Tick PROVE AlertInv'
  OBVIOUS
<1>1. clock' \in 0..MaxClock
  BY AlertBounds DEF AlertInv, Alerts!Tick
<1>2. UNCHANGED <<crashes, config, file, manager, observed>>
  BY DEF Alerts!Tick
<1>3. \A m \in Managers : Fine(manager[m], observed.last[m], observed.before[m], clock)'
  <2> SUFFICES ASSUME NEW m \in Managers
               PROVE  Fine(manager[m], observed.last[m], observed.before[m], clock)'
    OBVIOUS
  <2> DEFINE r == manager[m]
             last == observed.last[m]
             before == observed.before[m]
  <2>1. Fine(r, last, before, clock) /\ clock \in Nat /\ clock' = clock + 1
    BY DEF AlertInv, Alerts!Tick
  <2>2. /\ last \in Attempts /\ before \in Attempts /\ r.scan.now \in Int
    BY AlertBounds DEF AlertInv, ObservedType, ManagerType, ScanType
  <2>3. \A k \in Alerts!Keys : last[k] \in Int /\ before[k] \in Int
    BY <2>2, AlertBounds DEF Attempts
  <2> HIDE DEF r, last, before
  <2>4. Settled(Since(r.scan, clock'), Attempted(r.scan, r.lastSent), last, before, clock')
    <3>1. CASE r.scan.phase = "idle"
      <4>1. Since(r.scan, clock) = clock /\ Since(r.scan, clock') = clock'
        BY <3>1 DEF Since
      <4> QED
        BY <2>1, <2>3, <4>1 DEF Fine, Settled
    <3>2. CASE r.scan.phase # "idle"
      <4>1. Since(r.scan, clock) = r.scan.now /\ Since(r.scan, clock') = r.scan.now
        BY <3>2 DEF Since
      <4> QED
        BY <2>1, <2>3, <4>1 DEF Fine, Settled
    <3> QED
      BY <3>1, <3>2
  <2>5. Fine(r, last, before, clock')
    BY <2>1, <2>2, <2>4 DEF Fine
  <2>6. Fine(manager'[m], observed'.last[m], observed'.before[m], clock')
    BY <1>2, <2>5 DEF r, last, before
  <2> QED
    BY <2>6 DEF Fine, Settled, Since, Attempted
<1> QED
  BY <1>1, <1>2, <1>3 DEF AlertInv, ObservedType

LEMMA CrashStep == AlertInv /\ Alerts!Crash => AlertInv'
<1> SUFFICES ASSUME AlertInv, Alerts!Crash PROVE AlertInv'
  OBVIOUS
<1> DEFINE nothing == [k \in Alerts!Keys |-> Alerts!Never]
<1>1. nothing \in Attempts
  BY AlertBounds DEF Attempts
<1>2. observed' = [observed EXCEPT !.last = [m \in Managers |-> nothing],
                                   !.before = [m \in Managers |-> nothing]] /\ UNCHANGED clock
      /\ manager' = [m \in Managers |-> Alerts!Absent]
  BY DEF Alerts!Crash, Alerts!NothingObserved
<1>3. crashes' \in 0..MaxCrashes
  BY AlertBounds DEF AlertInv, Alerts!Crash
<1>4. config' \in Configs \cup {Alerts!Default} /\ file' \in Seq(Entries) /\ Len(file') =< MaxHistory
  BY AlertBounds, EmptySeq DEF AlertInv, Alerts!Crash
<1>5. Fine(Alerts!Absent, nothing, nothing, clock)
  BY NothingAttempted DEF AlertInv
<1> HIDE DEF nothing
<1>6. /\ observed'.last = [m \in Managers |-> nothing] /\ observed'.before = [m \in Managers |-> nothing]
      /\ observed'.shortest = observed.shortest /\ observed' \in ObservedType
  BY <1>1, <1>2 DEF AlertInv, ObservedType
<1>7. \A m \in Managers : Fine(manager'[m], observed'.last[m], observed'.before[m], clock')
  BY <1>2, <1>5, <1>6
<1>8. \A m \in Managers : Fine(manager[m], observed.last[m], observed.before[m], clock)'
  BY <1>7 DEF Fine, Settled, Since, Attempted
<1> QED
  BY <1>1, <1>2, <1>3, <1>4, <1>6, <1>8, IdleScan DEF AlertInv

LEMMA AlertStep == AlertInv /\ [Alerts!Next]_(Alerts!vars) => AlertInv'
<1> SUFFICES ASSUME AlertInv, [Alerts!Next]_(Alerts!vars) PROVE AlertInv'
  OBVIOUS
<1>1. CASE Alerts!Tick
  BY <1>1, TickStep
<1>2. CASE Alerts!Crash
  BY <1>2, CrashStep
<1>3. CASE \E m \in Managers : \/ Alerts!Summary(m) \/ Alerts!Save(m) \/ Alerts!TimerFires(m)
                               \/ Alerts!Evaluated(m) \/ Alerts!EvaluationFails(m) \/ Alerts!Sent(m) \/ Alerts!Test(m) \/ Alerts!Tested(m)
  BY <1>3, RequestSteps, EvaluatedStep, SentStep, TestedStep
<1>4. CASE UNCHANGED Alerts!vars
  <2>1. UNCHANGED <<clock, crashes, config, file, manager, observed>>
    BY <1>4 DEF Alerts!vars
  <2>2. \A m \in Managers : Fine(manager[m], observed.last[m], observed.before[m], clock)'
    BY <2>1 DEF AlertInv, Fine, Settled, Since, Attempted
  <2> QED
    BY <2>1, <2>2 DEF AlertInv, ObservedType
<1> QED
  BY <1>1, <1>2, <1>3, <1>4 DEF Alerts!Next

\* The scanner, without its fairness.
LEMMA AlertCorrect == Alerts!Init /\ [][Alerts!Next]_(Alerts!vars) => []AlertInv
  BY AlertInit, AlertStep, PTL

\* A manager has the fields it is made with.
LEMMA AlertIsTyped == AlertInv => Alerts!TypeOK
<1> SUFFICES ASSUME AlertInv PROVE Alerts!TypeOK
  OBVIOUS
<1>1. ASSUME NEW m \in Managers
      PROVE  LET r == manager[m]
             IN  /\ DOMAIN r = DOMAIN Alerts!Absent /\ Len(r.history) =< MaxHistory
                 /\ r.active \subseteq Alerts!Fingerprints
                 /\ r.scan.phase \in {"idle", "evaluating", "sending"}
                 /\ (r.scan.phase = "sending") = (r.scan.todo # <<>>)
                 /\ r.lastSent \in Attempts
  <2>1. Fine(manager[m], observed.last[m], observed.before[m], clock) /\ manager[m] \in ManagerType
    BY KnownManager
  <2>2. DOMAIN manager[m] = DOMAIN Alerts!Absent
    BY <2>1, IdleScan DEF ManagerType
  <2>3. manager[m].scan \in ScanType
    BY <2>1 DEF ManagerType
  <2> QED
    BY <2>1, <2>2, <2>3 DEF Fine, ManagerType, ScanType
<1> QED
  BY <1>1 DEF AlertInv, Alerts!TypeOK, Attempts

-----------------------------------------------------------------------------
(* All of it *)

\* What the proofs of the collector assume is what Running assumes.
LEMMA CollectorAssumptions == CollectorAssumption /\ Collector!IsFiniteSet(Objects)
  BY CollectorAssumption DEF CollectorAssumption, IsFiniteSet, Collector!IsFiniteSet

\* Whatever is in focus, each part takes its own steps or none.
LEMMA PartsRun ==
    AllSpec => /\ (Init \/ ClientClosed) /\ [][Next]_vars
               /\ Alerts!Init /\ [][Alerts!Next]_(Alerts!vars)
               /\ Usage!Init /\ [][Usage!Next]_(Usage!vars)
               /\ Agent!Init /\ [][Agent!Next]_(Agent!vars)
               /\ Collector!Init /\ [][Collector!Next]_(Collector!vars)
<1>1. AllInit => (Init \/ ClientClosed) /\ Alerts!Init /\ Usage!Init /\ Agent!Init /\ Collector!Init
  BY DEF AllInit
<1>2. [AllNext]_allVars => /\ [Next]_vars /\ [Alerts!Next]_(Alerts!vars) /\ [Usage!Next]_(Usage!vars)
                           /\ [Agent!Next]_(Agent!vars) /\ [Collector!Next]_(Collector!vars)
  <2>1. /\ (UNCHANGED vars => [Next]_vars) /\ (UNCHANGED alVars => [Alerts!Next]_(Alerts!vars))
        /\ (UNCHANGED usVars => [Usage!Next]_(Usage!vars))
    BY DEF alVars, usVars, Alerts!vars, Usage!vars
  <2>2. UNCHANGED prVars => [Agent!Next]_(Agent!vars)
    BY DEF prVars, Agent!vars, Agent!beatVars, Agent!managerVars
  <2>3. UNCHANGED tiVars => [Collector!Next]_(Collector!vars)
    BY DEF tiVars, Collector!vars, Collector!clusterVars, Collector!collectorVars, Collector!storeVars
  <2> QED
    BY <2>1, <2>2, <2>3 DEF AllNext, allVars
<1> QED
  BY <1>1, <1>2, PTL DEF AllSpec

LEMMA PartsCorrect ==
    AllSpec => /\ []Inv /\ []AlertInv /\ []Usage!Inv /\ []ProcessInv /\ []Collector!TypeOK
               /\ Agent!SharesLoads /\ Agent!AppliedInOrder
<1>1. Init \/ ClientClosed => Inv
  BY InvInit, ClosedInv
<1>2. Usage!Init => Usage!Inv
  BY PartsAssumption, Usage!InvInit
<1>3. Usage!Inv /\ [Usage!Next]_(Usage!vars) => Usage!Inv'
  BY PartsAssumption, Usage!InvStep
<1>4. Collector!Init => Collector!TypeOK
  BY CollectorAssumptions, Collector!TypeInit DEF CollectorAssumption
<1>5. Collector!TypeOK /\ [Collector!Next]_(Collector!vars) => Collector!TypeOK'
  BY CollectorAssumptions, Collector!TypeStep DEF CollectorAssumption
<1> QED
  BY <1>1, <1>2, <1>3, <1>4, <1>5, InvStep, AlertCorrect, ProcessCorrect, PartsRun, PTL

\* For any queue, contexts, channels, targets and bounds every part's state has its types:
\* no manager keeps more of the history than it may, and what it says of its scan agrees
\* with what the scan has left to send (alerting.js, usage-history.js, cli.js,
\* timeline/index.js, timeline/store.js).
THEOREM AllTypesCorrect == AllSpec => []AllTypeOK
<1>1. Usage!Inv => Usage!TypeOK
  BY PartsAssumption, Usage!InvTyped
<1>2. Inv /\ AlertInv /\ Usage!TypeOK /\ ProcessInv /\ Collector!TypeOK => AllTypeOK
  BY AlertIsTyped DEF AllTypeOK, Inv, ProcessInv
<1> QED
  BY <1>1, <1>2, PartsCorrect, PTL

\* For any channels, findings, configurations and restarts: between an attempt to tell a
\* channel of one alert and the next but one a cooldown passes, although a delivery takes any
\* time, the configuration is saved anew during a scan, two alerts of a scan have the same
\* fingerprint, the history cannot be written, or test messages go out beside it (deliver,
\* alerting.js:705-743).
THEOREM CooldownCorrect == AllSpec => []CooldownHonoured
<1>1. AlertInv => CooldownHonoured
  BY DEF AlertInv, CooldownHonoured, Alerts!CooldownHonoured, Shortest
<1> QED
  BY <1>1, PartsCorrect, PTL

\* For any targets and callers, the discoveries and heartbeats of the agent implement
\* SharedLoad: there is one of each at a time, who calls joins it, and its end, well or
\* badly, releases everyone (coalesceAsyncTask, task-runner.js).
THEOREM SharesLoadsCorrect == AllSpec => SharesLoads
  BY PartsCorrect, PTL DEF SharesLoads

\* For any number of decisions of the control plane, and any queue of the store: an older
\* decision is never applied after a newer one, and the store carries requests out in the
\* order they were accepted (cli.js:187-218, timeline/index.js:477-497, timeline/store.js).
THEOREM AppliedInOrderCorrect == AllSpec => AppliedInOrder
<1>1. Inv => InOrder
  BY DEF Inv
<1> QED
  BY <1>1, PartsCorrect, PTL DEF AppliedInOrder

\* For any contexts, targets and queue: no sampler leaves a timer or a waiting reader
\* behind, a closed Timeline manager polls nothing, and a store that was closed in time
\* carried out all it had accepted (usage-history.js:96-150, timeline/index.js:370-516,
\* timeline/store.js:117-135).
THEOREM NothingLeftBehindCorrect == AllSpec => []NothingLeftBehind
<1>1. Usage!Inv => Usage!NothingLeftBehind
  BY DEF Usage!Inv
<1>2. Inv /\ Usage!NothingLeftBehind /\ ProcessInv => NothingLeftBehind
  BY DrainedIfClosed DEF NothingLeftBehind, ProcessInv
<1> QED
  BY <1>1, <1>2, PartsCorrect, PTL

\* For any queue: see AnswersCorrect, beside the other parts.
THEOREM AnswersAreTrueHere == AllSpec => []AnswersAreTrue
<1>1. Inv => AnswersAreTrue
  BY DEF Inv
<1> QED
  BY <1>1, PartsCorrect, PTL

\* For any queue: see NobodyWaitsCorrect, beside the other parts.
THEOREM NobodyWaitsHere == AllSpec => []NobodyWaitsForDead
<1>1. Inv => NobodyWaitsForDead
  BY DEF Inv
<1> QED
  BY <1>1, PartsCorrect, PTL
=============================================================================
