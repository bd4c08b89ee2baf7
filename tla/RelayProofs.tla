---------------------------- MODULE RelayProofs ----------------------------
(***************************************************************************)
(* Proofs about Relay for any set of sockets and requests and any delays.  *)
(***************************************************************************)
EXTENDS Relay, TLAPS

USE NoneAssumption, DelayAssumption

\* The backoff stays within its two bounds whenever it is doubled (relay.js line 51).
LEMMA NextBackoffBounds ==
    ASSUME NEW b \in BaseDelay..MaxDelay
    PROVE  NextBackoff(b) \in BaseDelay..MaxDelay
  BY DEF NextBackoff

\* Type correctness is inductive on its own.
LEMMA TypeStep == TypeOK /\ [Next]_vars => TypeOK'
<1> SUFFICES ASSUME TypeOK, [Next]_vars
             PROVE  TypeOK'
  OBVIOUS
<1> USE DEF TypeOK, ReadyStates, CloseCodes, Statuses, clientVars, timerVars, wsVars,
            requestVars, delayVars
<1>1. CASE Start
  <2> PICK s \in Sockets : Connect(s)
    BY <1>1 DEF Start
  <2> QED
    BY <1>1 DEF Start, Connect
<1>2. CASE Close
  BY <1>2 DEF Close, ClearSocketTimers, Shut
<1>3. CASE ReconnectTimerFires
  <2> PICK s \in Sockets : Connect(s)
    BY <1>3 DEF ReconnectTimerFires
  <2> QED
    BY <1>3 DEF ReconnectTimerFires, Connect
<1>4. ASSUME NEW s \in Sockets, ReadyTimerFires(s) PROVE TypeOK'
  BY <1>4 DEF ReadyTimerFires, Shut
<1>5. ASSUME NEW s \in Sockets, WatchdogPings(s) PROVE TypeOK'
  BY <1>5 DEF WatchdogPings
<1>6. ASSUME NEW s \in Sockets, WatchdogTerminates(s) PROVE TypeOK'
  BY <1>6 DEF WatchdogTerminates, Shut
<1>7. ASSUME NEW s \in Sockets, Open(s) PROVE TypeOK'
  BY <1>7 DEF Open
<1>8. ASSUME NEW s \in Sockets, Ready(s) PROVE TypeOK'
  <2>1. backoffMs' \in BaseDelay..MaxDelay
    BY <1>8 DEF Ready
  <2>2. QED
    BY <1>8, <2>1 DEF Ready
<1>9. ASSUME NEW s \in Sockets, Pong(s) PROVE TypeOK'
  BY <1>9 DEF Pong
<1>10. ASSUME NEW s \in Sockets, CloseEvent(s) PROVE TypeOK'
  <2>1. CASE ConnectionLost(s)
    <3>1. backoffMs' \in BaseDelay..MaxDelay /\ lastDelay' \in 0..MaxDelay
      BY <2>1, NextBackoffBounds DEF ConnectionLost, ScheduleReconnect
    <3>2. QED
      BY <1>10, <2>1, <3>1 DEF CloseEvent, ConnectionLost, ClearSocketTimers, ScheduleReconnect
  <2>2. CASE socket # s /\ UNCHANGED <<clientVars, timerVars, delayVars>>
    BY <1>10, <2>2 DEF CloseEvent
  <2>3. QED
    BY <1>10, <2>1, <2>2 DEF CloseEvent
<1>11. ASSUME NEW s \in Sockets, NEW r \in Requests, Request(s, r) PROVE TypeOK'
  BY <1>11 DEF Request
<1>12. ASSUME NEW r \in Requests, Respond(r) PROVE TypeOK'
  BY <1>12 DEF Respond
<1>13. ASSUME NEW s \in Sockets, HandshakeFails(s) PROVE TypeOK'
  BY <1>13 DEF HandshakeFails
<1>14. ASSUME NEW s \in Sockets, NEW code \in {"rejected", "lost"}, PeerCloses(s, code) PROVE TypeOK'
  BY <1>14 DEF PeerCloses
<1>15. ASSUME NEW s \in Sockets, PeerVanishes(s) PROVE TypeOK'
  BY <1>15 DEF PeerVanishes
<1>16. CASE UNCHANGED vars
  BY <1>16 DEF vars
<1>17. QED
  <2> HIDE DEF TypeOK, ReadyStates, CloseCodes, Statuses, clientVars, timerVars, wsVars,
               requestVars, delayVars
  <2> QED
    BY <1>1, <1>2, <1>3, <1>4, <1>5, <1>6, <1>7, <1>8, <1>9, <1>10, <1>11, <1>12,
       <1>13, <1>14, <1>15, <1>16 DEF Next, Timers, SocketEvents, Environment

LEMMA TypeInit == Init => TypeOK
<1> SUFFICES ASSUME Init PROVE TypeOK
  OBVIOUS
<1>1. backoffMs \in BaseDelay..MaxDelay /\ lastDelay \in 0..MaxDelay
  BY DEF Init
<1>2. QED
  BY <1>1 DEF Init, TypeOK, ReadyStates, CloseCodes, Statuses

\* Every reachable state is well typed; in particular the reconnect delay never
\* leaves reconnectBaseDelayMs..reconnectMaxDelayMs.
THEOREM TypeCorrect == Spec => []TypeOK
  BY TypeInit, TypeStep, PTL DEF Spec

-----------------------------------------------------------------------------
(* The inductive invariant: the safety invariants of Relay and four facts    *)
(* they need of each other.                                                  *)

\* Nothing exists before start().
BeforeStart ==
    ~started => /\ socket = None /\ ~reconnectTimer /\ status = "none"
                /\ \A s \in Sockets : readyState[s] = "closed"

\* A connecting socket has no history: no timer, no acknowledgement.
FreshWhileConnecting ==
    \A s \in Sockets : readyState[s] = "connecting" =>
        s \notin readyArmed \cup livenessArmed /\ session[s] = "none"

\* close() leaves only sockets that are on their way down.
ClosedShut ==
    closed => \A s \in Sockets : readyState[s] \in {"closing", "closed"}

\* Nothing is pending once the identity was rejected.
RejectedQuiet == Rejected => socket = None /\ ~reconnectTimer

Structure == /\ SingleConnection /\ TimersHeld /\ CloseIsFinal
             /\ BeforeStart /\ FreshWhileConnecting /\ ClosedShut
Promises == Supervised /\ NeverStuck /\ StatusTruthful /\ RejectedQuiet

IInv == TypeOK /\ Structure /\ Promises

\* The structural part is inductive on its own.
LEMMA StructureStep == TypeOK /\ Structure /\ [Next]_vars => Structure'
<1> SUFFICES ASSUME TypeOK, Structure, [Next]_vars
             PROVE  Structure'
  OBVIOUS
<1> USE DEF TypeOK, ReadyStates, CloseCodes, Statuses, clientVars, timerVars, wsVars,
            requestVars, delayVars, Structure, SingleConnection, TimersHeld, CloseIsFinal,
            BeforeStart, FreshWhileConnecting, ClosedShut, Live, Current
<1>1. CASE Start
  BY <1>1 DEF Start, Connect, Unused
<1>2. CASE Close
  BY <1>2 DEF Close, ClearSocketTimers, Shut
<1>3. CASE ReconnectTimerFires
  BY <1>3 DEF ReconnectTimerFires, Connect, Unused
<1>4. ASSUME NEW s \in Sockets, ReadyTimerFires(s) PROVE Structure'
  BY <1>4 DEF ReadyTimerFires, Shut
<1>5. ASSUME NEW s \in Sockets, WatchdogPings(s) PROVE Structure'
  BY <1>5 DEF WatchdogPings
<1>6. ASSUME NEW s \in Sockets, WatchdogTerminates(s) PROVE Structure'
  BY <1>6 DEF WatchdogTerminates, WatchdogApplies, Shut
<1>7. ASSUME NEW s \in Sockets, Open(s) PROVE Structure'
  BY <1>7 DEF Open
<1>8. ASSUME NEW s \in Sockets, Ready(s) PROVE Structure'
  BY <1>8 DEF Ready, Deliverable
<1>9. ASSUME NEW s \in Sockets, Pong(s) PROVE Structure'
  BY <1>9 DEF Pong
<1>10. ASSUME NEW s \in Sockets, CloseEvent(s) PROVE Structure'
  BY <1>10 DEF CloseEvent, ConnectionLost, ClearSocketTimers, ScheduleReconnect
<1>11. ASSUME NEW s \in Sockets, NEW r \in Requests, Request(s, r) PROVE Structure'
  BY <1>11 DEF Request
<1>12. ASSUME NEW r \in Requests, Respond(r) PROVE Structure'
  BY <1>12 DEF Respond
<1>13. ASSUME NEW s \in Sockets, HandshakeFails(s) PROVE Structure'
  BY <1>13 DEF HandshakeFails
<1>14. ASSUME NEW s \in Sockets, NEW code \in {"rejected", "lost"}, PeerCloses(s, code) PROVE Structure'
  BY <1>14 DEF PeerCloses
<1>15. ASSUME NEW s \in Sockets, PeerVanishes(s) PROVE Structure'
  BY <1>15 DEF PeerVanishes
<1>16. CASE UNCHANGED vars
  BY <1>16 DEF vars
<1>17. QED
  <2> HIDE DEF TypeOK, ReadyStates, CloseCodes, Statuses, clientVars, timerVars, wsVars,
            requestVars, delayVars, Structure, SingleConnection, TimersHeld, CloseIsFinal,
            BeforeStart, FreshWhileConnecting, ClosedShut, Live, Current
  <2> QED
    BY <1>1, <1>2, <1>3, <1>4, <1>5, <1>6, <1>7, <1>8, <1>9, <1>10,
       <1>11, <1>12, <1>13, <1>14, <1>15, <1>16 DEF Next, Timers, SocketEvents, Environment

\* The promises follow from one state to the next with the help of the structure.
LEMMA PromisesStep == TypeOK /\ Structure /\ Promises /\ [Next]_vars => Promises'
<1> SUFFICES ASSUME TypeOK, Structure, Promises, [Next]_vars
             PROVE  Promises'
  OBVIOUS
<1> USE DEF TypeOK, ReadyStates, CloseCodes, Statuses, clientVars, timerVars, wsVars,
            requestVars, delayVars, Structure, SingleConnection, TimersHeld, CloseIsFinal,
            BeforeStart, FreshWhileConnecting, ClosedShut, Live, Current, Promises, Supervised, NeverStuck, StatusTruthful,
            RejectedQuiet, Rejected
<1>1. CASE Start
  BY <1>1 DEF Start, Connect, Unused
<1>2. CASE Close
  BY <1>2 DEF Close, ClearSocketTimers, Shut
<1>3. CASE ReconnectTimerFires
  BY <1>3 DEF ReconnectTimerFires, Connect, Unused
<1>4. ASSUME NEW s \in Sockets, ReadyTimerFires(s) PROVE Promises'
  BY <1>4 DEF ReadyTimerFires, Shut
<1>5. ASSUME NEW s \in Sockets, WatchdogPings(s) PROVE Promises'
  BY <1>5 DEF WatchdogPings
<1>6. ASSUME NEW s \in Sockets, WatchdogTerminates(s) PROVE Promises'
  BY <1>6 DEF WatchdogTerminates, WatchdogApplies, Shut
<1>7. ASSUME NEW s \in Sockets, Open(s) PROVE Promises'
  BY <1>7 DEF Open
<1>8. ASSUME NEW s \in Sockets, Ready(s) PROVE Promises'
  BY <1>8 DEF Ready, Deliverable
<1>9. ASSUME NEW s \in Sockets, Pong(s) PROVE Promises'
  BY <1>9 DEF Pong
<1>10. ASSUME NEW s \in Sockets, CloseEvent(s) PROVE Promises'
  BY <1>10 DEF CloseEvent, ConnectionLost, ClearSocketTimers, ScheduleReconnect
<1>11. ASSUME NEW s \in Sockets, NEW r \in Requests, Request(s, r) PROVE Promises'
  BY <1>11 DEF Request
<1>12. ASSUME NEW r \in Requests, Respond(r) PROVE Promises'
  BY <1>12 DEF Respond
<1>13. ASSUME NEW s \in Sockets, HandshakeFails(s) PROVE Promises'
  BY <1>13 DEF HandshakeFails
<1>14. ASSUME NEW s \in Sockets, NEW code \in {"rejected", "lost"}, PeerCloses(s, code) PROVE Promises'
  BY <1>14 DEF PeerCloses
<1>15. ASSUME NEW s \in Sockets, PeerVanishes(s) PROVE Promises'
  BY <1>15 DEF PeerVanishes
<1>16. CASE UNCHANGED vars
  BY <1>16 DEF vars
<1>17. QED
  <2> HIDE DEF TypeOK, ReadyStates, CloseCodes, Statuses, clientVars, timerVars, wsVars,
            requestVars, delayVars, Structure, SingleConnection, TimersHeld, CloseIsFinal,
            BeforeStart, FreshWhileConnecting, ClosedShut, Live, Current, Promises, Supervised, NeverStuck, StatusTruthful,
            RejectedQuiet, Rejected
  <2> QED
    BY <1>1, <1>2, <1>3, <1>4, <1>5, <1>6, <1>7, <1>8, <1>9, <1>10,
       <1>11, <1>12, <1>13, <1>14, <1>15, <1>16 DEF Next, Timers, SocketEvents, Environment

LEMMA IInvInit == Init => IInv
<1> SUFFICES ASSUME Init PROVE IInv
  OBVIOUS
<1>1. TypeOK
  BY TypeInit
<1>2. Structure
  BY DEF Init, Structure, SingleConnection, TimersHeld, CloseIsFinal, BeforeStart,
         FreshWhileConnecting, ClosedShut, Live, Current
<1>3. Promises
  BY DEF Init, Promises, Supervised, NeverStuck, StatusTruthful, RejectedQuiet,
         Rejected, Current
<1>4. QED
  BY <1>1, <1>2, <1>3 DEF IInv

LEMMA IInvStep == IInv /\ [Next]_vars => IInv'
  BY TypeStep, StructureStep, PromisesStep DEF IInv

LEMMA InductiveInvariant == Spec => []IInv
  BY IInvInit, IInvStep, PTL DEF Spec

-----------------------------------------------------------------------------
(* What the client promises *)

\* One connection at a time: two sockets of one agent never exist together
\* unless close() has been called (connect, relay.js line 115).
THEOREM OneConnection == Spec => []SingleConnection
<1>1. IInv => SingleConnection
  BY DEF IInv, Structure
<1>2. QED
  BY <1>1, InductiveInvariant, PTL

\* An open connection is always watched by the ready timeout or the watchdog.
THEOREM AlwaysSupervised == Spec => []Supervised
<1>1. IInv => Supervised
  BY DEF IInv, Promises
<1>2. QED
  BY <1>1, InductiveInvariant, PTL

\* A client without a connection has a reconnect pending unless it was rejected.
THEOREM AlwaysRetrying == Spec => []NeverStuck
<1>1. IInv => NeverStuck
  BY DEF IInv, Promises
<1>2. QED
  BY <1>1, InductiveInvariant, PTL

\* No timer escapes clearSocketTimers.
THEOREM NoLeakedTimer == Spec => []TimersHeld
<1>1. IInv => TimersHeld
  BY DEF IInv, Structure
<1>2. QED
  BY <1>1, InductiveInvariant, PTL

\* The reported status is the status of the connection.
THEOREM StatusIsTrue == Spec => []StatusTruthful
<1>1. IInv => StatusTruthful
  BY DEF IInv, Promises
<1>2. QED
  BY <1>1, InductiveInvariant, PTL

\* close() is final, whatever events the old socket still delivers.
THEOREM CloseStaysFinal == Spec => []CloseIsFinal
<1>1. IInv => CloseIsFinal
  BY DEF IInv, Structure
<1>2. QED
  BY <1>1, InductiveInvariant, PTL

\* An answer goes to the connection that asked while that one is open, and is
\* dropped only when it is not (respond, relay.js line 70).
THEOREM RepliesDelivered == Spec => ReplyDelivery
<1> DEFINE Delivered(r) ==
      LET asked == inflight[r]
      IN  asked # None /\ inflight'[r] = None =>
            /\ replyOn' = None => closed \/ readyState[asked] # "open"
            /\ replyOn' # None => ~closed /\ readyState[replyOn'] = "open"
            /\ ~closed /\ readyState[asked] = "open" => replyOn' = asked
<1>1. ASSUME IInv, [Next]_vars, NEW r \in Requests PROVE Delivered(r)
  <2> USE DEF IInv, TypeOK, Structure, SingleConnection, CloseIsFinal, Live, Current
  <2>1. SUFFICES ASSUME inflight[r] # None, inflight'[r] = None PROVE Delivered(r)
    OBVIOUS
  <2>2. Respond(r)
    <3>1. ASSUME NEW s \in Sockets, NEW q \in Requests, Request(s, q) PROVE inflight'[r] # None
      BY <1>1, <2>1, <3>1 DEF Request
    <3>2. ASSUME NEW q \in Requests, q # r, Respond(q) PROVE inflight'[r] # None
      BY <1>1, <2>1, <3>2 DEF Respond
    <3>3. inflight' = inflight \/ (\E s \in Sockets, q \in Requests : Request(s, q))
                               \/ (\E q \in Requests : Respond(q))
      BY <1>1 DEF Next, Timers, SocketEvents, Environment, Start, Close, ReconnectTimerFires,
         ReadyTimerFires, WatchdogPings, WatchdogTerminates, Open, Ready, Pong, CloseEvent,
         HandshakeFails, PeerCloses, PeerVanishes, vars, requestVars
    <3>4. QED
      BY <2>1, <3>1, <3>2, <3>3
  <2>3. QED
    BY <1>1, <2>1, <2>2 DEF Respond
<1>2. IInv /\ [Next]_vars => [\A r \in Requests : Delivered(r)]_vars
  BY <1>1
<1>3. QED
  BY <1>2, InductiveInvariant, PTL DEF Spec, ReplyDelivery

\* A rejected identity is never presented again by this process.
THEOREM RejectionStays == Spec => RejectionIsTerminal
<1>1. IInv /\ IInv' /\ [Next]_vars /\ Rejected => socket' = None /\ ~reconnectTimer'
  <2> SUFFICES ASSUME IInv, IInv', [Next]_vars, Rejected
               PROVE  socket' = None /\ ~reconnectTimer'
    OBVIOUS
  <2>1. socket = None /\ ~reconnectTimer
    BY DEF IInv, Promises, RejectedQuiet
  <2>2. CASE status' = status
    BY <2>2 DEF IInv, Promises, RejectedQuiet, Rejected
  <2>3. CASE status' # status
    <3>1. closed
      BY <2>1, <2>3 DEF Next, Timers, SocketEvents, Environment, Start, Close, ReconnectTimerFires,
         ReadyTimerFires, WatchdogPings, WatchdogTerminates, Open, Ready, Pong, CloseEvent, Request,
         Respond, ConnectionLost, HandshakeFails, PeerCloses, PeerVanishes, vars, clientVars, wsVars,
         Deliverable, IInv, Structure, SingleConnection, Live, Current, TypeOK
    <3>2. QED
      BY <2>1, <3>1, <2>3 DEF Next, Timers, SocketEvents, Environment, Start, Close, ReconnectTimerFires,
         ReadyTimerFires, WatchdogPings, WatchdogTerminates, Open, Ready, Pong, CloseEvent, Request,
         Respond, ConnectionLost, HandshakeFails, PeerCloses, PeerVanishes, vars, clientVars, wsVars,
         TypeOK, IInv
  <2>4. QED
    BY <2>2, <2>3
<1>2. QED
  BY <1>1, InductiveInvariant, PTL DEF Spec, RejectionIsTerminal
-----------------------------------------------------------------------------
(* The backoff                                                              *)

\* What the next delay will be.
BackoffFollows ==
    backoffMs = IF readySince \/ lastDelay = 0 THEN BaseDelay ELSE NextBackoff(lastDelay)

\* Only scheduleReconnect and a 'ready' touch the delay.
LEMMA DelayChanges ==
    ASSUME TypeOK, [Next]_vars
    PROVE  \/ UNCHANGED <<backoffMs, delayVars>> /\ (~reconnectTimer => ~reconnectTimer')
           \/ \E s \in Sockets : Ready(s)
           \/ ScheduleReconnect
  BY DEF Next, Timers, SocketEvents, Environment, Start, Close, ReconnectTimerFires, Connect,
     ReadyTimerFires, WatchdogPings, WatchdogTerminates, Open, Pong, CloseEvent, ConnectionLost,
     Request, Respond, HandshakeFails, PeerCloses, PeerVanishes, vars, clientVars, delayVars, TypeOK

LEMMA BackoffStep == TypeOK /\ BackoffFollows /\ [Next]_vars => BackoffFollows'
<1> SUFFICES ASSUME TypeOK, BackoffFollows, [Next]_vars
             PROVE  BackoffFollows'
  OBVIOUS
<1>1. CASE UNCHANGED <<backoffMs, delayVars>>
  BY <1>1 DEF BackoffFollows, delayVars, NextBackoff
<1>2. CASE \E s \in Sockets : Ready(s)
  BY <1>2 DEF BackoffFollows, Ready
<1>3. CASE ScheduleReconnect
  <2>1. CASE closed \/ reconnectTimer
    BY <1>1, <1>3, <2>1 DEF ScheduleReconnect
  <2>2. CASE ~(closed \/ reconnectTimer)
    <3>1. lastDelay' = backoffMs /\ backoffMs' = NextBackoff(backoffMs) /\ ~readySince'
      BY <1>3, <2>2 DEF ScheduleReconnect
    <3>2. lastDelay' # 0
      BY <3>1 DEF TypeOK
    <3>3. QED
      BY <3>1, <3>2 DEF BackoffFollows, NextBackoff
  <2>3. QED
    BY <2>1, <2>2
<1>4. QED
  BY <1>1, <1>2, <1>3, DelayChanges

\* Failures in a row are retried more and more slowly (scheduleReconnect, relay.js
\* line 42); only a 'ready' brings the delay back to its base.
THEOREM BackoffSlows == Spec => BackoffGrows
<1>1. Init => BackoffFollows
  BY DEF Init, BackoffFollows
<1>2. TypeOK /\ BackoffFollows /\ [Next]_vars =>
        [~reconnectTimer /\ reconnectTimer' =>
            lastDelay' = IF readySince \/ lastDelay = 0 THEN BaseDelay
                                                        ELSE NextBackoff(lastDelay)]_vars
  <2> SUFFICES ASSUME TypeOK, BackoffFollows, [Next]_vars, ~reconnectTimer, reconnectTimer'
               PROVE  lastDelay' = backoffMs
    BY DEF BackoffFollows
  <2>1. ScheduleReconnect
    BY DelayChanges DEF Ready
  <2>2. QED
    BY <2>1 DEF ScheduleReconnect
<1>3. QED
  BY <1>1, <1>2, BackoffStep, TypeCorrect, PTL DEF Spec, BackoffGrows
=============================================================================
