------------------------------- MODULE Relay -------------------------------
(***************************************************************************)
(* The hosted relay client, createAgentRelayClient of agent/src/relay.js:  *)
(* one outbound WebSocket to the control plane, kept alive by three timers *)
(* (reconnect, ready, liveness) and used to answer requests.               *)
(*                                                                         *)
(* Every action is one callback run to completion by the event loop.  The  *)
(* WebSocket object of package ws and the server behind it are external:   *)
(* they are modelled from the events relay.js subscribes to.               *)
(* Timers have no clock: an armed timer may fire at any moment.            *)
(***************************************************************************)
EXTENDS Integers

CONSTANTS
    Sockets,      \* WebSocket objects; one that is closed may stand for a fresh one
    Requests,     \* requests that can run at the same time
    None,         \* null
    BaseDelay,    \* reconnectBaseDelayMs
    MaxDelay      \* reconnectMaxDelayMs

ASSUME NoneAssumption == None \notin Sockets
ASSUME DelayAssumption ==
    /\ BaseDelay \in Nat \ {0}
    /\ MaxDelay \in Nat
    /\ BaseDelay =< MaxDelay

VARIABLES
    socket,          \* the current WebSocket, or None
    reconnectTimer,  \* a reconnect is scheduled
    readyTimer,      \* handle of a ready timeout: the socket it watches, or None
    livenessTimer,   \* handle of a watchdog interval: the socket it watches, or None
    closed,          \* close() was called
    started,         \* start() was called
    awaitingPong,
    backoffMs,
    status,          \* last value given to onStatus
    \* what the runtime and ws hold for the client
    readyArmed,      \* sockets a ready timeout is pending for
    livenessArmed,   \* sockets a watchdog interval is running for
    readyState,      \* ws: "connecting", "open", "closing", "closed"
    closeCode,       \* ws: why a socket is closing
    session,         \* "none", "hello" once hello was sent, "ready" once acknowledged
    peerAlive,       \* FALSE: the peer vanished without closing the connection
    pongDue,         \* sockets with an unanswered ping
    inflight,        \* socket a running request came on, or None
    \* observations, read by no action
    replyOn,         \* socket the last finished request was answered on, or None: dropped
    lastDelay,       \* delay of the last scheduled reconnect
    readySince       \* a 'ready' was received since that reconnect was scheduled

clientVars == <<socket, reconnectTimer, readyTimer, livenessTimer, closed,
                started, awaitingPong, backoffMs, status>>
timerVars  == <<readyArmed, livenessArmed>>
wsVars     == <<readyState, closeCode, session, peerAlive, pongDue>>
requestVars == <<inflight, replyOn>>
delayVars  == <<lastDelay, readySince>>
vars == <<clientVars, timerVars, wsVars, requestVars, delayVars>>

ReadyStates == {"connecting", "open", "closing", "closed"}
CloseCodes  == {"none", "rejected", "lost", "agent"}   \* rejected: 4401 or 4403
Statuses    == {"none", "connected", "disconnected", "authentication-failed"}

TypeOK ==
    /\ socket \in Sockets \cup {None}
    /\ readyTimer \in Sockets \cup {None}
    /\ livenessTimer \in Sockets \cup {None}
    /\ reconnectTimer \in BOOLEAN
    /\ closed \in BOOLEAN
    /\ started \in BOOLEAN
    /\ awaitingPong \in BOOLEAN
    /\ backoffMs \in BaseDelay..MaxDelay
    /\ status \in Statuses
    /\ readyArmed \subseteq Sockets
    /\ livenessArmed \subseteq Sockets
    /\ readyState \in [Sockets -> ReadyStates]
    /\ closeCode \in [Sockets -> CloseCodes]
    /\ session \in [Sockets -> {"none", "hello", "ready"}]
    /\ peerAlive \in [Sockets -> BOOLEAN]
    /\ pongDue \subseteq Sockets
    /\ inflight \in [Requests -> Sockets \cup {None}]
    /\ replyOn \in Sockets \cup {None}
    /\ lastDelay \in 0..MaxDelay
    /\ readySince \in BOOLEAN

Init ==
    /\ socket = None
    /\ readyTimer = None
    /\ livenessTimer = None
    /\ reconnectTimer = FALSE
    /\ closed = FALSE
    /\ started = FALSE
    /\ awaitingPong = FALSE
    /\ backoffMs = BaseDelay
    /\ status = "none"
    /\ readyArmed = {}
    /\ livenessArmed = {}
    /\ readyState = [s \in Sockets |-> "closed"]
    /\ closeCode = [s \in Sockets |-> "none"]
    /\ session = [s \in Sockets |-> "none"]
    /\ peerAlive = [s \in Sockets |-> TRUE]
    /\ pongDue = {}
    /\ inflight = [r \in Requests |-> None]
    /\ replyOn = None
    /\ lastDelay = 0
    /\ readySince = FALSE

-----------------------------------------------------------------------------
(* Helpers of the client *)

\* A socket object nothing refers to any more stands for a new one.
Unused(s) ==
    /\ readyState[s] = "closed"
    /\ s # socket
    /\ s \notin readyArmed \cup livenessArmed
    /\ readyTimer # s
    /\ livenessTimer # s
    /\ \A r \in Requests : inflight[r] # s

\* connect() past its guard, with a new socket s.
Connect(s) ==
    /\ Unused(s)
    /\ socket' = s
    /\ readyState' = [readyState EXCEPT ![s] = "connecting"]
    /\ closeCode' = [closeCode EXCEPT ![s] = "none"]
    /\ session' = [session EXCEPT ![s] = "none"]
    /\ peerAlive' = [peerAlive EXCEPT ![s] = TRUE]
    /\ pongDue' = pongDue \ {s}

\* clearSocketTimers(): what the two handles refer to stops running.
ClearSocketTimers ==
    /\ readyArmed' = readyArmed \ {readyTimer}
    /\ livenessArmed' = livenessArmed \ {livenessTimer}
    /\ readyTimer' = None
    /\ livenessTimer' = None
    /\ awaitingPong' = FALSE

\* Mutant: no Math.min.
NextBackoffUncapped(b) == 2 * b

NextBackoff(b) == IF 2 * b < MaxDelay THEN 2 * b ELSE MaxDelay

\* scheduleReconnect(); the random jitter only delays an unclocked timer.
ScheduleReconnect ==
    IF closed \/ reconnectTimer
    THEN UNCHANGED <<reconnectTimer, backoffMs, delayVars>>
    ELSE /\ reconnectTimer' = TRUE
         /\ lastDelay' = backoffMs
         /\ backoffMs' = NextBackoff(backoffMs)
         /\ readySince' = FALSE

\* ws keeps delivering frames until the connection is really down, after
\* terminate() and close() of this side too; none follows the peer's close frame.
Deliverable(s) ==
    /\ peerAlive[s]
    /\ \/ readyState[s] = "open"
       \/ readyState[s] = "closing" /\ closeCode[s] = "agent"

\* terminate() and close() of ws: a socket that is already closing stays so.
Shut(s) ==
    IF readyState[s] \in {"connecting", "open"}
    THEN /\ readyState' = [readyState EXCEPT ![s] = "closing"]
         /\ closeCode' = [closeCode EXCEPT ![s] = "agent"]
    ELSE UNCHANGED <<readyState, closeCode>>

-----------------------------------------------------------------------------
(* Calls made by the agent *)

Start ==
    /\ ~started /\ ~closed
    /\ started' = TRUE
    /\ \E s \in Sockets : Connect(s)
    /\ UNCHANGED <<reconnectTimer, readyTimer, livenessTimer, closed,
                   awaitingPong, backoffMs, status>>
    /\ UNCHANGED <<timerVars, requestVars, delayVars>>

\* Mutant: the scheduled reconnect is left alone.
CloseKeepsReconnect ==
    /\ ~closed
    /\ closed' = TRUE
    /\ ClearSocketTimers
    /\ socket' = None
    /\ IF socket = None THEN UNCHANGED <<readyState, closeCode>> ELSE Shut(socket)
    /\ UNCHANGED <<reconnectTimer, started, backoffMs, status, session, peerAlive, pongDue>>
    /\ UNCHANGED <<requestVars, delayVars>>

Close ==
    /\ ~closed
    /\ closed' = TRUE
    /\ reconnectTimer' = FALSE
    /\ ClearSocketTimers
    /\ socket' = None
    /\ IF socket = None THEN UNCHANGED <<readyState, closeCode>> ELSE Shut(socket)
    /\ UNCHANGED <<started, backoffMs, status, session, peerAlive, pongDue>>
    /\ UNCHANGED <<requestVars, delayVars>>

-----------------------------------------------------------------------------
(* Timer callbacks *)

ReconnectTimerFires ==
    /\ reconnectTimer
    /\ reconnectTimer' = FALSE
    /\ ~closed
    /\ \E s \in Sockets : Connect(s)
    /\ UNCHANGED <<readyTimer, livenessTimer, closed, started, awaitingPong,
                   backoffMs, status>>
    /\ UNCHANGED <<timerVars, requestVars, delayVars>>

ReadyTimerFires(s) ==
    /\ s \in readyArmed
    /\ readyArmed' = readyArmed \ {s}
    /\ IF socket # s \/ closed THEN UNCHANGED <<readyState, closeCode>> ELSE Shut(s)
    /\ UNCHANGED <<clientVars, livenessArmed, session, peerAlive, pongDue>>
    /\ UNCHANGED <<requestVars, delayVars>>

\* The ticks the watchdog ignores (closed, another socket, not open) change nothing.
WatchdogApplies(s) ==
    /\ s \in livenessArmed
    /\ ~closed /\ socket = s /\ readyState[s] = "open"

\* Mutant: the watchdog pings and forgets.
WatchdogForgets(s) ==
    /\ WatchdogApplies(s)
    /\ ~awaitingPong
    /\ pongDue' = pongDue \cup {s}
    /\ UNCHANGED <<clientVars, readyState, closeCode, session, peerAlive>>
    /\ UNCHANGED <<timerVars, requestVars, delayVars>>

WatchdogPings(s) ==
    /\ WatchdogApplies(s)
    /\ ~awaitingPong
    /\ awaitingPong' = TRUE
    /\ pongDue' = pongDue \cup {s}
    /\ UNCHANGED <<socket, reconnectTimer, readyTimer, livenessTimer, closed,
                   started, backoffMs, status>>
    /\ UNCHANGED <<readyState, closeCode, session, peerAlive>>
    /\ UNCHANGED <<timerVars, requestVars, delayVars>>

\* Mutant: reconnects at once instead of on the 'close' event.
WatchdogReconnects(s) ==
    /\ WatchdogApplies(s)
    /\ awaitingPong
    /\ Shut(s)
    /\ ScheduleReconnect
    /\ UNCHANGED <<socket, readyTimer, livenessTimer, closed, started,
                   awaitingPong, status, timerVars, session, peerAlive, pongDue>>
    /\ UNCHANGED requestVars

WatchdogTerminates(s) ==
    /\ WatchdogApplies(s)
    /\ awaitingPong
    /\ Shut(s)
    /\ UNCHANGED <<clientVars, timerVars, session, peerAlive, pongDue>>
    /\ UNCHANGED <<requestVars, delayVars>>

-----------------------------------------------------------------------------
(* Events of the socket *)

\* Mutant: says hello without a ready timeout.
OpenUnwatched(s) ==
    /\ readyState[s] = "connecting"
    /\ readyState' = [readyState EXCEPT ![s] = "open"]
    /\ session' = [session EXCEPT ![s] = "hello"]
    /\ UNCHANGED <<clientVars, timerVars, closeCode, peerAlive, pongDue>>
    /\ UNCHANGED <<requestVars, delayVars>>

Open(s) ==
    /\ readyState[s] = "connecting"
    /\ readyState' = [readyState EXCEPT ![s] = "open"]
    /\ readyTimer' = s
    /\ readyArmed' = readyArmed \cup {s}
    /\ session' = [session EXCEPT ![s] = "hello"]
    /\ UNCHANGED <<socket, reconnectTimer, livenessTimer, closed, started,
                   awaitingPong, backoffMs, status>>
    /\ UNCHANGED <<livenessArmed, closeCode, peerAlive, pongDue>>
    /\ UNCHANGED <<requestVars, delayVars>>

\* 'message' with type ready.  The handler looks neither at socket nor at closed.
Ready(s) ==
    /\ Deliverable(s)
    /\ session[s] = "hello"
    /\ session' = [session EXCEPT ![s] = "ready"]
    /\ readyArmed' = readyArmed \ {readyTimer}
    /\ readyTimer' = None
    /\ backoffMs' = BaseDelay
    /\ livenessArmed' = (livenessArmed \ {livenessTimer}) \cup {s}
    /\ livenessTimer' = s
    /\ awaitingPong' = FALSE
    /\ status' = "connected"
    /\ readySince' = TRUE
    /\ UNCHANGED <<socket, reconnectTimer, closed, started, lastDelay>>
    /\ UNCHANGED <<readyState, closeCode, peerAlive, pongDue>>
    /\ UNCHANGED requestVars

\* 'message' with type request: runCommand starts.
Request(s, r) ==
    /\ Deliverable(s)
    /\ session[s] = "ready"
    /\ inflight[r] = None
    /\ inflight' = [inflight EXCEPT ![r] = s]
    /\ UNCHANGED <<clientVars, timerVars, wsVars, replyOn, delayVars>>

\* Mutant: answers on the socket that asked, whatever became of it.
RespondToOrigin(r) ==
    /\ inflight[r] # None
    /\ inflight' = [inflight EXCEPT ![r] = None]
    /\ replyOn' = inflight[r]
    /\ UNCHANGED <<clientVars, timerVars, wsVars, delayVars>>

\* runCommand settles, either way, and respond() uses the socket of that moment.
Respond(r) ==
    /\ inflight[r] # None
    /\ inflight' = [inflight EXCEPT ![r] = None]
    /\ replyOn' = IF socket # None /\ readyState[socket] = "open" THEN socket ELSE None
    /\ UNCHANGED <<clientVars, timerVars, wsVars, delayVars>>

Pong(s) ==
    /\ s \in pongDue
    /\ Deliverable(s)
    /\ pongDue' = pongDue \ {s}
    /\ awaitingPong' = IF socket = s THEN FALSE ELSE awaitingPong
    /\ UNCHANGED <<socket, reconnectTimer, readyTimer, livenessTimer, closed,
                   started, backoffMs, status>>
    /\ UNCHANGED <<readyState, closeCode, session, peerAlive>>
    /\ UNCHANGED <<timerVars, requestVars, delayVars>>

\* Mutant: a connection this side terminated is not replaced.
LostUnlessTerminated(s) ==
    /\ socket = s
    /\ ClearSocketTimers
    /\ socket' = None
    /\ status' = IF closeCode[s] = "rejected" THEN "authentication-failed" ELSE "disconnected"
    /\ IF closeCode[s] = "lost" THEN ScheduleReconnect
       ELSE UNCHANGED <<reconnectTimer, backoffMs, delayVars>>
    /\ UNCHANGED <<closed, started>>

\* Mutant: a rejected identity is retried.
LostAlwaysRetries(s) ==
    /\ socket = s
    /\ ClearSocketTimers
    /\ socket' = None
    /\ status' = IF closeCode[s] = "rejected" THEN "authentication-failed" ELSE "disconnected"
    /\ ScheduleReconnect
    /\ UNCHANGED <<closed, started>>

\* 'close' on the current socket.
ConnectionLost(s) ==
    /\ socket = s
    /\ ClearSocketTimers
    /\ socket' = None
    /\ IF closeCode[s] = "rejected"
       THEN /\ status' = "authentication-failed"
            /\ UNCHANGED <<reconnectTimer, backoffMs, delayVars>>
       ELSE /\ status' = "disconnected"
            /\ ScheduleReconnect
    /\ UNCHANGED <<closed, started>>

\* 'close': ignored unless s is the current socket.
CloseEvent(s) ==
    /\ readyState[s] = "closing"
    /\ readyState' = [readyState EXCEPT ![s] = "closed"]
    /\ \/ ConnectionLost(s)
       \/ socket # s /\ UNCHANGED <<clientVars, timerVars, delayVars>>
    /\ UNCHANGED <<closeCode, session, peerAlive, pongDue>>
    /\ UNCHANGED requestVars

-----------------------------------------------------------------------------
(* The network and the server (external) *)

\* Refused, reset, or not answered within handshakeTimeout.
HandshakeFails(s) ==
    /\ readyState[s] = "connecting"
    /\ readyState' = [readyState EXCEPT ![s] = "closing"]
    /\ closeCode' = [closeCode EXCEPT ![s] = "lost"]
    /\ UNCHANGED <<clientVars, timerVars, session, peerAlive, pongDue>>
    /\ UNCHANGED <<requestVars, delayVars>>

\* The server closes, or the connection breaks in a way TCP notices.
PeerCloses(s, code) ==
    /\ readyState[s] = "open"
    /\ peerAlive[s] \/ code = "lost"
    /\ readyState' = [readyState EXCEPT ![s] = "closing"]
    /\ closeCode' = [closeCode EXCEPT ![s] = code]
    /\ UNCHANGED <<clientVars, timerVars, session, peerAlive, pongDue>>
    /\ UNCHANGED <<requestVars, delayVars>>

\* A half-open connection: nothing will arrive on s any more.
PeerVanishes(s) ==
    /\ readyState[s] = "open"
    /\ peerAlive[s]
    /\ peerAlive' = [peerAlive EXCEPT ![s] = FALSE]
    /\ UNCHANGED <<clientVars, timerVars, readyState, closeCode, session, pongDue>>
    /\ UNCHANGED <<requestVars, delayVars>>

-----------------------------------------------------------------------------
Timers == ReconnectTimerFires
          \/ \E s \in Sockets : ReadyTimerFires(s) \/ WatchdogPings(s) \/ WatchdogTerminates(s)

SocketEvents == \E s \in Sockets :
    \/ Open(s) \/ Ready(s) \/ Pong(s) \/ CloseEvent(s)
    \/ \E r \in Requests : Request(s, r)

Environment == \E s \in Sockets :
    \/ HandshakeFails(s) \/ PeerVanishes(s)
    \/ \E code \in {"rejected", "lost"} : PeerCloses(s, code)

Next ==
    \/ Start
    \/ Close
    \/ Timers
    \/ SocketEvents
    \/ \E r \in Requests : Respond(r)
    \/ Environment

Spec == Init /\ [][Next]_vars

(* A timer that is armed fires, and ws reports the end of every connection  *)
(* (terminate destroys the socket, close() and the handshake have timeouts  *)
(* of their own).  Nothing is assumed of the server.                        *)
Fairness ==
    /\ WF_vars(ReconnectTimerFires)
    /\ \A s \in Sockets :
        /\ WF_vars(ReadyTimerFires(s))
        /\ WF_vars(WatchdogPings(s))
        /\ WF_vars(WatchdogTerminates(s))
        /\ WF_vars(CloseEvent(s))
        /\ WF_vars(Open(s) \/ HandshakeFails(s))

(* The service is back: a connection that is tried again and again is       *)
(* accepted, and a hello that is sent again and again is acknowledged       *)
(* before the ready timeout.                                                *)
ServiceReturns ==
    /\ WF_vars(Start)
    /\ \A s \in Sockets : SF_vars(Open(s)) /\ SF_vars(Ready(s))

FairSpec == Spec /\ Fairness

-----------------------------------------------------------------------------
(* Safety *)

Current(s)  == socket = s
Live(s)     == readyState[s] # "closed"
Rejected    == status = "authentication-failed"

\* A new connection is never opened while another one still exists, so two
\* connections of one agent never compete for its requests: only close()
\* abandons a socket (connect, line 119, overwrites socket without a check).
SingleConnection ==
    ~closed => /\ \A s \in Sockets : Live(s) => Current(s)
               /\ reconnectTimer => socket = None

\* An open connection is always watched by a timer that will end it if the
\* server stays silent: there is no window between the ready timeout and the
\* liveness watchdog (lines 121, 144 and 147).
Supervised ==
    ~closed => \A s \in Sockets :
        Current(s) /\ readyState[s] = "open" => s \in readyArmed \cup livenessArmed

\* A started client without a connection has a reconnect pending, except after
\* a rejected identity; after a rejection nothing at all is pending (lines 164-176).
NeverStuck ==
    started /\ ~closed /\ socket = None =>
        /\ reconnectTimer <=> ~Rejected
        /\ readyArmed = {} /\ livenessArmed = {}

\* Every pending timer is one its handle refers to, and watches the current
\* socket: clearSocketTimers can always stop it (lines 34-40, 121, 147).
TimersHeld ==
    /\ readyArmed \subseteq {readyTimer}
    /\ livenessArmed \subseteq {livenessTimer}
    /\ ~closed => readyArmed \cup livenessArmed \subseteq {socket}

\* The status the metrics report (cli.js, relayConnected) is "connected" exactly
\* when the current socket was acknowledged, whatever the order of the events.
StatusTruthful ==
    ~closed => (status = "connected" <=> socket # None /\ session[socket] = "ready")

\* close() is final: no connection and no reconnect or ready timer remains, even
\* when an event of the old socket comes late.  (A late 'ready' does re-arm the
\* liveness interval, whose ticks then do nothing.)
CloseIsFinal == closed => socket = None /\ ~reconnectTimer /\ readyArmed = {}

\* An answer is dropped only when the connection that asked is gone or the client
\* was closed, and it is sent only on a connection that is open (respond, line 71),
\* the one that asked whenever that one is still open.
ReplyDelivery ==
    [][\A r \in Requests :
        LET asked == inflight[r]
        IN  asked # None /\ inflight'[r] = None =>
              /\ replyOn' = None => closed \/ readyState[asked] # "open"
              /\ replyOn' # None => ~closed /\ readyState[replyOn'] = "open"
              /\ ~closed /\ readyState[asked] = "open" => replyOn' = asked]_vars

\* Failures in a row are retried more and more slowly, and only a 'ready' of the
\* server brings the delay back to the base: a server that accepts and drops
\* connections is not hammered (lines 43-51, 146).
BackoffGrows ==
    [][~reconnectTimer /\ reconnectTimer' =>
        lastDelay' = IF readySince \/ lastDelay = 0 THEN BaseDelay
                                                    ELSE NextBackoff(lastDelay)]_vars

\* After a rejection the client never connects again (docs/troubleshooting.md:17).
RejectionIsTerminal == [][Rejected => socket' = None /\ ~reconnectTimer']_vars

-----------------------------------------------------------------------------
(* Liveness *)

\* A connection whose peer vanished is given up, whatever its state was
\* (docs/troubleshooting.md:61, "actively probes the WebSocket").
HalfOpenDetected ==
    \A s \in Sockets :
        (Current(s) /\ readyState[s] = "open" /\ ~peerAlive[s]) ~> ~Current(s)

\* If the service keeps coming back the client is connected again and again,
\* with no restart, until it is closed or its identity is rejected.
ReconnectsAutomatically ==
    ServiceReturns => []<>(closed \/ status \in {"connected", "authentication-failed"})
=============================================================================
