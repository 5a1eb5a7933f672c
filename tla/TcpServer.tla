------------------------------ MODULE TcpServer ------------------------------
(***************************************************************************)
(* AsyncioTcpServer (asyncio_tcp_server.py) and its helpers                 *)
(* (_tcp_server_helpers.py, _tcp_server_stop_state.py): start() with its    *)
(* rollbacks, accepting under max_connections, heartbeats per connection,   *)
(* broadcast, and stop() by tasks and by the event handler.                 *)
(*                                                                          *)
(* Delivery is BACKGROUND.  Of the handlers, only the one of a payload      *)
(* event takes its time, and it may call stop(); the others return.  An     *)
(* emit() is a place to wait, when the queue is full, and is lost when the  *)
(* dispatcher is stopping.  A connection is what module TcpConnection shows *)
(* of it: one close task, which runs the server's callback, then publishes, *)
(* or leaves that to connection.start() or to a publisher of its own.       *)
(***************************************************************************)
EXTENDS Naturals, FiniteSets

CONSTANTS
  Stoppers,      \* the tasks that call stop()
  Connections,   \* the clients that connect; each socket gets an id of its own
  Setups         \* the settings and the application the server may have

ASSUME TaskAssumption ==
  /\ IsFiniteSet(Stoppers) /\ IsFiniteSet(Connections)
  /\ {"none", "handler"} \cap (Stoppers \cup Connections) = {}
ASSUME SetupAssumption ==
  Setups \subseteq [limit : Nat \ {0},      \* max_connections
                   heartbeat : BOOLEAN,    \* heartbeat.enabled
                   waits : BOOLEAN,        \* Server.wait_closed() waits for the sockets (CPython >= 3.12)
                   handlerStops : BOOLEAN, \* the payload handler may call stop()
                   overlap : BOOLEAN,      \* start() may be called before an old life is over
                   starts : Nat,           \* bound: calls of start()
                   cancels : Nat,          \* bound: cancelled calls of start() and stop()
                   stops : Nat,            \* bound: calls of stop() by tasks
                   handled : Nat,          \* bound: payload events handled
                   casts : Nat]            \* bound: calls of broadcast()

VARIABLES
  setup,       \* settings and application; fixed
  state,       \* _lifecycle_state
  listener,    \* the listening server: "none", "held" (_server) or in the stop "plan"
  conn,        \* socket -> its state, and whether its close task delivers inline
  accept,      \* socket -> where its _handle_client task is
  registered,  \* _connections
  senders,     \* _heartbeat_senders, by connection
  beating,     \* heartbeat tasks that have not ended, by connection
  cast,        \* where broadcast() is, and the connections it is about
  disp,        \* the dispatcher: "off", "on", "stopping"
  handler,     \* the connection whose payload handler runs on the worker
  start,       \* where start() is
  stop,        \* the owned stop: its plan and its position
  pc,          \* stopper -> where its call is
  calls        \* what bounds the inputs

connVars == <<conn, accept, registered>>
hbVars == <<senders, beating>>
vars == <<setup, state, listener, connVars, hbVars, cast, disp, handler, start, stop, pc, calls>>

-----------------------------------------------------------------------------
\* Accepted by the loop; waiting to be told that the limit is reached; turned
\* away; CONNECTED; CLOSING; CLOSING in the close callback; CLOSED with the
\* event deferred; CLOSED; CLOSED and published.
ConnStates == {"none", "pending", "rejecting", "refused", "up", "closing", "callback",
               "deferred", "closed", "over"}
AcceptStates == {"no", "opening", "handling", "handoff", "abandoned", "reporting"}
StartStates == {"idle", "starting", "handling", "doomed", "dropped", "binding", "running",
                "join", "rollback", "failed", "draining"}
StopPhases == {"none", "stopping", "heartbeats", "closing", "listener",
               "handlers", "telling", "closes", "stopped", "draining"}

NoStop == [phase |-> "none", by |-> "none", conns |-> {}, beats |-> {}, listener |-> FALSE,
           transition |-> FALSE, last |-> FALSE, error |-> FALSE]

Init ==
  /\ setup \in Setups
  /\ state = "STOPPED" /\ listener = "none"
  /\ conn = [c \in Connections |-> [st |-> "none", inline |-> FALSE]]
  /\ accept = [c \in Connections |-> "no"]
  /\ registered = {} /\ senders = {} /\ beating = {}
  /\ cast = [pc |-> "idle", of |-> {}]
  /\ disp = "off" /\ handler = "none" /\ start = "idle"
  /\ stop = NoStop
  /\ pc = [k \in Stoppers |-> "idle"]
  /\ calls = [starts |-> 0, stops |-> 0, cancels |-> 0, casts |-> 0, handled |-> 0]

Active == state \in {"STARTING", "RUNNING"}
Open(c) == conn[c].st \in {"pending", "rejecting", "up", "closing"}
Opening(c) == accept[c] \in {"opening", "handling"}

\* close() of connections cs: a close task for each that has none yet.
Closing(cs, inline) ==
  [c \in Connections |-> IF c \in cs /\ conn[c].st = "up"
                         THEN [st |-> "closing", inline |-> inline] ELSE conn[c]]

\* close() returns to its caller: the event is out, or a publisher of its own
\* will see to it, and only a task waits for a handler of the connection first.
CloseReturned(c, caller) ==
  \/ conn[c].st = "over"
  \/ conn[c].st = "deferred" /\ conn[c].inline /\ (caller = "handler" \/ handler # c)

-----------------------------------------------------------------------------
(***************************************************************************)
(* The worker and its payload handler.  An operator whose name has a suffix *)
(* (X_Suffix) is X with one seeded fault; no action uses it.                *)
(***************************************************************************)
\* The stop of plan p settles its waiter; who joined it goes on.
Outcome(err) == IF err THEN "raised" ELSE "returned"
CallsAfter_OnSuccess(p) ==
  [k \in Stoppers |-> IF pc[k] = "waiting" /\ (p.error => k = p.by) THEN Outcome(p.error) ELSE pc[k]]
CallsAfter(p) == [k \in Stoppers |-> IF pc[k] = "waiting" THEN Outcome(p.error) ELSE pc[k]]
Completed_KeepsPlan(p) ==
  /\ stop' = [p EXCEPT !.phase = "none"]
  /\ pc' = CallsAfter(p)
  /\ start' = IF start = "join" THEN "idle" ELSE start
Completed(p) ==
  /\ stop' = NoStop
  /\ pc' = CallsAfter(p)
  /\ start' = IF start = "join" THEN "idle" ELSE start

HandlerBegins(c) ==
  /\ handler = "none" /\ disp = "on" /\ calls.handled < setup.handled
  /\ conn[c].st \in {"up", "closing"} /\ accept[c] = "no"
  /\ handler' = c
  /\ calls' = [calls EXCEPT !.handled = @ + 1]
  /\ UNCHANGED <<setup, state, listener, connVars, hbVars, cast, disp, start, stop, pc>>

\* The handler is in stop() until its connections are closed.
InStop == stop.by = "handler" /\ stop.phase \in {"stopping", "heartbeats", "closing", "listener"}
HandlerReturns ==
  /\ handler # "none" /\ ~InStop
  /\ handler' = "none"
  /\ UNCHANGED <<setup, state, listener, connVars, hbVars, cast, disp, start, stop, pc, calls>>

\* Everything queued is delivered, barriers included, and the worker ends.
WorkerExits ==
  /\ disp = "stopping" /\ handler = "none"
  /\ start \notin {"handling", "doomed"} /\ \A c \in Connections : accept[c] # "handling"
  /\ disp' = "off"
  /\ LET stopped == stop.phase = "draining"
     IN  /\ stop' = IF stopped THEN NoStop ELSE stop
         /\ pc' = IF stopped THEN CallsAfter(stop) ELSE pc
         /\ start' = IF start = "draining" \/ (stopped /\ start = "join") THEN "idle" ELSE start
  /\ UNCHANGED <<setup, state, listener, connVars, hbVars, cast, handler, calls>>

-----------------------------------------------------------------------------
(***************************************************************************)
(* A connection's close task, and its heartbeat.                            *)
(***************************************************************************)
\* The peer, a failure or the application closes the connection.
ConnectionDies(c) ==
  /\ conn[c].st = "up"
  /\ conn' = Closing({c}, FALSE)
  /\ UNCHANGED <<setup, state, listener, accept, registered, hbVars, cast, disp, handler, start,
                 stop, pc, calls>>

\* Publication is left to connection.start() while that publishes `opened', and
\* to a task of its own when a handler's stop() closed the connection.
AfterCallback(c) == IF Opening(c) \/ conn[c].inline THEN "deferred" ELSE "closed"

\* _on_connection_closed(), run by the close task when the socket is closed.
ClosedCallback(c) ==
  /\ conn[c].st = "closing"
  /\ registered' = registered \ {c}
  /\ senders' = senders \ {c}
  /\ conn' = [conn EXCEPT ![c].st = IF c \in senders \cap beating THEN "callback"
                                    ELSE AfterCallback(c)]
  /\ UNCHANGED <<setup, state, listener, accept, beating, cast, disp, handler, start, stop, pc, calls>>

CallbackReturns(c) ==
  /\ conn[c].st = "callback" /\ c \notin beating
  /\ conn' = [conn EXCEPT ![c].st = AfterCallback(c)]
  /\ UNCHANGED <<setup, state, listener, accept, registered, hbVars, cast, disp, handler, start,
                 stop, pc, calls>>

\* The deferred event waits for the opened barrier and for the handlers of its
\* connection.
ClosedPublished(c) ==
  /\ conn[c].st \in {"closed", "deferred"}
  /\ conn[c].st = "deferred" => ~Opening(c) /\ handler # c
  /\ conn' = [conn EXCEPT ![c] = [st |-> "over", inline |-> FALSE]]
  /\ UNCHANGED <<setup, state, listener, accept, registered, hbVars, cast, disp, handler, start,
                 stop, pc, calls>>

\* A heartbeat task ends: cancelled, its connection gone, or a send failed.
HeartbeatEnds(c) ==
  /\ c \in beating
  /\ beating' = beating \ {c}
  /\ UNCHANGED <<setup, state, listener, connVars, senders, cast, disp, handler, start, stop, pc,
                 calls>>

-----------------------------------------------------------------------------
(***************************************************************************)
(* handle_accepted_client().                                                *)
(***************************************************************************)
\* Sockets are accepted one after the other; any unused name will do.
ClientArrives(c) ==
  /\ listener # "none" /\ conn[c].st = "none"
  /\ c = CHOOSE d \in Connections : conn[d].st = "none"
  /\ \A d \in Connections : conn[d].st # "pending"
  /\ conn' = [conn EXCEPT ![c].st = "pending"]
  /\ UNCHANGED <<setup, state, listener, accept, registered, hbVars, cast, disp, handler, start,
                 stop, pc, calls>>

\* The decision under the lock.  An accepted connection is registered, started
\* and CONNECTED before the task suspends, in the opened barrier.
Decides_Uncounted(c) ==
  /\ conn[c].st = "pending"
  /\ IF state # "RUNNING"
     THEN conn' = [conn EXCEPT ![c].st = "refused"] /\ UNCHANGED <<accept, registered>>
     ELSE IF Cardinality({d \in registered : accept[d] = "no"}) >= setup.limit
     THEN conn' = [conn EXCEPT ![c].st = "rejecting"] /\ UNCHANGED <<accept, registered>>
     ELSE /\ conn' = [conn EXCEPT ![c].st = "up"]
          /\ accept' = [accept EXCEPT ![c] = "opening"]
          /\ registered' = registered \cup {c}
  /\ UNCHANGED <<setup, state, listener, hbVars, cast, disp, handler, start, stop, pc, calls>>
Decides(c) ==
  /\ conn[c].st = "pending"
  /\ IF state # "RUNNING"
     THEN conn' = [conn EXCEPT ![c].st = "refused"] /\ UNCHANGED <<accept, registered>>
     ELSE IF Cardinality(registered) >= setup.limit
     THEN conn' = [conn EXCEPT ![c].st = "rejecting"] /\ UNCHANGED <<accept, registered>>
     ELSE /\ conn' = [conn EXCEPT ![c].st = "up"]
          /\ accept' = [accept EXCEPT ![c] = "opening"]
          /\ registered' = registered \cup {c}
  /\ UNCHANGED <<setup, state, listener, hbVars, cast, disp, handler, start, stop, pc, calls>>

\* ConnectionRejectedEvent is out: the socket is closed.
Rejected(c) ==
  /\ conn[c].st = "rejecting"
  /\ conn' = [conn EXCEPT ![c].st = "refused"]
  /\ UNCHANGED <<setup, state, listener, accept, registered, hbVars, cast, disp, handler, start,
                 stop, pc, calls>>

\* ConnectionOpenedEvent is queued, or refused by a stopping dispatcher.
OpenedQueued(c) ==
  /\ accept[c] = "opening"
  /\ accept' = [accept EXCEPT ![c] = IF disp = "on" THEN "handling" ELSE "abandoned"]
  /\ UNCHANGED <<setup, state, listener, conn, registered, hbVars, cast, disp, handler, start, stop,
                 pc, calls>>

\* start_server_heartbeat_if_needed()
StartsHeartbeat(c) ==
  IF setup.heartbeat /\ state = "RUNNING" /\ c \in registered
  THEN senders' = senders \cup {c} /\ beating' = beating \cup {c}
  ELSE UNCHANGED hbVars

\* connection.start() goes on after its barrier: it publishes a deferred close
\* first, otherwise starts to read; the heartbeat follows.
OpenedHandled(c) ==
  /\ accept[c] = "handling" /\ handler = "none"
  /\ IF conn[c].st = "deferred"
     THEN accept' = [accept EXCEPT ![c] = "handoff"] /\ UNCHANGED hbVars
     ELSE accept' = [accept EXCEPT ![c] = "no"] /\ StartsHeartbeat(c)
  /\ UNCHANGED <<setup, state, listener, conn, registered, cast, disp, handler, start, stop, pc, calls>>

HandedOff(c) ==
  /\ accept[c] = "handoff" /\ conn[c].st = "over"
  /\ accept' = [accept EXCEPT ![c] = "no"]
  /\ StartsHeartbeat(c)
  /\ UNCHANGED <<setup, state, listener, conn, registered, cast, disp, handler, start, stop, pc, calls>>

\* connection.start() has failed: it closes the connection and raises, the
\* server reports that and closes it again.
Abandons(c) ==
  /\ accept[c] = "abandoned"
  /\ conn' = Closing({c}, FALSE)
  /\ accept' = [accept EXCEPT ![c] = IF CloseReturned(c, "task") THEN "reporting" ELSE "abandoned"]
  /\ conn[c].st = "up" \/ CloseReturned(c, "task")
  /\ UNCHANGED <<setup, state, listener, registered, hbVars, cast, disp, handler, start, stop, pc, calls>>

AcceptFails(c) ==
  /\ accept[c] = "reporting"
  /\ accept' = [accept EXCEPT ![c] = "no"]
  /\ UNCHANGED <<setup, state, listener, conn, registered, hbVars, cast, disp, handler, start, stop,
                 pc, calls>>

-----------------------------------------------------------------------------
(***************************************************************************)
(* broadcast_to_connections().                                              *)
(***************************************************************************)
BroadcastCalled ==
  /\ cast.pc = "idle" /\ calls.casts < setup.casts
  /\ LET live == {c \in registered : conn[c].st = "up"}
     IN  live # {} /\ cast' = [pc |-> "sending", of |-> live]
  /\ calls' = [calls EXCEPT !.casts = @ + 1]
  /\ UNCHANGED <<setup, state, listener, connVars, hbVars, disp, handler, start, stop, pc>>

\* Every send has returned; those to `failed' raised or timed out.
BroadcastSent ==
  /\ cast.pc = "sending"
  /\ \E failed \in SUBSET cast.of :
       cast' = [pc |-> IF failed = {} THEN "idle" ELSE "reporting", of |-> failed]
  /\ UNCHANGED <<setup, state, listener, connVars, hbVars, disp, handler, start, stop, pc, calls>>

BroadcastReported_Forgets ==
  /\ cast.pc = "reporting"
  /\ cast' = [cast EXCEPT !.pc = "closing"]
  /\ conn' = Closing({c \in cast.of : Opening(c)}, FALSE)
  /\ UNCHANGED <<setup, state, listener, accept, registered, hbVars, disp, handler, start, stop, pc,
                 calls>>
BroadcastReported ==
  /\ cast.pc = "reporting"
  /\ cast' = [cast EXCEPT !.pc = "closing"]
  /\ conn' = Closing(cast.of, FALSE)
  /\ UNCHANGED <<setup, state, listener, accept, registered, hbVars, disp, handler, start, stop, pc,
                 calls>>

BroadcastReturns ==
  /\ cast.pc = "closing" /\ \A c \in cast.of : CloseReturned(c, "task")
  /\ cast' = [pc |-> "idle", of |-> {}]
  /\ UNCHANGED <<setup, state, listener, connVars, hbVars, disp, handler, start, stop, pc, calls>>

-----------------------------------------------------------------------------
(***************************************************************************)
(* start().                                                                 *)
(***************************************************************************)
\* No call is under way, and nothing of an earlier life is left to be done.
Quiet == stop.phase = "none" /\ disp = "off" /\ start = "idle"

\* From STOPPING the transition to STARTING is illegal, and raises.
StartCalled ==
  /\ start = "idle" /\ calls.starts < setup.starts
  /\ setup.overlap \/ Quiet
  /\ state \in {"STOPPED", "STOPPING"}
  /\ calls' = [calls EXCEPT !.starts = @ + 1]
  /\ disp' = IF disp = "off" THEN "on" ELSE disp
  /\ IF state = "STOPPED" THEN state' = "STARTING" /\ start' = "starting"
     ELSE UNCHANGED <<state, start>>
  /\ UNCHANGED <<setup, listener, connVars, hbVars, cast, handler, stop, pc>>

\* dispatcher.stop() at the end of a start() that failed.
StartStopsDispatcher ==
  /\ start' = IF disp = "off" THEN "idle" ELSE "draining"
  /\ disp' = IF disp = "off" THEN "off" ELSE "stopping"

\* _rollback_failed_startup(), with the server if there is one already; what it
\* has accepted meanwhile is left alone.
RollsBack ==
  /\ state' = IF Active THEN "STOPPED" ELSE state
  /\ listener' = "none"
  /\ IF start = "running" /\ setup.waits /\ \E c \in Connections : Open(c)
     THEN start' = "rollback" /\ UNCHANGED disp
     ELSE StartStopsDispatcher

\* The STARTING event is queued, or refused by a stopping dispatcher.
StartingQueued ==
  /\ start = "starting"
  /\ IF disp = "on" THEN start' = "handling" /\ UNCHANGED <<state, listener, disp>> ELSE RollsBack
  /\ UNCHANGED <<setup, connVars, hbVars, cast, handler, stop, pc, calls>>

StartingHandled ==
  /\ start = "handling" /\ handler = "none"
  /\ start' = IF state = "STARTING" THEN "binding" ELSE IF stop.phase = "none" THEN "idle" ELSE "join"
  /\ UNCHANGED <<setup, state, listener, connVars, hbVars, cast, disp, handler, stop, pc, calls>>

\* asyncio.start_server() returns: a stop() may have run meanwhile.
Binds_Unchecked ==
  /\ start = "binding"
  /\ listener' = "held" /\ state' = "RUNNING" /\ start' = "running"
  /\ UNCHANGED <<setup, connVars, hbVars, cast, disp, handler, stop, pc, calls>>
Binds ==
  /\ start = "binding"
  /\ IF state = "STARTING"
     THEN listener' = "held" /\ state' = "RUNNING" /\ start' = "running"
     ELSE start' = "idle" /\ UNCHANGED <<listener, state>>
  /\ UNCHANGED <<setup, connVars, hbVars, cast, disp, handler, stop, pc, calls>>

\* No address can be bound, or start() is cancelled there.
BindFails ==
  /\ state' = "STOPPED"
  /\ IF state # "STOPPED" THEN start' = "failed" /\ UNCHANGED disp ELSE StartStopsDispatcher

BindRaises ==
  /\ start = "binding" /\ BindFails
  /\ UNCHANGED <<setup, listener, connVars, hbVars, cast, handler, stop, pc, calls>>

\* STOPPED is out.
FailureTold ==
  /\ start = "failed" /\ StartStopsDispatcher
  /\ UNCHANGED <<setup, state, listener, connVars, hbVars, cast, handler, stop, pc, calls>>

RunningTold ==
  /\ start = "running"
  /\ start' = "idle"
  /\ UNCHANGED <<setup, state, listener, connVars, hbVars, cast, disp, handler, stop, pc, calls>>

\* A cancelled barrier is awaited to its end.
StartCancelled ==
  /\ calls.cancels < setup.cancels
  /\ calls' = [calls EXCEPT !.cancels = @ + 1]
  /\ \/ start \in {"starting", "running"} /\ RollsBack
     \/ start = "binding" /\ BindFails /\ UNCHANGED listener
     \/ /\ start \in {"handling", "join"}
        /\ start' = IF start = "join" THEN "idle" ELSE "doomed"
        /\ UNCHANGED <<state, listener, disp>>
  /\ UNCHANGED <<setup, connVars, hbVars, cast, handler, stop, pc>>

\* The barrier was cancelled, or dropped by a handler's stop().
StartRaises ==
  /\ start = "dropped" \/ (start = "doomed" /\ handler = "none")
  /\ RollsBack
  /\ UNCHANGED <<setup, connVars, hbVars, cast, handler, stop, pc, calls>>

\* Server.wait_closed() of the rollback.
RollbackEnds ==
  /\ start = "rollback" /\ \A c \in Connections : ~Open(c)
  /\ StartStopsDispatcher
  /\ UNCHANGED <<setup, state, listener, connVars, hbVars, cast, handler, stop, pc, calls>>

-----------------------------------------------------------------------------
(***************************************************************************)
(* stop().                                                                  *)
(***************************************************************************)
Idle(k) == pc[k] \in {"idle", "returned", "raised"}

\* _plan_stop(): what the server has is the plan's now.
Plans_Connected(by) ==
  /\ stop' = [NoStop EXCEPT !.phase = "stopping", !.by = by,
                            !.conns = {c \in registered : accept[c] = "no"}, !.beats = senders,
                            !.listener = listener = "held", !.transition = Active]
  /\ state' = IF Active THEN "STOPPING" ELSE state
  /\ listener' = IF listener = "held" THEN "plan" ELSE listener
  /\ registered' = {} /\ senders' = {}
Plans(by) ==
  /\ stop' = [NoStop EXCEPT !.phase = "stopping", !.by = by, !.conns = registered, !.beats = senders,
                            !.listener = listener = "held", !.transition = Active]
  /\ state' = IF Active THEN "STOPPING" ELSE state
  /\ listener' = IF listener = "held" THEN "plan" ELSE listener
  /\ registered' = {} /\ senders' = {}

\* Who meets a stop joins it; a server that is stopped and holds nothing is done.
StopCalled(k) ==
  /\ Idle(k) /\ calls.stops < setup.stops
  /\ k = CHOOSE i \in Stoppers : Idle(i)
  /\ calls' = [calls EXCEPT !.stops = @ + 1]
  /\ LET nothing == stop.phase = "none" /\ ~Active /\ registered = {}
     IN  /\ pc' = [pc EXCEPT ![k] = IF nothing THEN "returned" ELSE "waiting"]
         /\ IF stop.phase = "none" /\ ~nothing THEN Plans(k)
            ELSE UNCHANGED <<stop, state, listener, registered, senders>>
  /\ UNCHANGED <<setup, conn, accept, beating, cast, disp, handler, start>>

\* The payload handler calls stop(): the dispatcher stops first, and drops what
\* is queued, barriers included.  (If there is a stop, it just returns.)
HandlerStops ==
  /\ setup.handlerStops /\ handler # "none" /\ stop.phase = "none"
  /\ Plans("handler")
  /\ disp' = "stopping"
  /\ start' = IF start \in {"handling", "doomed"} THEN "dropped" ELSE start
  /\ accept' = [c \in Connections |-> IF accept[c] = "handling" THEN "abandoned" ELSE accept[c]]
  /\ UNCHANGED <<setup, conn, beating, cast, handler, pc, calls>>

\* dispatcher.stop(), awaited.
StopsDispatcher(p) ==
  IF disp = "off" THEN Completed(p) /\ UNCHANGED disp
  ELSE /\ stop' = [p EXCEPT !.phase = "draining"]
       /\ disp' = "stopping"
       /\ UNCHANGED <<pc, start>>

\* The listener is closed: STOPPED is applied, and published by the task that
\* stops or, when a handler does, by a task that waits for the handlers.
Concludes(p) ==
  LET last == p.transition /\ state = "STOPPING"
  IN  /\ state' = IF last THEN "STOPPED" ELSE state
      /\ IF p.by = "handler"
         THEN stop' = [p EXCEPT !.phase = "handlers", !.last = last] /\ UNCHANGED <<disp, pc, start>>
         ELSE IF last /\ ~p.error
         THEN stop' = [p EXCEPT !.phase = "stopped"] /\ UNCHANGED <<disp, pc, start>>
         ELSE IF p.transition THEN StopsDispatcher(p)
         ELSE Completed(p) /\ UNCHANGED disp

AwaitsListener(p) ==
  IF p.listener /\ setup.waits /\ \E c \in Connections : Open(c)
  THEN stop' = [p EXCEPT !.phase = "listener"] /\ UNCHANGED <<state, disp, pc, start>>
  ELSE Concludes(p)

ClosesConnections(p) ==
  IF p.conns # {}
  THEN /\ stop' = [p EXCEPT !.phase = "closing"]
       /\ conn' = Closing(p.conns, p.by = "handler")
       /\ UNCHANGED <<state, disp, pc, start>>
  ELSE AwaitsListener(p) /\ UNCHANGED conn

\* STOPPING is out (for a task), and the listener is closed.
StoppingTold ==
  /\ stop.phase = "stopping"
  /\ listener' = IF listener = "plan" THEN "none" ELSE listener
  /\ IF stop.beats # {}
     THEN stop' = [stop EXCEPT !.phase = "heartbeats"] /\ UNCHANGED <<conn, state, disp, pc, start>>
     ELSE ClosesConnections(stop)
  /\ UNCHANGED <<setup, accept, registered, hbVars, cast, handler, calls>>

HeartbeatsGone ==
  /\ stop.phase = "heartbeats" /\ stop.beats \cap beating = {}
  /\ ClosesConnections(stop)
  /\ UNCHANGED <<setup, listener, accept, registered, hbVars, cast, handler, calls>>

ConnectionsClosed ==
  /\ stop.phase = "closing"
  /\ \A c \in stop.conns : CloseReturned(c, IF stop.by = "handler" THEN "handler" ELSE "task")
  /\ AwaitsListener(stop)
  /\ UNCHANGED <<setup, listener, connVars, hbVars, cast, handler, calls>>

ListenerClosed ==
  /\ stop.phase = "listener" /\ \A c \in Connections : ~Open(c)
  /\ Concludes(stop)
  /\ UNCHANGED <<setup, listener, connVars, hbVars, cast, handler, calls>>

StoppedTold ==
  /\ stop.phase = "stopped"
  /\ StopsDispatcher(stop)
  /\ UNCHANGED <<setup, state, listener, connVars, hbVars, cast, handler, calls>>

\* The task that finishes a handler's stop().
FinisherRuns ==
  /\ \/ /\ stop.phase = "handlers" /\ handler = "none"
        /\ stop' = [stop EXCEPT !.phase = IF stop.transition THEN "telling" ELSE "closes"]
        /\ UNCHANGED <<disp, pc, start>>
     \/ /\ stop.phase = "telling"
        /\ stop' = [stop EXCEPT !.phase = "closes"]
        /\ UNCHANGED <<disp, pc, start>>
     \/ /\ stop.phase = "closes" /\ \A c \in stop.conns : conn[c].st = "over"
        /\ IF stop.last THEN stop' = [stop EXCEPT !.phase = "stopped"] /\ UNCHANGED <<disp, pc, start>>
           ELSE StopsDispatcher(stop)
  /\ UNCHANGED <<setup, state, listener, connVars, hbVars, cast, handler, calls>>

\* Who joined leaves; the owner keeps the error and goes on, without waiting for
\* the listener or, in its last await, for the worker.
StopperCancelled(k) ==
  /\ calls.cancels < setup.cancels /\ pc[k] = "waiting"
  /\ calls' = [calls EXCEPT !.cancels = @ + 1]
  /\ LET failed == [stop EXCEPT !.error = TRUE]
     IN  \/ stop.by # k /\ pc' = [pc EXCEPT ![k] = "raised"] /\ UNCHANGED <<stop, state, disp, start>>
         \/ stop.by = k /\ stop.phase = "draining" /\ Completed(failed) /\ UNCHANGED <<state, disp>>
         \/ stop.by = k /\ stop.phase = "listener" /\ Concludes(failed)
         \/ /\ stop.by = k /\ stop.phase \notin {"draining", "listener"}
            /\ stop' = failed
            /\ UNCHANGED <<pc, state, disp, start>>
  /\ UNCHANGED <<setup, listener, connVars, hbVars, cast, handler>>

-----------------------------------------------------------------------------
\* What the event loop must run: every step but the inputs.
StartStep == \/ StartingQueued \/ StartingHandled \/ Binds \/ FailureTold \/ RunningTold
             \/ StartRaises \/ RollbackEnds
StopStep == \/ StoppingTold \/ HeartbeatsGone \/ ConnectionsClosed \/ ListenerClosed \/ StoppedTold
            \/ FinisherRuns
CloseStep(c) == ClosedCallback(c) \/ CallbackReturns(c) \/ ClosedPublished(c)
AcceptStep(c) == \/ Decides(c) \/ Rejected(c) \/ OpenedQueued(c) \/ OpenedHandled(c) \/ HandedOff(c)
                 \/ Abandons(c) \/ AcceptFails(c)
BroadcastStep == BroadcastSent \/ BroadcastReported \/ BroadcastReturns

Next ==
  \/ \E c \in Connections : \/ CloseStep(c) \/ AcceptStep(c) \/ ClientArrives(c)
                            \/ ConnectionDies(c) \/ HeartbeatEnds(c) \/ HandlerBegins(c)
  \/ \E k \in Stoppers : StopCalled(k) \/ StopperCancelled(k)
  \/ StartStep \/ StartCalled \/ BindRaises \/ StartCancelled \/ StopStep \/ HandlerStops
  \/ BroadcastStep \/ BroadcastCalled \/ HandlerReturns \/ WorkerExits

Spec == Init /\ [][Next]_vars

\* Ready tasks run, handlers return, a cancelled heartbeat ends, a send ends (it
\* drains, fails or times out).
Cancelled(c) == conn[c].st = "callback" \/ (stop.phase = "heartbeats" /\ c \in stop.beats)
Fairness ==
  /\ \A c \in Connections : /\ WF_vars(CloseStep(c)) /\ WF_vars(AcceptStep(c))
                            /\ WF_vars(Cancelled(c) /\ HeartbeatEnds(c))
  /\ WF_vars(StartStep) /\ WF_vars(StopStep) /\ WF_vars(BroadcastStep)
  /\ WF_vars(HandlerReturns) /\ WF_vars(WorkerExits)

FairSpec == Spec /\ Fairness

-----------------------------------------------------------------------------
(***************************************************************************)
(* Properties.                                                              *)
(***************************************************************************)
\* Every variable has its type, and a stop or a broadcast that is over has left
\* nothing for the next one to find.
TypeOK ==
  /\ setup \in Setups
  /\ state \in {"STOPPED", "STARTING", "RUNNING", "STOPPING"}
  /\ listener \in {"none", "held", "plan"}
  /\ conn \in [Connections -> [st : ConnStates, inline : BOOLEAN]]
  /\ accept \in [Connections -> AcceptStates]
  /\ registered \subseteq Connections /\ senders \subseteq Connections /\ beating \subseteq Connections
  /\ cast \in [pc : {"idle", "sending", "reporting", "closing"}, of : SUBSET Connections]
  /\ disp \in {"off", "on", "stopping"} /\ handler \in Connections \cup {"none"}
  /\ start \in StartStates
  /\ stop \in [phase : StopPhases, by : Stoppers \cup {"none", "handler"},
               conns : SUBSET Connections, beats : SUBSET Connections, listener : BOOLEAN,
               transition : BOOLEAN, last : BOOLEAN, error : BOOLEAN]
  /\ pc \in [Stoppers -> {"idle", "waiting", "returned", "raised"}]
  /\ calls \in [starts : Nat, stops : Nat, cancels : Nat, casts : Nat, handled : Nat]
  /\ stop.phase = "none" => stop = NoStop
  /\ cast.pc = "idle" => cast.of = {}

\* No connection is connected that nobody would close: it is registered, or in
\* the plan of a stop that has not come to it yet.
ConnectionsOwned ==
  \A c \in Connections :
    conn[c].st = "up" => \/ c \in registered
                         \/ stop.phase \in {"stopping", "heartbeats"} /\ c \in stop.conns

\* No heartbeat task is left alone: its sender is registered, with its
\* connection, or some task has cancelled it and awaits its end.
HeartbeatsOwned ==
  /\ senders \subseteq registered
  /\ \A c \in beating : \/ c \in senders \/ conn[c].st = "callback"
                        \/ stop.phase \in {"stopping", "heartbeats"} /\ c \in stop.beats

\* The listener is the server's exactly while it runs, and nothing runs without
\* the dispatcher of its life: what stop() could not see is not started after it.
ListenerOwned == /\ listener = "held" <=> state = "RUNNING"
                 /\ listener = "plan" => stop.phase = "stopping" /\ stop.listener
                 /\ state = "RUNNING" /\ ~setup.overlap => disp = "on"

\* Whatever the interleaving of clients, one start() at a time, stop(), failures
\* and cancellations, the server keeps track of what it owns.
EverythingOwned == ConnectionsOwned /\ HeartbeatsOwned /\ ListenerOwned

\* max_connections bounds the sockets that are being served, the ones whose
\* opened event is still being handled and the ones still closing included.
LimitKept ==
  ~setup.overlap => Cardinality({c \in Connections : conn[c].st \in {"up", "closing"}}) <= setup.limit

\* A stop() that returns normally leaves nothing behind: no listener, no
\* connection, no dispatcher, and no heartbeat but one that a close callback is
\* waiting for; unless it met a start() that is rolling back.  (After a stop()
\* that was cancelled in its last await, the worker may still be ending.)
RollingBack == start \in {"rollback", "failed", "draining"}
Returns(k) == pc[k] # "returned" /\ pc'[k] = "returned"
StopLeavesNothing ==
  [][\A k \in Stoppers : Returns(k) /\ ~setup.overlap /\ ~RollingBack =>
       /\ state' = "STOPPED" /\ listener' = "none"
       /\ disp' # "on" /\ (setup.cancels = 0 => disp' = "off")
       /\ registered' = {} /\ senders' = {}
       /\ \A c \in Connections : /\ conn'[c].st \notin {"up", "closing"}
                                 /\ c \in beating' => conn'[c].st = "callback"]_vars

\* stop() returns, and so does start(), unless its rollback waits for clients
\* nobody disconnects; no accepted socket is left half-way.
CallsReturn ==
  /\ \A k \in Stoppers : ~Idle(k) ~> Idle(k)
  /\ start # "idle" ~> start \in {"idle", "rollback"}
  /\ \A c \in Connections : accept[c] # "no" ~> accept[c] = "no"

\* The connections to which a broadcast failed are closed, whoever else closes
\* them, and broadcast() returns.
FailedSendsClose ==
  \A c \in Connections : cast.pc = "reporting" /\ c \in cast.of ~> cast.pc = "idle" /\ ~Open(c)
=============================================================================
