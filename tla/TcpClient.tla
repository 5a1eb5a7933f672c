------------------------------ MODULE TcpClient ------------------------------
(***************************************************************************)
(* AsyncioTcpClient (asyncio_tcp_client.py) and its supervision             *)
(* (tcp_client_supervision.py): start() with its rollback, the connect and  *)
(* reconnect loop, stop() by tasks and by event handlers, heartbeat and     *)
(* connection ownership.                                                    *)
(*                                                                          *)
(* Delivery is BACKGROUND.  An emit() is a place to wait, when the queue is *)
(* full, and is lost when the dispatcher is stopping.  Some handlers take   *)
(* their time and may call stop(), the others return.  A connection is what *)
(* module TcpConnection shows of it: one close task, which runs the         *)
(* client's callback, then publishes, or leaves that to connection.start()  *)
(* or to a publisher of its own.  An action is the code between two awaits  *)
(* that may suspend.                                                        *)
(***************************************************************************)
EXTENDS Naturals, FiniteSets

CONSTANTS
  Stoppers,      \* the tasks that call stop()
  Supervisors,   \* supervisor tasks: each start() that succeeds creates one
  Connections,   \* connections: each successful connect creates one
  Setups         \* the settings and the application the client may have

Names == {"none", "start", "stop", "handler", "event"}
ASSUME TaskAssumption ==
  /\ IsFiniteSet(Stoppers) /\ IsFiniteSet(Supervisors) /\ IsFiniteSet(Connections)
  /\ Supervisors \cap Names = {} /\ Connections \cap Names = {}
ASSUME SetupAssumption ==
  Setups \subseteq [reconnect : BOOLEAN,   \* reconnect.enabled
                   failFast : BOOLEAN,    \* the error policy is FAIL_FAST
                   heartbeat : BOOLEAN,   \* heartbeat.enabled
                   overlap : BOOLEAN,     \* start() may be called before an old life is over
                   starts : Nat,          \* bound: calls of start()
                   cancels : Nat,         \* bound: cancelled calls of start() and stop()
                   stops : Nat,           \* bound: calls of stop() by tasks
                   handled : Nat]         \* bound: handlers that take their time and may call stop()
ASSUME HandlerAssumption == \A u \in Setups : u.handled > 0 => ~u.overlap /\ u.cancels = 0

VARIABLES
  setup,       \* settings and application; fixed
  state,       \* _lifecycle_state; _running mirrors it
  supervisor,  \* _supervisor_task
  sup,         \* supervisor -> where it is, and its connection
  current,     \* _connection
  conn,        \* connection -> its state and its close task's position
  hb,          \* _heartbeat_sender, by its connection
  beating,     \* heartbeat tasks that have not ended, by connection
  closedEvent, \* _connection_closed_event is set
  disp,        \* the dispatcher: "off", "on", "stopping"
  handler,     \* what the worker's handler is about: a connection, or another "event"
  start,       \* where start() is
  stop,        \* the owned stop: its plan and its position
  pc,          \* stopper -> where its call is
  release,     \* task -> what it awaits while it releases the client's resources
  calls        \* what bounds the inputs

supVars == <<supervisor, sup>>
connVars == <<current, conn, closedEvent>>
hbVars == <<hb, beating>>
vars == <<setup, state, supVars, connVars, hbVars, disp, handler, start, stop, pc, release, calls>>

-----------------------------------------------------------------------------
SupStates == {"unborn", "new", "attempt", "connecting", "opening", "handling", "handoff",
              "abandoned", "closing", "connected", "scheduled", "sleeping", "failed", "failing",
              "cancelled", "final", "finishing", "told", "draining", "done"}
StartStates == {"idle", "starting", "handling", "doomed", "running", "join", "rollback",
                "releasing", "draining"}
StopPhases == {"none", "stopping", "supervisor", "release", "handlers", "telling", "closes",
               "stopped", "draining"}
CallStates == {"idle", "own", "join", "returned", "raised"}

\* CONNECTED; CLOSING; CLOSING in the close callback; CLOSED with the event
\* deferred to connection.start() or to a publisher; CLOSED; CLOSED and published.
ConnStates == {"none", "up", "closing", "callback", "deferred", "parked", "closed", "over"}

NoStop == [phase |-> "none", sup |-> "none", dispatcher |-> FALSE, error |-> FALSE,
           handler |-> FALSE, transition |-> FALSE, cancel |-> FALSE, conn |-> "none"]
NewConn == [st |-> "none", beat |-> "none", inline |-> FALSE]
NoSup == [pc |-> "unborn", conn |-> "none", retry |-> FALSE, cancelled |-> FALSE]
NotReleasing == [at |-> "no", of |-> "none"]
Releasers == Supervisors \cup {"start", "stop", "handler"}

Init ==
  /\ setup \in Setups
  /\ state = "STOPPED" /\ supervisor = "none"
  /\ sup = [s \in Supervisors |-> NoSup]
  /\ current = "none" /\ closedEvent = TRUE
  /\ conn = [c \in Connections |-> NewConn]
  /\ hb = "none" /\ beating = {}
  /\ disp = "off" /\ handler = "none"
  /\ start = [pc |-> "idle", sup |-> "none"]
  /\ stop = NoStop
  /\ pc = [k \in Stoppers |-> "idle"]
  /\ release = [t \in Releasers |-> NotReleasing]
  /\ calls = [starts |-> 0, stops |-> 0, cancels |-> 0, handled |-> 0]

\* A task or a connection has no name of its own: any unused one will do.
NewSupervisor == CHOOSE s \in Supervisors : sup[s].pc = "unborn"
NewConnection == CHOOSE c \in Connections : conn[c].st = "none"

Running == state \in {"STARTING", "RUNNING"}
Closed(c) == conn[c].st \in {"deferred", "parked", "closed", "over"}
Opening(c) == \E s \in Supervisors : sup[s].conn = c /\ sup[s].pc \in {"opening", "handling"}
SupDone(s) == s \in Supervisors => sup[s].pc = "done"

-----------------------------------------------------------------------------
(***************************************************************************)
(* The dispatcher, and a connection's close task.  An operator whose name   *)
(* has a suffix (X_Suffix) is X with one seeded fault; no action uses it.   *)
(***************************************************************************)
\* The owned stop settles its waiter; who joined it goes on.
CallsAfter(err) ==
  [k \in Stoppers |-> IF pc[k] \in {"own", "join"}
                      THEN IF err THEN "raised" ELSE "returned" ELSE pc[k]]
Completed(err) ==
  /\ stop' = NoStop
  /\ pc' = CallsAfter(err)
  /\ start' = IF start.pc = "join" THEN [start EXCEPT !.pc = "idle"] ELSE start

\* A handler of connection c begins, for `opened' or for a payload; or one of a
\* lifecycle, connect or error event, of which there is one from STARTING on.
HandlerBegins(h) ==
  /\ handler = "none" /\ disp # "off" /\ calls.handled < setup.handled
  /\ \/ /\ h \in Connections /\ disp = "on" /\ conn[h].st \in {"up", "closing"}
        /\ \A s \in Supervisors : sup[s].conn = h => sup[s].pc = "handling"
     \/ /\ h = "event" /\ start.pc # "starting"
        /\ start.pc = "running" => \A s \in Supervisors : sup[s].pc # "new"
  /\ handler' = h
  /\ calls' = [calls EXCEPT !.handled = @ + 1]
  /\ UNCHANGED <<setup, state, supVars, connVars, hbVars, disp, start, stop, pc, release>>

\* The handler is in stop() until what the client held is released.
InStop == stop.handler /\ stop.phase \in {"supervisor", "release"}
HandlerReturns ==
  /\ handler # "none" /\ ~InStop
  /\ handler' = "none"
  /\ UNCHANGED <<setup, state, supVars, connVars, hbVars, disp, start, stop, pc, release, calls>>

\* Everything queued is delivered, barriers included, and the worker ends.
WorkerExits ==
  /\ disp = "stopping" /\ handler = "none"
  /\ start.pc \notin {"handling", "doomed"} /\ \A s \in Supervisors : sup[s].pc # "handling"
  /\ disp' = "off"
  /\ sup' = [s \in Supervisors |-> IF sup[s].pc = "draining" THEN [NoSup EXCEPT !.pc = "done"]
                                   ELSE sup[s]]
  /\ IF stop.phase = "draining"
     THEN stop' = NoStop /\ pc' = CallsAfter(stop.error)
     ELSE UNCHANGED <<stop, pc>>
  /\ start' = [start EXCEPT !.pc = IF @ = "draining" \/ (@ = "join" /\ stop.phase = "draining")
                                   THEN "idle" ELSE @]
  /\ UNCHANGED <<setup, handler, state, supervisor, connVars, hbVars, release, calls>>

\* The peer, a failure or the application closes the connection.  (An application
\* whose handlers stop the client does not close connections it has not heard of.)
ConnectionDies(c) ==
  /\ conn[c].st = "up"
  /\ setup.handled > 0 => ~Opening(c)
  /\ conn' = [conn EXCEPT ![c].st = "closing"]
  /\ UNCHANGED <<setup, handler, state, supVars, current, closedEvent, hbVars, disp, start, stop,
                 pc,
                 release, calls>>

\* Publication waits for connection.start() while that publishes `opened', and
\* for a task of its own when a handler's stop() closed the connection.
AfterCallback(c) == IF Opening(c) THEN "deferred" ELSE IF conn[c].inline THEN "parked" ELSE "closed"

\* _on_connection_closed(), run by the close task when the socket is closed.
ClosedCallback_Silent(c) ==
  /\ conn[c].st = "closing"
  /\ current' = IF current = c THEN "none" ELSE current
  /\ conn' = [conn EXCEPT ![c].st = IF hb \in beating THEN "callback" ELSE AfterCallback(c),
                          ![c].beat = IF hb \in beating THEN hb ELSE "none"]
  /\ hb' = "none"
  /\ UNCHANGED <<setup, handler, state, supVars, closedEvent, beating, disp, start, stop, pc,
                 release, calls>>
ClosedCallback(c) ==
  /\ conn[c].st = "closing"
  /\ current' = IF current = c THEN "none" ELSE current
  /\ closedEvent' = (closedEvent \/ (current = c /\ state # "STOPPING"))
  /\ conn' = [conn EXCEPT ![c].st = IF hb \in beating THEN "callback" ELSE AfterCallback(c),
                          ![c].beat = IF hb \in beating THEN hb ELSE "none"]
  /\ hb' = "none"
  /\ UNCHANGED <<setup, handler, state, supVars, beating, disp, start, stop, pc, release, calls>>

CallbackReturns(c) ==
  /\ conn[c].st = "callback" /\ conn[c].beat \notin beating
  /\ conn' = [conn EXCEPT ![c].st = AfterCallback(c), ![c].beat = "none"]
  /\ UNCHANGED <<setup, handler, state, supVars, current, closedEvent, hbVars, disp, start, stop,
                 pc,
                 release, calls>>

ClosedPublished(c) ==
  /\ conn[c].st = "closed" \/ (conn[c].st = "parked" /\ handler # c)
  /\ conn' = [conn EXCEPT ![c].st = "over"]
  /\ UNCHANGED <<setup, handler, state, supVars, current, closedEvent, hbVars, disp, start, stop,
                 pc,
                 release, calls>>

\* A heartbeat task ends: cancelled, its connection gone, or a send failed.
HeartbeatEnds(c) ==
  /\ c \in beating
  /\ beating' = beating \ {c}
  /\ UNCHANGED <<setup, handler, state, supVars, connVars, hb, disp, start, stop, pc, release,
                 calls>>

-----------------------------------------------------------------------------
(***************************************************************************)
(* _stop_heartbeat_sender(), then _close_current_connection(): what the     *)
(* supervisor, stop() and the rollback of start() all do.                   *)
(***************************************************************************)
\* Task t detaches and closes the current connection, if it is not CLOSED.
ClosesCurrent(t) ==
  IF current # "none" /\ ~Closed(current)
  THEN /\ release' = [release EXCEPT ![t] = [at |-> "close", of |-> current]]
       /\ conn' = IF conn[current].st = "up"
                   THEN [conn EXCEPT ![current].st = "closing", ![current].inline = t = "handler"]
                   ELSE conn
       /\ UNCHANGED <<current, closedEvent>>
  ELSE /\ release' = [release EXCEPT ![t] = [at |-> "released", of |-> "none"]]
       /\ current' = "none" /\ closedEvent' = TRUE
       /\ UNCHANGED conn

ReleaseBegins_Unchecked(t) ==
  /\ hb' = "none"
  /\ release' = [release EXCEPT ![t] = [at |-> "heartbeat", of |-> hb]]
  /\ UNCHANGED <<connVars, beating>>
ReleaseBegins(t) ==
  /\ hb' = "none"
  /\ IF hb \in beating
     THEN /\ release' = [release EXCEPT ![t] = [at |-> "heartbeat", of |-> hb]]
          /\ UNCHANGED connVars
     ELSE ClosesCurrent(t)
  /\ UNCHANGED beating

\* In a supervisor that was cancelled the await raises CancelledError in any
\* case; stop() keeps its first error and goes on, a rollback ignores it.
Interrupted(t) == t \in Supervisors /\ sup[t].cancelled

HeartbeatGone(t) ==
  /\ release[t].at = "heartbeat" /\ release[t].of \notin beating
  /\ IF Interrupted(t)
     THEN release' = [release EXCEPT ![t] = [at |-> "aborted", of |-> "none"]] /\ UNCHANGED connVars
     ELSE ClosesCurrent(t)
  /\ UNCHANGED <<setup, handler, state, supVars, hbVars, disp, start, stop, pc, calls>>

\* close() returns to task t: the event is out, or somebody will see to it, and
\* only a task waits for a handler of the connection first.
CloseReturned(c, t) ==
  \/ conn[c].st = "over"
  \/ conn[c].st = "parked" /\ (t = "handler" \/ handler # c)
  \/ conn[c].st = "deferred" /\ t = "handler"

ConnectionGone(t) ==
  /\ release[t].at = "close" /\ CloseReturned(release[t].of, t)
  /\ current' = IF current = release[t].of THEN "none" ELSE current
  /\ closedEvent' = TRUE
  /\ release' = [release EXCEPT ![t] = [at |-> IF Interrupted(t) THEN "aborted" ELSE "released",
                                        of |-> "none"]]
  /\ stop' = IF t = "handler" THEN [stop EXCEPT !.conn = release[t].of] ELSE stop
  /\ UNCHANGED <<setup, handler, state, supVars, conn, hbVars, disp, start, pc, calls>>

Released(t) == release[t].at \in {"released", "aborted"}
ReleaseOver(t) == release' = [release EXCEPT ![t] = NotReleasing]

-----------------------------------------------------------------------------
(***************************************************************************)
(* The supervisor.                                                          *)
(***************************************************************************)
At(s, p) == sup[s].pc = p
\* Where it goes on; what it no longer looks at is forgotten.
GoTo(s, p) ==
  sup' = [sup EXCEPT ![s] =
            [pc |-> p, conn |-> IF p \in {"handling", "handoff", "abandoned", "closing"}
                                THEN @.conn ELSE "none",
             retry |-> @.retry /\ p = "failing", cancelled |-> @.cancelled /\ p # "done"]]

\* `while client._running'
LoopHead == IF Running THEN "attempt" ELSE "final"

\* What cancel() does to supervisor s, by where it waits.
AfterCancel(s) ==
  CASE sup[s].pc \in {"new", "draining"} -> [NoSup EXCEPT !.pc = "done"]
    [] sup[s].pc \in {"opening", "handling", "handoff"} ->
         [sup[s] EXCEPT !.pc = "abandoned", !.cancelled = TRUE]
    [] sup[s].pc \in {"attempt", "connecting", "connected", "scheduled", "sleeping", "failed"} ->
         [sup[s] EXCEPT !.pc = "cancelled", !.cancelled = TRUE]
    [] OTHER -> [sup[s] EXCEPT !.cancelled = TRUE]
Cancel_Never(s) == UNCHANGED sup
Cancel(s) == sup' = IF SupDone(s) THEN sup ELSE [sup EXCEPT ![s] = AfterCancel(s)]

SupervisorRuns(s) ==
  /\ \/ At(s, "new") /\ GoTo(s, LoopHead)
     \/ At(s, "sleeping") /\ GoTo(s, LoopHead)
     \/ At(s, "attempt") /\ GoTo(s, IF state = "RUNNING" THEN "connecting" ELSE "final")
     \/ At(s, "scheduled") /\ GoTo(s, IF Running THEN "sleeping" ELSE "final")
     \/ At(s, "cancelled") /\ GoTo(s, "final")
  /\ UNCHANGED <<setup, handler, state, supervisor, connVars, hbVars, disp, start, stop, pc,
                 release, calls>>

\* The opener fails or times out.
Fails(s) == sup' = [sup EXCEPT ![s] = [NoSup EXCEPT !.pc = "failed",
                                                    !.retry = Running /\ setup.reconnect]]
ConnectFails(s) ==
  /\ At(s, "connecting") /\ Fails(s)
  /\ UNCHANGED <<setup, handler, state, supervisor, connVars, hbVars, disp, start, stop, pc,
                 release, calls>>

\* connect_once() up to the opened barrier; _attach_starting_connection().
Connects(s) ==
  /\ At(s, "connecting")
  /\ \E c \in Connections : conn[c].st = "none"
  /\ LET c == NewConnection
     IN  /\ conn' = [conn EXCEPT ![c].st = "up"]
         /\ sup' = [sup EXCEPT ![s].pc = "opening", ![s].conn = c]
         /\ IF state = "RUNNING" THEN current' = c /\ closedEvent' = FALSE
            ELSE UNCHANGED <<current, closedEvent>>
  /\ UNCHANGED <<setup, handler, state, supervisor, hbVars, disp, start, stop, pc, release, calls>>

\* ConnectionOpenedEvent is queued, or refused by a stopping dispatcher.
OpenedQueued(s) ==
  /\ At(s, "opening")
  /\ GoTo(s, IF disp = "on" THEN "handling" ELSE "abandoned")
  /\ UNCHANGED <<setup, handler, state, supervisor, connVars, hbVars, disp, start, stop, pc,
                 release, calls>>

StartsHeartbeat(c) ==
  IF setup.heartbeat THEN hb' = c /\ beating' = beating \cup {c} ELSE UNCHANGED hbVars

\* connection.start() has returned: the rest of _connect_once().
Connected_Unchecked(s, c, closed) ==
  /\ GoTo(s, IF Running THEN "connected" ELSE "final")
  /\ IF current = c THEN StartsHeartbeat(c) ELSE UNCHANGED hbVars
  /\ UNCHANGED <<current, closedEvent>>
  /\ conn' = IF closed THEN [conn EXCEPT ![c].st = "over"] ELSE conn
Connected(s, c, closed) ==
  LET next == IF Running THEN "connected" ELSE "final"
      dead == closed \/ Closed(c)
      settled == IF closed THEN [conn EXCEPT ![c].st = "over"] ELSE conn
  IN  IF current = c
      THEN /\ GoTo(s, next)
           /\ IF state = "RUNNING" /\ conn[c].st = "up" THEN StartsHeartbeat(c)
              ELSE UNCHANGED hbVars
           /\ conn' = settled /\ UNCHANGED <<current, closedEvent>>
      ELSE IF state # "RUNNING" \/ dead
      THEN /\ GoTo(s, IF dead THEN next ELSE "closing")
           /\ conn' = IF conn[c].st = "up" THEN [conn EXCEPT ![c].st = "closing"] ELSE settled
           /\ closedEvent' = (closedEvent \/ dead)
           /\ UNCHANGED <<current, hbVars>>
      ELSE /\ GoTo(s, next)
           /\ current' = c /\ closedEvent' = FALSE
           /\ StartsHeartbeat(c)
           /\ conn' = settled

\* The opened barrier is over; a close deferred to it is published first.
OpenedHandled(s) ==
  /\ At(s, "handling") /\ handler = "none"
  /\ IF conn[sup[s].conn].st = "deferred"
     THEN GoTo(s, "handoff") /\ UNCHANGED <<connVars, hbVars>>
     ELSE Connected(s, sup[s].conn, FALSE)
  /\ UNCHANGED <<setup, handler, state, supervisor, disp, start, stop, pc, release, calls>>

DeferredClosePublished(s) ==
  /\ At(s, "handoff")
  /\ Connected(s, sup[s].conn, TRUE)
  /\ UNCHANGED <<setup, handler, state, supervisor, disp, start, stop, pc, release, calls>>

\* connection.start() failed or was cancelled: the connection is closed, and
\* the exception goes on.
Abandons(s) ==
  LET c == sup[s].conn
  IN  /\ At(s, "abandoned")
      /\ \/ /\ conn[c].st \in {"up", "deferred"}
            /\ conn' = [conn EXCEPT ![c].st = IF @ = "up" THEN "closing" ELSE "over"]
            /\ UNCHANGED sup
         \/ /\ conn[c].st = "over"
            /\ IF sup[s].cancelled THEN GoTo(s, "final") ELSE Fails(s)
            /\ UNCHANGED conn
      /\ UNCHANGED <<setup, handler, state, supervisor, current, closedEvent, hbVars, disp,
                     start, stop, pc,
                     release, calls>>

\* A connection that stop() could not see is closed by the supervisor.
ClosesItself(s) ==
  /\ At(s, "closing") /\ conn[sup[s].conn].st = "over"
  /\ closedEvent' = TRUE
  /\ GoTo(s, IF Running THEN "connected" ELSE "final")
  /\ UNCHANGED <<setup, handler, state, supervisor, current, conn, hbVars, disp, start, stop, pc,
                 release,
                 calls>>

\* _await_connection_termination() and the plan for the next attempt.
NoticesClose(s) ==
  /\ At(s, "connected") /\ closedEvent
  /\ closedEvent' = FALSE
  /\ GoTo(s, IF current # "none" /\ ~Closed(current) /\ Running THEN "connected"
             ELSE IF Running /\ setup.reconnect THEN "scheduled" ELSE "final")
  /\ UNCHANGED <<setup, handler, state, supervisor, current, conn, hbVars, disp, start, stop, pc,
                 release,
                 calls>>

\* The failure events are out: _teardown_after_failure(), then retry or stop.
TearsDownAfterFailure(s) ==
  /\ At(s, "failed") /\ GoTo(s, "failing")
  /\ ReleaseBegins(s)
  /\ UNCHANGED <<setup, handler, state, supervisor, disp, start, stop, pc, calls>>

DecidesRetry(s) ==
  /\ At(s, "failing") /\ Released(s)
  /\ ReleaseOver(s)
  /\ GoTo(s, IF release[s].at = "released" /\ ~setup.failFast /\ Running /\ sup[s].retry
             THEN "scheduled" ELSE "final")
  /\ UNCHANGED <<setup, handler, state, supervisor, connVars, hbVars, disp, start, stop, pc, calls>>

\* _finalize_supervision()
Finalizes(s) ==
  /\ At(s, "final") /\ GoTo(s, "finishing")
  /\ ReleaseBegins(s)
  /\ UNCHANGED <<setup, handler, state, supervisor, disp, start, stop, pc, calls>>

\* _stop_dispatcher(): left to an explicit stop if there is one.
StopsDispatcher(s) ==
  IF stop.phase # "none" \/ disp = "off" THEN GoTo(s, "done") /\ UNCHANGED disp
  ELSE GoTo(s, "draining") /\ disp' = "stopping"

\* STOPPING and STOPPED are applied at once, then published.
EndsSupervision(s) ==
  /\ At(s, "finishing") /\ Released(s)
  /\ ReleaseOver(s)
  /\ IF release[s].at = "released" /\ stop.phase = "none" /\ state # "STOPPED"
     THEN state' = "STOPPED" /\ GoTo(s, "told") /\ UNCHANGED disp
     ELSE StopsDispatcher(s) /\ UNCHANGED state
  /\ UNCHANGED <<setup, handler, supervisor, connVars, hbVars, start, stop, pc, calls>>

TerminalTold(s) ==
  /\ At(s, "told")
  /\ StopsDispatcher(s)
  /\ UNCHANGED <<setup, handler, state, supervisor, connVars, hbVars, start, stop, pc, release,
                 calls>>

-----------------------------------------------------------------------------
(***************************************************************************)
(* start().                                                                 *)
(***************************************************************************)
\* No call is under way, and no task of an earlier life is left.
Quiet == stop.phase = "none" /\ disp = "off" /\ start.pc = "idle"
         /\ \A s \in Supervisors : sup[s].pc \in {"unborn", "done"}

\* From STOPPING the transition to STARTING is illegal, and raises.
StartCalled ==
  /\ start.pc = "idle" /\ calls.starts < setup.starts
  /\ setup.overlap \/ Quiet
  /\ state \in {"STOPPED", "STOPPING"}
  /\ \E s \in Supervisors : At(s, "unborn")
  /\ calls' = [calls EXCEPT !.starts = @ + 1]
  /\ disp' = IF disp = "off" THEN "on" ELSE disp
  /\ IF state = "STOPPED" THEN state' = "STARTING" /\ start' = [start EXCEPT !.pc = "starting"]
     ELSE UNCHANGED <<state, start>>
  /\ UNCHANGED <<setup, handler, supVars, connVars, hbVars, stop, pc, release>>

\* _rollback_failed_startup()
RollsBack ==
  /\ start' = [pc |-> "rollback", sup |-> supervisor]
  /\ supervisor' = "none"
  /\ state' = IF Running THEN "STOPPED" ELSE state
  /\ Cancel(supervisor)

\* The STARTING event is queued, or refused by a stopping dispatcher.
StartingQueued ==
  /\ start.pc = "starting"
  /\ IF disp = "on"
     THEN start' = [start EXCEPT !.pc = "handling"] /\ UNCHANGED <<state, supVars>>
     ELSE RollsBack
  /\ UNCHANGED <<setup, handler, connVars, hbVars, disp, stop, pc, release, calls>>

StartingHandled ==
  /\ start.pc = "handling" /\ handler = "none"
  /\ IF state = "STARTING"
     THEN /\ state' = "RUNNING"
          /\ start' = [start EXCEPT !.pc = "running"]
          /\ GoTo(NewSupervisor, "new")
          /\ supervisor' = NewSupervisor
     ELSE /\ start' = [start EXCEPT !.pc = IF stop.phase = "none" THEN "idle" ELSE "join"]
          /\ UNCHANGED <<state, supVars>>
  /\ UNCHANGED <<setup, handler, connVars, hbVars, disp, stop, pc, release, calls>>

RunningTold ==
  /\ start.pc = "running"
  /\ start' = [start EXCEPT !.pc = "idle"]
  /\ UNCHANGED <<setup, handler, state, supVars, connVars, hbVars, disp, stop, pc, release, calls>>

\* A cancelled barrier is awaited to its end.
StartCancelled ==
  /\ calls.cancels < setup.cancels
  /\ calls' = [calls EXCEPT !.cancels = @ + 1]
  /\ \/ start.pc \in {"starting", "running"} /\ RollsBack
     \/ /\ start.pc \in {"handling", "join"}
        /\ start' = [start EXCEPT !.pc = IF @ = "join" THEN "idle" ELSE "doomed"]
        /\ UNCHANGED <<state, supVars>>
  /\ UNCHANGED <<setup, handler, connVars, hbVars, disp, stop, pc, release>>

StartDoomed ==
  /\ start.pc = "doomed" /\ RollsBack
  /\ UNCHANGED <<setup, handler, connVars, hbVars, disp, stop, pc, release, calls>>

RollbackReleases ==
  /\ start.pc = "rollback" /\ SupDone(start.sup)
  /\ start' = [start EXCEPT !.pc = "releasing"]
  /\ ReleaseBegins("start")
  /\ UNCHANGED <<setup, handler, state, supVars, disp, stop, pc, calls>>

RollbackStopsDispatcher ==
  /\ start.pc = "releasing" /\ Released("start")
  /\ ReleaseOver("start")
  /\ start' = [pc |-> IF disp = "off" THEN "idle" ELSE "draining", sup |-> "none"]
  /\ disp' = IF disp = "off" THEN "off" ELSE "stopping"
  /\ UNCHANGED <<setup, handler, state, supVars, connVars, hbVars, stop, pc, calls>>

-----------------------------------------------------------------------------
(***************************************************************************)
(* stop().                                                                  *)
(***************************************************************************)
Idle(k) == pc[k] \in {"idle", "returned", "raised"}

FullyStopped == state = "STOPPED" /\ supervisor = "none" /\ hb = "none" /\ current = "none"
                /\ disp = "off"

\* The plan for a client that is stopped or stopping but holds something.
PlansRest(byHandler) ==
  LET left == IF SupDone(supervisor) THEN "none" ELSE supervisor
  IN  /\ stop' = [NoStop EXCEPT !.phase = "supervisor", !.sup = left, !.dispatcher = disp # "off",
                                !.handler = byHandler]
      /\ supervisor' = left
      /\ UNCHANGED state

PlansStop ==
  /\ stop' = [NoStop EXCEPT !.phase = "stopping", !.sup = supervisor, !.dispatcher = TRUE,
                            !.transition = TRUE]
  /\ supervisor' = "none"
  /\ state' = "STOPPING"

StopCalled(k) ==
  /\ Idle(k) /\ calls.stops < setup.stops
  /\ k = CHOOSE i \in Stoppers : Idle(i)
  /\ calls' = [calls EXCEPT !.stops = @ + 1]
  /\ IF stop.phase # "none" \/ FullyStopped
     THEN /\ pc' = [pc EXCEPT ![k] = IF stop.phase # "none" THEN "join" ELSE "returned"]
          /\ UNCHANGED <<stop, state, supervisor>>
     ELSE /\ pc' = [pc EXCEPT ![k] = "own"]
          /\ IF Running THEN PlansStop ELSE PlansRest(FALSE)
  /\ UNCHANGED <<setup, handler, sup, connVars, hbVars, disp, start, release>>

\* A handler calls stop(): it does not await the supervisor, and cancels it, when
\* the rest is done, unless that is in a connection.start() which will notice.
\* (If there is a stop, the handler just returns.)
StartupInProgress == current # "none" /\ Opening(current)
HandlerStops ==
  /\ handler # "none" /\ stop.phase = "none"
  /\ IF Running
     THEN /\ stop' = [NoStop EXCEPT !.phase = "release", !.sup = supervisor, !.dispatcher = TRUE,
                                   !.handler = TRUE, !.transition = TRUE,
                                   !.cancel = supervisor # "none" /\ ~StartupInProgress]
          /\ supervisor' = "none" /\ state' = "STOPPING"
          /\ ReleaseBegins("handler")
     ELSE PlansRest(TRUE) /\ UNCHANGED <<connVars, hbVars, release>>
  /\ UNCHANGED <<setup, handler, sup, disp, start, pc, calls>>

\* STOPPING is out: _await_or_cancel_supervisor().
StoppingTold ==
  /\ stop.phase = "stopping"
  /\ stop' = [stop EXCEPT !.phase = "supervisor"]
  /\ Cancel(stop.sup)
  /\ UNCHANGED <<setup, handler, state, supervisor, connVars, hbVars, disp, start, pc, release,
                 calls>>

Releaser == IF stop.handler THEN "handler" ELSE "stop"
SupervisorGone_Unawaited ==
  /\ stop.phase = "supervisor"
  /\ supervisor' = IF supervisor = stop.sup THEN "none" ELSE supervisor
  /\ stop' = [stop EXCEPT !.phase = "release"]
  /\ ReleaseBegins(Releaser)
  /\ UNCHANGED <<setup, handler, state, sup, disp, start, pc, calls>>
SupervisorGone ==
  /\ stop.phase = "supervisor" /\ SupDone(stop.sup)
  /\ supervisor' = IF supervisor = stop.sup THEN "none" ELSE supervisor
  /\ stop' = [stop EXCEPT !.phase = "release"]
  /\ ReleaseBegins(Releaser)
  /\ UNCHANGED <<setup, handler, state, sup, disp, start, pc, calls>>

\* _finish_stop_with_dispatcher(): dispatcher.stop(), awaited.
FinishesWithDispatcher ==
  IF disp = "off" THEN Completed(stop.error) /\ UNCHANGED disp
  ELSE /\ stop' = [stop EXCEPT !.phase = "draining"]
       /\ disp' = "stopping"
       /\ UNCHANGED <<pc, start>>

ResourcesReleased ==
  /\ stop.phase = "release" /\ ~stop.handler /\ Released("stop")
  /\ ReleaseOver("stop")
  /\ IF ~stop.dispatcher
     THEN Completed(stop.error) /\ UNCHANGED <<state, disp>>
     ELSE /\ state' = IF state = "STOPPING" THEN "STOPPED" ELSE state
          /\ IF state = "STOPPING" /\ ~stop.error
             THEN stop' = [stop EXCEPT !.phase = "stopped"] /\ UNCHANGED <<disp, pc, start>>
             ELSE FinishesWithDispatcher
  /\ UNCHANGED <<setup, handler, supVars, connVars, hbVars, calls>>

\* What a handler's stop() does in the end: the dispatcher stops, and drops what is
\* queued, barriers included.  A task of its own does the rest.
Dropped(s) == At(s, "handling") /\ handler # sup[s].conn
HandlerStopsDispatcher ==
  /\ stop.phase = "release" /\ stop.handler /\ Released("handler")
  /\ ReleaseOver("handler")
  /\ state' = IF state = "STOPPING" THEN "STOPPED" ELSE state
  /\ stop' = [stop EXCEPT !.phase = "handlers"]
  /\ disp' = "stopping"
  /\ sup' = [s \in Supervisors |->
              IF s = stop.sup /\ stop.cancel /\ ~SupDone(s) THEN AfterCancel(s)
              ELSE IF Dropped(s) THEN [sup[s] EXCEPT !.pc = "abandoned"] ELSE sup[s]]
  /\ UNCHANGED <<setup, handler, supervisor, connVars, hbVars, start, pc, calls>>

\* The task that finishes it: the handlers return, STOPPING is published, then the
\* connection's event is out and the supervisor has ended.
FinisherRuns ==
  /\ \/ /\ stop.phase = "handlers" /\ handler = "none"
        /\ stop' = [stop EXCEPT !.phase = IF stop.transition THEN "telling" ELSE "closes"]
        /\ UNCHANGED <<disp, pc, start>>
     \/ /\ stop.phase = "telling"
        /\ stop' = [stop EXCEPT !.phase = "closes"]
        /\ UNCHANGED <<disp, pc, start>>
     \/ /\ stop.phase = "closes" /\ SupDone(stop.sup)
        /\ stop.conn # "none" => conn[stop.conn].st = "over"
        /\ IF stop.transition
           THEN stop' = [stop EXCEPT !.phase = "stopped"] /\ UNCHANGED <<disp, pc, start>>
           ELSE FinishesWithDispatcher
  /\ UNCHANGED <<setup, handler, state, supVars, connVars, hbVars, release, calls>>

StoppedTold ==
  /\ stop.phase = "stopped"
  /\ FinishesWithDispatcher
  /\ UNCHANGED <<setup, handler, state, supVars, connVars, hbVars, release, calls>>

\* Who joined leaves; the owner keeps the error and goes on, except in its last
\* await, of the worker.
StopperCancelled(k) ==
  /\ calls.cancels < setup.cancels
  /\ calls' = [calls EXCEPT !.cancels = @ + 1]
  /\ \/ /\ pc[k] = "join"
        /\ pc' = [pc EXCEPT ![k] = "raised"]
        /\ UNCHANGED <<stop, start>>
     \/ /\ pc[k] = "own" /\ stop.phase # "draining" /\ ~stop.error
        /\ stop' = [stop EXCEPT !.error = TRUE]
        /\ UNCHANGED <<pc, start>>
     \/ /\ pc[k] = "own" /\ stop.phase = "draining"
        /\ Completed(TRUE)
  /\ UNCHANGED <<setup, handler, state, supVars, connVars, hbVars, disp, release>>

-----------------------------------------------------------------------------
\* What the event loop must run: every step but the inputs.
ReleaseStep(t) == HeartbeatGone(t) \/ ConnectionGone(t)
SupervisorStep(s) ==
  \/ SupervisorRuns(s) \/ OpenedQueued(s) \/ OpenedHandled(s) \/ DeferredClosePublished(s)
  \/ Abandons(s) \/ ClosesItself(s) \/ NoticesClose(s) \/ TearsDownAfterFailure(s)
  \/ DecidesRetry(s) \/ Finalizes(s) \/ EndsSupervision(s) \/ TerminalTold(s) \/ ReleaseStep(s)

StartStep == \/ StartingQueued \/ StartingHandled \/ RunningTold \/ StartDoomed
             \/ RollbackReleases \/ RollbackStopsDispatcher \/ ReleaseStep("start")
StopStep == \/ StoppingTold \/ SupervisorGone \/ ResourcesReleased \/ StoppedTold
            \/ ReleaseStep("stop") \/ ReleaseStep("handler")
            \/ HandlerStopsDispatcher \/ FinisherRuns
CloseStep(c) == ClosedCallback(c) \/ CallbackReturns(c) \/ ClosedPublished(c)

Next ==
  \/ \E s \in Supervisors : SupervisorStep(s) \/ Connects(s) \/ ConnectFails(s)
  \/ \E c \in Connections : CloseStep(c) \/ ConnectionDies(c) \/ HeartbeatEnds(c)
  \/ \E k \in Stoppers : StopCalled(k) \/ StopperCancelled(k)
  \/ \E h \in Connections \cup {"event"} : HandlerBegins(h)
  \/ StartStep \/ StartCalled \/ StartCancelled \/ StopStep \/ WorkerExits
  \/ HandlerStops \/ HandlerReturns

Spec == Init /\ [][Next]_vars

\* Ready tasks run, handlers return, a cancelled heartbeat ends; a connect
\* attempt ends one way or the other, or is cancelled.
Fairness ==
  /\ \A s \in Supervisors : WF_vars(SupervisorStep(s))
  /\ \A c \in Connections : WF_vars(CloseStep(c)) /\ WF_vars(hb # c /\ HeartbeatEnds(c))
  /\ WF_vars(StartStep) /\ WF_vars(StopStep) /\ WF_vars(WorkerExits)
  /\ WF_vars(HandlerReturns)

FairSpec == Spec /\ Fairness

-----------------------------------------------------------------------------
(***************************************************************************)
(* Properties.                                                              *)
(***************************************************************************)
\* Every variable has its type.
TypeOK ==
  /\ setup \in Setups
  /\ state \in {"STOPPED", "STARTING", "RUNNING", "STOPPING"}
  /\ supervisor \in Supervisors \cup {"none"}
  /\ sup \in [Supervisors -> [pc : SupStates, conn : Connections \cup {"none"}, retry : BOOLEAN,
                              cancelled : BOOLEAN]]
  /\ current \in Connections \cup {"none"} /\ hb \in Connections \cup {"none"}
  /\ conn \in [Connections -> [st : ConnStates, beat : Connections \cup {"none"}, inline : BOOLEAN]]
  /\ beating \subseteq Connections /\ closedEvent \in BOOLEAN
  /\ disp \in {"off", "on", "stopping"} /\ handler \in Connections \cup {"none", "event"}
  /\ start \in [pc : StartStates, sup : Supervisors \cup {"none"}]
  /\ stop \in [phase : StopPhases, sup : Supervisors \cup {"none"},
               dispatcher : BOOLEAN, error : BOOLEAN, handler : BOOLEAN, transition : BOOLEAN,
               cancel : BOOLEAN, conn : Connections \cup {"none"}]
  /\ pc \in [Stoppers -> CallStates]
  /\ release \in [Releasers -> [at : {"no", "released", "aborted"}, of : {"none"}]
                               \cup [at : {"heartbeat", "close"}, of : Connections]]
  /\ calls \in [starts : Nat, stops : Nat, cancels : Nat, handled : Nat]

\* No connection is connected that nobody would close: it is the client's, or
\* the supervisor that opened it is still at it.
ConnectionsOwned ==
  \A c \in Connections :
    conn[c].st = "up" => \/ current = c
                         \/ \E s \in Supervisors :
                              /\ sup[s].conn = c
                              /\ sup[s].pc \in {"opening", "handling", "handoff", "abandoned"}

\* No heartbeat task is left alone: it is the client's, or some task has
\* cancelled it and awaits its end.
HeartbeatsOwned ==
  \A c \in beating : \/ hb = c
                     \/ \E t \in Releasers : release[t] = [at |-> "heartbeat", of |-> c]
                     \/ \E d \in Connections : conn[d].st = "callback" /\ conn[d].beat = c

\* The close callback of one connection never takes the heartbeat of another.
HeartbeatOfCurrent ==
  \A s \in Supervisors :
    /\ ~setup.overlap
    /\ sup[s].pc = "connected" /\ supervisor = s /\ setup.heartbeat
    /\ current # "none" /\ conn[current].st = "up"
    => hb = current

\* Whatever the interleaving of start(), stop(), peers, failures and
\* cancellations, the client keeps track of what it owns.
EverythingOwned == ConnectionsOwned /\ HeartbeatsOwned /\ HeartbeatOfCurrent

\* A stop() that returns normally leaves nothing behind: no supervisor, no
\* connection, no heartbeat, no dispatcher, unless it met a start() that rolls
\* back: then the supervisor that start() has cancelled may still be ending.
RollingBack == start.pc \in {"rollback", "releasing", "draining"}
Returns(k) == pc[k] # "returned" /\ pc'[k] = "returned"
StopLeavesNothing ==
  [][\A k \in Stoppers : Returns(k) /\ ~setup.overlap /\ ~RollingBack =>
       /\ state' = "STOPPED" /\ disp' = "off" /\ hb' = "none" /\ current' = "none"
       /\ \A s \in Supervisors : sup'[s].pc \in {"unborn", "done"}
       /\ \A c \in Connections : conn'[c].st # "up"]_vars

\* stop() returns, and so does start(); also the stop() of a handler, on whose
\* return everything depends, unless the supervisor may have ended by itself.
CallsReturn ==
  setup.handled = 0 \/ (setup.reconnect /\ ~setup.failFast) =>
    /\ \A k \in Stoppers : ~Idle(k) ~> Idle(k)
    /\ start.pc # "idle" ~> start.pc = "idle"
    /\ InStop ~> ~InStop

\* The supervisor notices that its connection is gone, and reconnects or ends.
ClosedIsNoticed ==
  \A s \in Supervisors : sup[s].pc = "connected" /\ current = "none" ~> sup[s].pc # "connected"

\* A handler may stop the client whenever it is called (docs/lifecycle.md: the events
\* "can be published after that handler unwinds.  This avoids self-deadlock").
HandlerStopReturns == InStop ~> ~InStop

\* When stop() returns, every connection's ConnectionClosedEvent has been
\* published (docs/lifecycle.md: "Publish connection close events before stop
\* is considered complete").
ClosedBeforeStopReturns ==
  [][\A k \in Stoppers : Returns(k) =>
       \A c \in Connections : conn'[c].st \in {"none", "over"}]_vars
=============================================================================
