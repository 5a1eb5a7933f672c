--------------------------- MODULE DatagramReceiver ---------------------------
(***************************************************************************)
(* _AsyncioDatagramReceiverBase (_asyncio_datagram_receiver_base.py), the   *)
(* life cycle shared by the UDP and the multicast receiver: start() with    *)
(* its two barriers and its rollbacks, the receive loop, and stop() in its  *)
(* ordinary and its deferred form, with the deferred ConnectionClosedEvent. *)
(*                                                                          *)
(* Nothing suspends while _state_lock is held, so it is never contended.  A *)
(* task keeps its turn until it suspends: an action is one stretch of its   *)
(* code, and while Continues(t) holds no other task takes a step.  The      *)
(* dispatcher is the one of module EventDispatcher as its only component    *)
(* sees it: a bounded queue under BLOCK and a worker, or inline delivery.   *)
(***************************************************************************)
EXTENDS Integers, Sequences, FiniteSets

CONSTANTS
  Stoppers,        \* tasks outside any handler that call stop()
  Setups,          \* the applications the receiver may be part of
  QueueBound,      \* max_pending_events
  StartBound,      \* bound: calls of start()
  DatagramBound,   \* bound: datagrams received
  StopBound        \* bound: calls of stop() by stoppers and handlers

Callers == Stoppers \cup {"starter", "receiver"}
Tasks == Callers \cup {"worker", "completer", "handoff"}

ASSUME TaskAssumption ==
  /\ IsFiniteSet(Stoppers)
  /\ Stoppers \cap {"starter", "receiver", "worker", "completer", "handoff"} = {}
ASSUME SetupAssumption ==
  Setups \subseteq [mode : {"INLINE", "BACKGROUND"},  \* the dispatch mode
                   stops : BOOLEAN,    \* the handler may call stop()
                   raises : BOOLEAN,   \* it may raise, under RAISE_IN_INLINE_MODE
                   cancel : BOOLEAN,   \* calls of start() and stop() may be cancelled
                   overlap : BOOLEAN]  \* start() may be called while a stop is under way
ASSUME BoundAssumption == /\ QueueBound \in Nat \ {0}
                          /\ {StartBound, DatagramBound, StopBound} \subseteq Nat

VARIABLES
  setup,       \* what the application does; fixed
  state,       \* lifecycle_state
  running,     \* running
  sock,        \* sock is set
  task,        \* task is set
  stop,        \* the owned stop: stop_waiter, stop_owner_task, snapshot, position
  opening,     \* opening_event_task is set
  deferred,    \* deferred_close_event is set
  waiter,      \* deferred_close_event_waiter: "none" or "pending"
  handoff,     \* the task start() publishes a deferred close in
  start,       \* where start() is
  recv,        \* where _receive_datagrams() is
  pc,          \* caller -> where its call of stop() is
  handler,     \* task -> the event the user handler is running for on it
  blocked,     \* task -> the event it waits to enqueue
  failed,      \* task -> an exception it is about to see
  barrier,     \* start() awaits the `handled' future of its event
  queue, worker, stopping,  \* the dispatcher: _queue, _worker_task, _stopping
  turn,        \* the task that has not suspended yet, or "none"
  sweeper,     \* a deferred completion without a waiter is to stop the dispatcher
  ghost        \* history that no code reads, and what bounds the inputs

runtimeVars == <<state, running, sock, task>>
closeVars == <<opening, deferred, waiter>>
taskVars == <<start, recv, handoff>>
emitVars == <<handler, blocked, failed, barrier, queue, ghost>>
workerVars == <<worker, stopping, sweeper>>

vars == <<setup, runtimeVars, stop, closeVars, taskVars, pc, emitVars, workerVars, turn>>

-----------------------------------------------------------------------------
\* ComponentLifecycleChangedEvents by their new state, the connection's
\* events, and payload.
Payload == {"bytes", "error"}
Events == {"STARTING", "RUNNING", "opened", "STOPPING", "closed", "STOPPED"} \cup Payload
Rank == [STARTING |-> 1, RUNNING |-> 2, opened |-> 3, STOPPING |-> 4, closed |-> 5,
         STOPPED |-> 6]

Lifecycle == {"STOPPED", "STARTING", "RUNNING", "STOPPING"}
Phases == {"none", "teardown", "reader", "context", "close", "waiter", "stopped", "drain",
           "draining", "drained"}
StartStates == {"idle", "starting", "running", "opened", "handoff", "doomed", "stopping", "again",
                "join", "failing", "draining"}
ReceiverStates == {"none", "reading", "emitted", "failing", "stopping", "cancelled", "done"}
CallStates == {"idle", "own", "join", "drain", "returned", "raised"}

\* stop.owner is stop_owner_task, stop.by the task that executes the plan.
NoStop == [phase |-> "none", owner |-> "worker", by |-> "worker", deferred |-> FALSE,
           cancels |-> FALSE, sock |-> FALSE, closes |-> FALSE, event |-> FALSE,
           error |-> FALSE]

Init ==
  /\ setup \in Setups
  /\ state = "STOPPED" /\ running = FALSE /\ sock = FALSE /\ task = FALSE
  /\ stop = NoStop
  /\ opening = FALSE /\ deferred = FALSE /\ waiter = "none"
  /\ handoff = "none" /\ start = "idle" /\ recv = "none"
  /\ pc = [t \in Callers |-> "idle"]
  /\ handler = [t \in Tasks |-> "none"]
  /\ blocked = [t \in Tasks |-> "none"]
  /\ failed = [t \in Tasks |-> FALSE]
  /\ barrier = FALSE
  /\ queue = <<>> /\ worker = "none" /\ stopping = FALSE /\ sweeper = FALSE
  /\ turn = "none"
  /\ ghost = [starts |-> 0, datagrams |-> 0, stops |-> 0, open |-> 0, told |-> {},
              disorder |-> FALSE]

-----------------------------------------------------------------------------
(***************************************************************************)
(* The dispatcher.                                                          *)
(***************************************************************************)
Background == setup.mode = "BACKGROUND"

\* current_task_would_deliver_inline(): the publications of a deferred close
\* and of a deferred stop run in an inline_delivery_context().
DeliversInline(t) == ~Background \/ t = "handoff"
                     \/ (t = "completer" /\ stop.deferred)

\* has_active_handler_context()
ActiveHandler == \E t \in Tasks : handler[t] # "none"

\* emit_and_wait() rather than emit(); only start() uses it.
IsBarrier(e) == e \in {"STARTING", "opened"}

\* ghost.told is what this life of the receiver has shown
\* its handler; ghost.disorder is set when an event comes out of turn.  STOPPING
\* keeps no order with the connection's events: a blocked opened event comes
\* after it, a closed event that is not queued before it.
Unordered(e, f) == "STOPPING" \in {e, f} /\ {"opened", "closed"} \cap {e, f} # {}

InTurn(e, told) ==
  IF e \in Payload THEN "opened" \in told /\ told \cap {"closed", "STOPPED"} = {}
  ELSE e = "STARTING" \/ \A f \in told : Rank[f] < Rank[e] \/ Unordered(e, f)

\* A delivery begins.
Begun(e, g) ==
  [g EXCEPT !.disorder = @ \/ ~InTurn(e, g.told),
            !.told = CASE e = "STARTING" -> {e}
                       [] e \in Payload -> @
                       [] OTHER -> @ \cup {e}]

\* Task t emits nothing and goes on; what it had to see it has seen.
EmitsNothing(t, g) ==
  /\ failed' = [failed EXCEPT ![t] = FALSE]
  /\ ghost' = g
  /\ UNCHANGED <<handler, blocked, barrier, queue>>

\* Task t emits e; g is the history so far.
EmitIf_Unbounded(t, e, g, accepting) ==
  IF DeliversInline(t)
  THEN /\ handler' = [handler EXCEPT ![t] = e]
       /\ failed' = [failed EXCEPT ![t] = FALSE]
       /\ ghost' = Begun(e, g)
       /\ UNCHANGED <<blocked, barrier, queue>>
  ELSE /\ failed' = [failed EXCEPT ![t] = ~accepting /\ IsBarrier(e)]
       /\ ghost' = g
       /\ queue' = IF accepting THEN Append(queue, e) ELSE queue
       /\ barrier' = (barrier \/ (accepting /\ IsBarrier(e)))
       /\ UNCHANGED <<handler, blocked>>
EmitIf(t, e, g, accepting) ==
  IF DeliversInline(t)
  THEN /\ handler' = [handler EXCEPT ![t] = e]
       /\ failed' = [failed EXCEPT ![t] = FALSE]
       /\ ghost' = Begun(e, g)
       /\ UNCHANGED <<blocked, barrier, queue>>
  ELSE /\ failed' = [failed EXCEPT ![t] = ~accepting /\ IsBarrier(e)]
       /\ ghost' = g
       /\ IF accepting /\ Len(queue) < QueueBound
          THEN /\ queue' = Append(queue, e)
               /\ barrier' = (barrier \/ IsBarrier(e))
               /\ UNCHANGED <<handler, blocked>>
          ELSE /\ blocked' = [blocked EXCEPT ![t] = IF accepting THEN e ELSE "none"]
               /\ UNCHANGED <<handler, barrier, queue>>

Emit(t, e, g) == EmitIf(t, e, g, ~stopping)

\* A producer waits for space no longer: there is room, or a stop releases it.
Unblocked(t) ==
  /\ blocked[t] # "none"
  /\ stopping \/ Len(queue) < QueueBound
  /\ blocked' = [blocked EXCEPT ![t] = "none"]
  /\ failed' = [failed EXCEPT ![t] = stopping /\ IsBarrier(blocked[t])]
  /\ queue' = IF stopping THEN queue ELSE Append(queue, blocked[t])
  /\ barrier' = (barrier \/ (~stopping /\ IsBarrier(blocked[t])))
  /\ UNCHANGED <<setup, runtimeVars, stop, closeVars, taskVars, pc, handler, ghost, workerVars>>

\* Task t is not suspended in an emit.
Ready(t) == handler[t] = "none" /\ blocked[t] = "none" /\ (t = "starter" => ~barrier)

\* The worker, roused from its sleep, takes the oldest event.
WorkerTakes ==
  /\ worker = "run" /\ handler["worker"] = "none" /\ queue # <<>>
  /\ handler' = [handler EXCEPT !["worker"] = Head(queue)]
  /\ queue' = Tail(queue)
  /\ ghost' = Begun(Head(queue), ghost)
  /\ UNCHANGED <<setup, runtimeVars, stop, closeVars, taskVars, pc, blocked, failed, barrier,
                 workerVars>>

\* The outcome of a call is remembered for the outside callers only.
Outcome(t, o) == IF t \in Stoppers THEN o ELSE "idle"

\* The worker has drained the queue and ends; who awaits it in
\* dispatcher.stop() goes on.
WorkerExits ==
  /\ worker = "run" /\ stopping /\ queue = <<>> /\ handler["worker"] = "none"
  /\ worker' = "none"
  /\ stop' = [stop EXCEPT !.phase = IF @ = "draining" THEN "drained" ELSE @]
  /\ pc' = [t \in Callers |-> IF pc[t] = "drain" THEN Outcome(t, "returned") ELSE pc[t]]
  /\ start' = IF start = "draining" THEN "idle" ELSE start
  /\ UNCHANGED <<setup, runtimeVars, closeVars, recv, handoff, emitVars, stopping,
                 sweeper>>

\* stop_from_handler_origin(): what is queued is dropped, nobody is awaited.
DropsQueue ==
  LET drops == Background /\ \E i \in 1..Len(queue) : IsBarrier(queue[i])
  IN  /\ stopping' = (stopping \/ Background)
      /\ queue' = IF Background THEN <<>> ELSE queue
      /\ barrier' = (barrier /\ ~drops)
      /\ failed' = [failed EXCEPT !["starter"] = @ \/ drops]

-----------------------------------------------------------------------------
(***************************************************************************)
(* stop(): _plan_stop_snapshot() and what its verdict leads to.  An       *)
(* operator whose name has a suffix (X_Suffix) is X with one seeded fault;  *)
(* no action uses it.                                                       *)
(***************************************************************************)
FullyStopped == ~running /\ ~sock /\ state = "STOPPED"

Plan_KeepsTask(t, defers, cancels) ==
  /\ stop' = [phase |-> "teardown", owner |-> t, by |-> t, deferred |-> defers,
              cancels |-> FALSE, sock |-> sock,
              closes |-> state # "STARTING", event |-> state # "STOPPING", error |-> FALSE]
  /\ state' = "STOPPING"
  /\ running' = FALSE /\ sock' = FALSE /\ task' = FALSE
Plan(t, defers, cancels) ==
  /\ stop' = [phase |-> "teardown", owner |-> t, by |-> t, deferred |-> defers,
              cancels |-> cancels /\ task /\ t # "receiver", sock |-> sock,
              closes |-> state # "STARTING", event |-> state # "STOPPING", error |-> FALSE]
  /\ state' = "STOPPING"
  /\ running' = FALSE /\ sock' = FALSE /\ task' = FALSE

\* dispatcher.stop() by a caller that owns no stop.
StopsDispatcher(t) ==
  /\ stopping' = (stopping \/ Background)
  /\ pc' = [pc EXCEPT ![t] = IF worker = "run" THEN "drain" ELSE Outcome(t, "returned")]

\* Task t calls stop() outside any handler; g is the history so far.
CallStop(t, g) ==
  LET active == ActiveHandler /\ DeliversInline(t)
  IN  \/ /\ stop.phase # "none"
         /\ pc' = [pc EXCEPT ![t] = IF stop.owner = t THEN Outcome(t, "returned") ELSE "join"]
         /\ EmitsNothing(t, g)
         /\ UNCHANGED <<runtimeVars, stop, stopping>>
      \/ /\ stop.phase = "none" /\ FullyStopped
         /\ StopsDispatcher(t)
         /\ EmitsNothing(t, g)
         /\ UNCHANGED <<runtimeVars, stop>>
      \/ /\ stop.phase = "none" /\ ~FullyStopped
         /\ Plan(t, active, ~active)
         /\ pc' = [pc EXCEPT ![t] = "own"]
         /\ IF active \/ state = "STOPPING" THEN EmitsNothing(t, g) ELSE Emit(t, "STOPPING", g)
         /\ UNCHANGED stopping

Idle(t) == pc[t] \in {"idle", "returned", "raised"}

StopCalled(c) ==
  /\ Idle(c)
  /\ ghost.stops < StopBound
  /\ CallStop(c, [ghost EXCEPT !.stops = @ + 1])
  /\ UNCHANGED <<setup, closeVars, taskVars, worker, sweeper>>

\* The handler on t is suspended in its own call of stop().
InTeardown(t) == stop.deferred /\ stop.by = t /\ stop.phase \in {"teardown", "reader"}

\* The handler on t calls stop(): it owns a deferred stop, or finds one.
HandlerStops(t) ==
  /\ setup.stops
  /\ handler[t] # "none" /\ ~InTeardown(t)
  /\ ghost.stops < StopBound
  /\ ghost' = [ghost EXCEPT !.stops = @ + 1]
  /\ \/ /\ stop.phase = "none" /\ ~FullyStopped
        /\ Plan(t, TRUE, TRUE)
        /\ UNCHANGED <<failed, barrier, queue, stopping, sweeper>>
     \/ /\ IF stop.phase = "none" THEN FullyStopped ELSE stop.owner = t
        /\ DropsQueue
        /\ sweeper' = (sweeper \/ (Background /\ stop.phase = "none"))
        /\ UNCHANGED <<runtimeVars, stop>>
  /\ UNCHANGED <<setup, closeVars, taskVars, pc, handler, blocked, worker>>

-----------------------------------------------------------------------------
(***************************************************************************)
(* The owned stop, executed by stop.by: its caller, or the completion task  *)
(* that publishes a deferred stop once all handlers have returned.          *)
(***************************************************************************)
Executes(phase) == stop.phase = phase

SeesError == stop.error \/ failed[stop.by]

\* The socket is closed.  An ordinary stop goes on to its terminal events; a
\* deferred one stops the dispatcher and leaves the rest to the completion task.
SocketCloses(err) ==
  /\ IF stop.deferred
     THEN /\ stop' = [stop EXCEPT !.phase = "context", !.by = "completer"]
          /\ DropsQueue
          /\ pc' = [t \in Callers |-> IF pc[t] = "own" THEN "join" ELSE pc[t]]
     ELSE /\ stop' = [stop EXCEPT !.phase = IF ~err /\ stop.closes THEN "close" ELSE "stopped",
                                  !.error = err]
          /\ failed' = [failed EXCEPT ![stop.by] = FALSE]
          /\ UNCHANGED <<barrier, queue, stopping, pc>>
  /\ ghost' = [ghost EXCEPT !.open = @ - (IF stop.sock THEN 1 ELSE 0)]

TearsDown ==
  /\ Executes("teardown")
  /\ stop.deferred \/ Ready(stop.by)
  /\ IF stop.cancels /\ recv \notin {"none", "done"}
     THEN /\ recv' = "cancelled"
          /\ blocked' = [blocked EXCEPT !["receiver"] = "none"]
          /\ stop' = [stop EXCEPT !.phase = "reader", !.error = SeesError]
          /\ failed' = [failed EXCEPT ![stop.by] = FALSE]
          /\ UNCHANGED <<barrier, queue, stopping, pc, ghost>>
     ELSE /\ SocketCloses(SeesError)
          /\ UNCHANGED <<recv, blocked>>
  /\ UNCHANGED <<setup, runtimeVars, closeVars, start, handoff, handler, worker,
                 sweeper>>

ReceiverGone ==
  /\ Executes("reader") /\ recv = "done"
  /\ SocketCloses(stop.error)
  /\ UNCHANGED <<setup, runtimeVars, closeVars, taskVars, handler, blocked, worker, sweeper>>

\* wait_for_handler_context() is over: the deferred stop publishes STOPPING.
HandlersGone ==
  /\ Executes("context") /\ ~ActiveHandler
  /\ stop' = [stop EXCEPT !.phase = "close"]
  /\ IF stop.event THEN Emit("completer", "STOPPING", ghost) ELSE EmitsNothing("completer", ghost)
  /\ UNCHANGED <<setup, runtimeVars, closeVars, taskVars, pc, workerVars>>

\* _defer_close_event_until_current_handler_unwinds().  No handler is active
\* here where delivery is inline: a deferred stop has waited for all of them, an
\* ordinary one began without any and has ended the receive task.
MustDefer == opening

Closes ==
  /\ Executes("close") /\ Ready(stop.by)
  /\ IF SeesError \/ ~stop.closes
     THEN /\ stop' = [stop EXCEPT !.phase = "stopped", !.error = SeesError]
          /\ EmitsNothing(stop.by, ghost)
          /\ UNCHANGED <<deferred, waiter>>
     ELSE IF MustDefer
     THEN /\ stop' = [stop EXCEPT !.phase = "waiter"]
          /\ deferred' = TRUE /\ waiter' = "pending"
          /\ UNCHANGED emitVars
     ELSE /\ stop' = [stop EXCEPT !.phase = "stopped"]
          /\ Emit(stop.by, "closed", ghost)
          /\ UNCHANGED <<deferred, waiter>>
  /\ UNCHANGED <<setup, runtimeVars, opening, start, recv, handoff, pc, workerVars>>

\* _publish_stopped_transition_if_needed()
Stops ==
  /\ Executes("stopped") /\ Ready(stop.by)
  /\ state' = "STOPPED"
  /\ stop' = [stop EXCEPT !.phase = "drain", !.error = SeesError]
  /\ IF SeesError THEN EmitsNothing(stop.by, ghost) ELSE Emit(stop.by, "STOPPED", ghost)
  /\ UNCHANGED <<setup, running, sock, task, closeVars, taskVars, pc, workerVars>>

\* The stop waiter settles and is cleared; who joined it goes on.
Completed(err) ==
  /\ stop' = NoStop
  /\ pc' = [t \in Callers |-> IF pc[t] \in {"own", "join"}
                              THEN Outcome(t, IF err THEN "raised" ELSE "returned") ELSE pc[t]]

\* dispatcher.stop() at the end of the owned stop.  In the ordinary form a
\* failed publication of STOPPED ends the stop before it.
StopsOwnDispatcher_Unawaited ==
  /\ Executes("drain") /\ Ready(stop.by)
  /\ stopping' = (stopping \/ Background)
  /\ Completed(SeesError)
  /\ EmitsNothing(stop.by, ghost)
  /\ UNCHANGED <<setup, runtimeVars, closeVars, taskVars, worker, sweeper>>
StopsOwnDispatcher ==
  /\ Executes("drain") /\ Ready(stop.by)
  /\ IF failed[stop.by] /\ ~(stop.by = "completer")
     THEN Completed(TRUE) /\ UNCHANGED stopping
     ELSE /\ stopping' = (stopping \/ Background)
          /\ IF worker = "run"
             THEN stop' = [stop EXCEPT !.phase = "draining", !.error = SeesError] /\ UNCHANGED pc
             ELSE Completed(SeesError)
  /\ EmitsNothing(stop.by, ghost)
  /\ UNCHANGED <<setup, runtimeVars, closeVars, taskVars, worker, sweeper>>

StopEnds ==
  /\ Executes("drained")
  /\ Completed(stop.error)
  /\ UNCHANGED <<setup, runtimeVars, closeVars, taskVars, emitVars, workerVars>>

\* The completion task of a handler's stop() that found nothing to stop.
Sweeps ==
  /\ sweeper /\ ~ActiveHandler
  /\ stopping' = TRUE
  /\ sweeper' = FALSE
  /\ UNCHANGED <<setup, runtimeVars, stop, closeVars, taskVars, pc, emitVars, worker>>

-----------------------------------------------------------------------------
(***************************************************************************)
(* _publish_deferred_close_after_opened_event(), the hand-off of start().   *)
(***************************************************************************)
\* The future of the deferred close settles.
Settles_Unheard(err) == waiter' = "none" /\ UNCHANGED stop
Settles(err) ==
  /\ waiter' = "none"
  /\ stop' = IF stop.phase = "waiter"
             THEN [stop EXCEPT !.phase = "stopped", !.error = err] ELSE stop

HandoffTakes ==
  /\ handoff = "run"
  /\ IF deferred
     THEN handoff' = "emitted" /\ deferred' = FALSE /\ Emit("handoff", "closed", ghost)
     ELSE handoff' = "no" /\ UNCHANGED <<deferred, emitVars>>
  /\ UNCHANGED <<setup, runtimeVars, stop, opening, waiter, start, recv, pc,
                 workerVars>>

HandoffEnds ==
  /\ handoff = "emitted" /\ Ready("handoff")
  /\ handoff' = IF failed["handoff"] THEN "raised" ELSE "yes"
  /\ Settles(failed["handoff"])
  /\ EmitsNothing("handoff", ghost)
  /\ UNCHANGED <<setup, runtimeVars, opening, deferred, start, recv, pc, workerVars>>

-----------------------------------------------------------------------------
(***************************************************************************)
(* start(): _begin_startup(), the socket set-up, _complete_startup().       *)
(***************************************************************************)
\* A call of stop(), or what it left to a completion task, is not over.
StopUnderWay == stop.phase # "none" \/ sweeper \/ \E t \in Callers : pc[t] = "drain"

\* dispatcher.start() and the transition to STARTING; from STOPPING that
\* transition is illegal, and raises.
StartCalled ==
  LET starts == Background /\ worker = "none"
  IN  /\ start = "idle" /\ ghost.starts < StartBound
      /\ setup.overlap \/ ~StopUnderWay
      /\ state \in {"STOPPED", "STOPPING"}
      /\ worker' = IF starts THEN "run" ELSE worker
      /\ stopping' = (stopping /\ ~starts)
      /\ LET g == [ghost EXCEPT !.starts = @ + 1]
         IN  IF state = "STOPPED"
             THEN /\ state' = "STARTING" /\ start' = "starting"
                  /\ EmitIf("starter", "STARTING", g, ~stopping')
             ELSE /\ EmitsNothing("starter", g)
                  /\ UNCHANGED <<state, start>>
      /\ UNCHANGED <<setup, running, sock, task, stop, closeVars, recv, handoff, pc,
                     sweeper>>

\* start() ends with a call of dispatcher.stop().
StartStopsDispatcher ==
  /\ stopping' = (stopping \/ Background)
  /\ start' = IF worker = "run" THEN "draining" ELSE "idle"

\* The STARTING barrier failed: _rollback_failed_starting_publication().
StartRollsBack ==
  /\ start = "starting" /\ Ready("starter") /\ failed["starter"]
  /\ state' = IF state = "STARTING" THEN "STOPPED" ELSE state
  /\ StartStopsDispatcher
  /\ EmitsNothing("starter", ghost)
  /\ UNCHANGED <<setup, running, sock, task, stop, closeVars, recv, handoff, pc, worker,
                 sweeper>>

\* A stop came in meanwhile: start() waits for it and returns.
StartOvertaken ==
  /\ start = "starting" /\ Ready("starter") /\ ~failed["starter"] /\ state # "STARTING"
  /\ start' = IF stop.phase = "none" THEN "idle" ELSE "join"
  /\ pc' = [pc EXCEPT !["starter"] = IF stop.phase = "none" THEN @ ELSE "join"]
  /\ UNCHANGED <<setup, runtimeVars, stop, closeVars, recv, handoff, emitVars,
                 workerVars>>

Binds ==
  /\ start = "starting" /\ Ready("starter") /\ ~failed["starter"] /\ state = "STARTING"
  /\ sock' = TRUE /\ running' = TRUE /\ state' = "RUNNING"
  /\ start' = "running"
  /\ Emit("starter", "RUNNING", [ghost EXCEPT !.open = @ + 1])
  /\ UNCHANGED <<setup, task, stop, closeVars, recv, handoff, pc, workerVars>>

\* socket(), bind() or the membership fails: _fail_startup().
BindFails ==
  /\ start = "starting" /\ Ready("starter") /\ ~failed["starter"] /\ state = "STARTING"
  /\ state' = "STOPPED"
  /\ start' = "failing"
  /\ Emit("starter", "STOPPED", ghost)
  /\ UNCHANGED <<setup, running, sock, task, stop, closeVars, recv, handoff, pc,
                 workerVars>>

StartFails ==
  /\ start = "failing" /\ Ready("starter")
  /\ StartStopsDispatcher
  /\ EmitsNothing("starter", ghost)
  /\ UNCHANGED <<setup, runtimeVars, stop, closeVars, recv, handoff, pc, worker, sweeper>>

StillRunning_Unchecked == TRUE
StillRunning == sock /\ running /\ state = "RUNNING"

\* RUNNING is out: publish ConnectionOpenedEvent, or give up.
Opens ==
  /\ start = "running" /\ Ready("starter") /\ ~failed["starter"]
  /\ IF StillRunning
     THEN /\ start' = "opened"
          /\ opening' = TRUE
          /\ Emit("starter", "opened", ghost)
     ELSE /\ start' = "idle"
          /\ UNCHANGED <<opening, emitVars>>
  /\ UNCHANGED <<setup, runtimeVars, stop, deferred, waiter, recv, handoff, pc,
                 workerVars>>

\* The opened barrier is over; on failure opening_event_task is cleared only
\* after the hand-off.
HandsOff ==
  /\ start = "opened" /\ Ready("starter")
  /\ start' = IF failed["starter"] THEN "doomed" ELSE "handoff"
  /\ opening' = failed["starter"]
  /\ handoff' = "run"
  /\ EmitsNothing("starter", ghost)
  /\ UNCHANGED <<setup, runtimeVars, stop, deferred, waiter, recv, pc, workerVars>>

HandedOff == handoff \in {"no", "yes", "raised"}

\* start() fails: once in the handler of the barrier's exception, once more in
\* the one around the whole start-up, it stops the receiver.
StartStops ==
  /\ \/ start = "running" /\ Ready("starter") /\ failed["starter"] /\ start' = "stopping"
     \/ start = "doomed" /\ HandedOff /\ start' = "again"
     \/ start = "handoff" /\ HandedOff /\ (handoff = "raised" \/ failed["starter"])
        /\ start' = "stopping"
     \/ start = "again" /\ Idle("starter") /\ start' = "stopping"
  /\ opening' = FALSE
  /\ handoff' = "none"
  /\ CallStop("starter", ghost)
  /\ UNCHANGED <<setup, deferred, waiter, recv, worker, sweeper>>

\* start() ends; if nobody stopped the receiver it starts the receive task.
StartSucceeds ==
  /\ start = "handoff" /\ handoff \in {"no", "yes"} /\ ~failed["starter"]
  /\ start' = "idle"
  /\ handoff' = "none"
  /\ IF handoff = "no" /\ StillRunning
     THEN recv' = "reading" /\ task' = TRUE
     ELSE UNCHANGED <<recv, task>>
  /\ UNCHANGED <<setup, state, running, sock, stop, closeVars, pc, emitVars, workerVars>>

StartEnds ==
  /\ start \in {"join", "stopping"} /\ Idle("starter")
  /\ start' = "idle"
  /\ UNCHANGED <<setup, runtimeVars, stop, closeVars, recv, handoff, pc, emitVars,
                 workerVars>>

-----------------------------------------------------------------------------
(***************************************************************************)
(* _receive_datagrams().                                                    *)
(***************************************************************************)
DatagramArrives ==
  /\ recv = "reading"
  /\ ghost.datagrams < DatagramBound
  /\ recv' = "emitted"
  /\ Emit("receiver", "bytes", [ghost EXCEPT !.datagrams = @ + 1])
  /\ UNCHANGED <<setup, runtimeVars, stop, closeVars, start, handoff, pc, workerVars>>

\* recvfrom() fails, or the emit of the payload did.
ReceiveFails ==
  /\ recv = "reading" \/ (recv = "emitted" /\ Ready("receiver") /\ failed["receiver"])
  /\ recv' = "failing"
  /\ Emit("receiver", "error", ghost)
  /\ UNCHANGED <<setup, runtimeVars, stop, closeVars, start, handoff, pc, workerVars>>

ReceiverLoops ==
  /\ recv = "emitted" /\ Ready("receiver") /\ ~failed["receiver"]
  /\ recv' = IF running THEN "reading" ELSE "done"
  /\ UNCHANGED <<setup, runtimeVars, stop, closeVars, start, handoff, pc, emitVars,
                 workerVars>>

\* The `finally' of the loop.
ReceiverExits ==
  /\ recv = "failing" /\ Ready("receiver")
  /\ IF running
     THEN recv' = "stopping" /\ CallStop("receiver", ghost)
     ELSE /\ recv' = "done"
          /\ EmitsNothing("receiver", ghost)
          /\ UNCHANGED <<runtimeVars, stop, stopping, pc>>
  /\ UNCHANGED <<setup, closeVars, start, handoff, worker, sweeper>>

ReceiverEnds ==
  /\ \/ recv = "stopping" /\ Idle("receiver")
     \/ recv = "cancelled" /\ handler["receiver"] = "none"
  /\ recv' = "done"
  /\ pc' = [pc EXCEPT !["receiver"] = "idle"]
  /\ EmitsNothing("receiver", ghost)
  /\ UNCHANGED <<setup, runtimeVars, stop, closeVars, start, handoff, workerVars>>

-----------------------------------------------------------------------------
(***************************************************************************)
(* The user handler ends on task t; cancellation.                           *)
(***************************************************************************)
\* The worker goes on to the next queued event without suspending.
HandlerEnds(t, raises) ==
  LET takes == t = "worker" /\ queue # <<>>
  IN  /\ handler[t] # "none" /\ ~InTeardown(t)
      /\ handler' = [handler EXCEPT ![t] = IF takes THEN Head(queue) ELSE "none"]
      /\ queue' = IF takes THEN Tail(queue) ELSE queue
      /\ ghost' = IF takes THEN Begun(Head(queue), ghost) ELSE ghost
      /\ failed' = [failed EXCEPT ![t] = @ \/ raises]
      /\ barrier' = (barrier /\ ~(t = "worker" /\ IsBarrier(handler[t])))
      /\ UNCHANGED <<setup, runtimeVars, stop, closeVars, taskVars, pc, blocked, workerVars>>

HandlerReturns(t) == HandlerEnds(t, FALSE)

HandlerRaises(t) == setup.raises /\ t # "worker" /\ HandlerEnds(t, TRUE)

\* Task t is cancelled while it waits for space.
CancelsEmit(t) ==
  /\ blocked[t] # "none"
  /\ blocked' = [blocked EXCEPT ![t] = "none"]
  /\ failed' = [failed EXCEPT ![t] = TRUE]
  /\ UNCHANGED <<runtimeVars, stop, closeVars, taskVars, pc, handler, barrier, queue, ghost,
                 workerVars>>

\* A joined waiter and the worker are shielded; the receive task is awaited to
\* its end; a deferred close is left to a completion task.
CancelsStop(c) ==
  \/ /\ pc[c] \in {"join", "drain"}
     /\ pc' = [pc EXCEPT ![c] = "raised"]
     /\ UNCHANGED stop
  \/ /\ pc[c] = "own" /\ stop.phase = "waiter"
     /\ pc' = [pc EXCEPT ![c] = "raised"]
     /\ stop' = [stop EXCEPT !.by = "completer"]
  \/ /\ pc[c] = "own" /\ stop.phase = "reader"
     /\ stop' = [stop EXCEPT !.error = TRUE]
     /\ UNCHANGED pc
  \/ /\ pc[c] = "own" /\ stop.phase = "draining"
     /\ Completed(TRUE)

StopperCancelled(c) ==
  /\ setup.cancel
  /\ \/ CancelsEmit(c)
     \/ CancelsStop(c) /\ UNCHANGED <<runtimeVars, closeVars, taskVars, emitVars, workerVars>>
  /\ UNCHANGED setup

\* start() sees its cancellation when its barrier or its hand-off is over.
StartCancelled ==
  /\ setup.cancel
  /\ \/ start \in {"running", "opened"} /\ CancelsEmit("starter")
     \/ /\ barrier \/ (start = "handoff" /\ ~HandedOff)
        /\ failed' = [failed EXCEPT !["starter"] = TRUE]
        /\ UNCHANGED <<runtimeVars, stop, closeVars, taskVars, pc, handler, blocked, barrier, queue,
                       ghost, workerVars>>
     \/ /\ start = "join"
        /\ pc' = [pc EXCEPT !["starter"] = "idle"]
        /\ UNCHANGED <<runtimeVars, stop, closeVars, taskVars, emitVars, workerVars>>
  /\ UNCHANGED setup

-----------------------------------------------------------------------------
\* After a step of its own, task t has more to do before it suspends.
Continues(t) ==
  \/ t = stop.by /\ stop.phase = "teardown" /\ stop.deferred
  \/ /\ Ready(t)
     /\ \/ t = stop.by /\ stop.phase \in {"teardown", "close", "stopped", "drain"}
        \/ t = "starter" /\ start \in {"starting", "running", "opened", "failing"}
        \/ t = "starter" /\ start \in {"again", "stopping"} /\ Idle(t)
        \/ t = "receiver" /\ recv \in {"emitted", "failing", "cancelled"}
        \/ t = "receiver" /\ recv = "stopping" /\ Idle(t)
        \/ t = "handoff" /\ handoff = "emitted"

Runs(t, Step) == /\ turn \in {"none", t}
                 /\ Step
                 /\ turn' = IF Continues(t)' THEN t ELSE "none"

StartStep ==
  \/ StartRollsBack \/ StartOvertaken \/ Binds \/ BindFails \/ StartFails \/ Opens \/ HandsOff
  \/ StartStops \/ StartSucceeds \/ StartEnds

StopStep ==
  \/ TearsDown \/ ReceiverGone \/ HandlersGone \/ Closes \/ Stops \/ StopsOwnDispatcher
  \/ StopEnds

HandoffStep == HandoffTakes \/ HandoffEnds

ReceiverStep ==
  \/ (recv = "emitted" /\ ReceiveFails) \/ ReceiverLoops \/ ReceiverExits \/ ReceiverEnds

WorkerStep == WorkerTakes \/ WorkerExits

Next ==
  \/ Runs("starter", StartCalled \/ StartCancelled)
  \/ \E c \in Stoppers : Runs(c, StopCalled(c) \/ StopperCancelled(c))
  \/ Runs("receiver", DatagramArrives \/ (recv = "reading" /\ ReceiveFails))
  \/ \E t \in Tasks :
       Runs(t, HandlerStops(t) \/ HandlerRaises(t) \/ HandlerReturns(t) \/ Unblocked(t))
  \/ Runs("starter", StartStep)
  \/ \E t \in {stop.by} : Runs(t, StopStep)
  \/ Runs("handoff", HandoffStep)
  \/ Runs("receiver", ReceiverStep)
  \/ Runs("worker", WorkerStep)
  \/ turn = "none" /\ Sweeps /\ UNCHANGED turn

Spec == Init /\ [][Next]_vars

(***************************************************************************)
(* The event loop runs every ready task, handlers return, and so does a     *)
(* producer for which there is space.                                       *)
(***************************************************************************)
Fairness ==
  /\ WF_vars(Runs("starter", StartStep)) /\ WF_vars(\E t \in {stop.by} : Runs(t, StopStep))
  /\ WF_vars(Runs("handoff", HandoffStep)) /\ WF_vars(Runs("receiver", ReceiverStep))
  /\ WF_vars(Runs("worker", WorkerStep))
  /\ \A t \in Tasks : WF_vars(Runs(t, HandlerReturns(t))) /\ WF_vars(Runs(t, Unblocked(t)))

FairSpec == Spec /\ Fairness

-----------------------------------------------------------------------------
(***************************************************************************)
(* Properties.                                                              *)
(***************************************************************************)
\* Every variable has its type.
TypeOK ==
  /\ setup \in Setups
  /\ state \in Lifecycle
  /\ turn \in Tasks \cup {"none"}
  /\ {running, sock, task, opening, deferred, barrier, stopping, sweeper} \subseteq BOOLEAN
  /\ stop \in [phase : Phases, owner : Tasks, by : Tasks, deferred : BOOLEAN, cancels : BOOLEAN,
               sock : BOOLEAN, closes : BOOLEAN, event : BOOLEAN, error : BOOLEAN]
  /\ waiter \in {"none", "pending"} /\ worker \in {"none", "run"}
  /\ handoff \in {"none", "run", "emitted", "no", "yes", "raised"}
  /\ start \in StartStates /\ recv \in ReceiverStates
  /\ pc \in [Callers -> CallStates]
  /\ handler \in [Tasks -> Events \cup {"none"}] /\ blocked \in [Tasks -> Events \cup {"none"}]
  /\ failed \in [Tasks -> BOOLEAN]
  /\ queue \in Seq(Events) /\ Len(queue) <= QueueBound

\* A stopped receiver holds nothing: no open socket, no task that still reads,
\* however start(), stop(), failures and cancellations met.
StoppedHoldsNothing ==
  state = "STOPPED" => ghost.open = 0 /\ recv \in {"none", "done", "stopping"}

\* No call is cancelled, and none of start() overlaps one of stop().
Plain == ~setup.cancel /\ ~setup.overlap

\* One life of the receiver is told in order: STARTING, RUNNING, opened,
\* payload, STOPPING, closed, STOPPED, each at most once, nothing out of turn
\* (only STOPPING keeps no order with opened and closed).
ToldInOrder == Plain => ~ghost.disorder

\* The call of c returns normally in this step, which may be its first.
Returns(c) == pc'[c] = "returned" /\ (pc[c] # "returned" \/ StopCalled(c))

\* The stop that c owns goes on without it: the call of c was cancelled.  To
\* _plan_stop_snapshot() another call of c is a re-entry, and returns at once.
OwnsAbandonedStop(c) == Idle(c) /\ stop.phase # "none" /\ stop.owner = c

\* A stop() that returns normally leaves a receiver that is STOPPED, without an
\* owned stop, without a worker, whichever task did the work, one that took it
\* over from a cancelled owner included.  Two exceptions: start() is called again
\* before the stop is over, or the caller owns the stop it finds under way.
StopLeavesStopped ==
  [][\A c \in Stoppers : ~setup.overlap /\ Returns(c) /\ ~OwnsAbandonedStop(c) =>
       state' = "STOPPED" /\ worker' = "none" /\ stop'.phase = "none"]_vars

\* The opened barrier may fail: its handler raises or stops the receiver, start() is
\* cancelled, or the dispatcher is stopped under it by the stop it overlaps.
OpeningMayFail == setup.raises \/ (setup.stops /\ Background) \/ ~Plain

\* A stop has deferred its closed event to a start() whose hand-off is over:
\* opening_event_task is cleared only after it when the barrier has failed.  Nobody
\* is left to publish the event, and the stop awaits that for ever.
Stranded == OpeningMayFail /\ deferred /\ start # "opened" /\ handoff # "run"

\* stop() returns, and so does start(): nobody is kept in the receiver, except by
\* a stranded closed event.
CallsReturn == /\ \A c \in Stoppers : []<>(Idle(c) \/ Stranded)
               /\ []<>(start = "idle" \/ Stranded)
=============================================================================
