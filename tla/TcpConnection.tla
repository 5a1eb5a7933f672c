---------------------------- MODULE TcpConnection ----------------------------
(***************************************************************************)
(* AsyncioTcpConnection (asyncio_tcp_connection.py): start(), the read      *)
(* loop, and the shared close: one close task that tears down, one          *)
(* publication task that emits ConnectionClosedEvent, and the deferral of   *)
(* that event while a handler of this connection is running.                *)
(*                                                                          *)
(* The critical sections under _close_lock contain no await, so the lock is *)
(* never contended and every stretch of code between two suspensions is one *)
(* atomic action.  The dispatcher is the one of module EventDispatcher, cut *)
(* down to what the connection sees of it: a bounded queue under BLOCK with *)
(* a running worker, or inline delivery in the emitting task.               *)
(***************************************************************************)
EXTENDS Integers, Sequences, FiniteSets

CONSTANTS
  Closers,         \* tasks outside any handler that call close()
  Setups,          \* the applications the connection may be part of
  QueueBound,      \* max_pending_events of the shared dispatcher
  ReadBound,       \* bound: chunks the peer sends
  OtherBound,      \* bound: events of other connections in the queue
  CloseBound       \* bound: calls of close() that start from idle

Workers == {"worker", "opener", "reader", "closer", "publisher"}
Tasks == Workers \cup Closers

ASSUME TaskAssumption == IsFiniteSet(Closers) /\ Closers \cap Workers = {}
ASSUME SetupAssumption ==
  Setups \subseteq [mode : {"INLINE", "BACKGROUND"},  \* the dispatch mode
                   outside : BOOLEAN,    \* tasks outside any handler call close()
                   closes : BOOLEAN,     \* the handler may call close()
                   raises : BOOLEAN,     \* it may raise, under RAISE_IN_INLINE_MODE
                   callbacks : BOOLEAN,  \* the ready and the close callback may raise
                   cancel : BOOLEAN]     \* start() and calls of close() may be cancelled
ASSUME BoundAssumption == /\ QueueBound \in Nat \ {0}
                          /\ {ReadBound, OtherBound, CloseBound} \subseteq Nat

VARIABLES
  setup,      \* what the application does; fixed
  state,      \* _state; CONNECTING is left in the step that enters it
  previous,   \* _close_event_previous_state
  published,  \* _closed_event_published
  opening,    \* _opening_event_task is the task that runs start()
  deferred,   \* _close_event_deferred_until_opened_event_completes
  waiter,     \* _deferred_close_event_waiter: "none" or "pending"
  opener,     \* where start() is
  doomed,     \* start() is to end in an exception
  handoff,    \* the task start() runs _publish_deferred_close_after_opened_event in
  reader,     \* where _read_loop() is
  writer,     \* the stream writer: "open" or "closed"
  closer,     \* _close_task: where _run_close_lifecycle() is
  args,       \* and its arguments and inherited context
  deferrer,   \* _deferred_close_publish_task
  publisher,  \* _close_event_task: where the publication is
  inline,     \* and whether it was created in an inline_delivery_context()
  handler,    \* task -> the event the user handler is running for on it
  call,       \* task -> where its close() call is
  queue,      \* the dispatcher's queue
  ghost       \* history that no code reads, and what bounds the inputs

startVars == <<opener, opening, doomed, handoff>>
closeVars == <<state, previous, closer, args>>
deferVars == <<deferred, waiter, deferrer>>
publishVars == <<published, publisher, inline>>
streamVars == <<reader, writer>>
handlerVars == <<handler, queue, ghost>>

vars == <<setup, startVars, closeVars, deferVars, publishVars, streamVars, handlerVars, call>>

-----------------------------------------------------------------------------
\* ConnectionOpenedEvent, BytesReceivedEvent, NetworkErrorEvent and
\* ConnectionClosedEvent of this connection; "other" belongs to another one.
ConnEvents == {"opened", "bytes", "error", "closed"}
Events == ConnEvents \cup {"other"}

ConnStates == {"CREATED", "CONNECTED", "CLOSING", "CLOSED"}
OpenerStates == {"idle", "ready", "emit", "opened", "handled", "handoff", "closing", "done"}
HandoffStates == {"none", "run", "publish", "published", "failed", "no", "yes", "raised"}
ReaderStates == {"none", "reading", "bytes", "error", "handling", "closing", "cancelled", "done"}
CloserStates == {"none", "start", "reader", "writer", "callback", "error", "handling",
                 "waiter", "publish", "published", "failed"}
DeferrerStates == {"none", "wait", "publish", "published", "failed"}
PublisherStates == {"none", "emit", "handling"}
CallStates == {"none", "task", "task_cancelled", "resume", "resume_cancelled", "waiter",
               "returned", "raised"}

NoArgs == [caller |-> "worker", teardown |-> FALSE, inline |-> FALSE, origin |-> "none"]

Init ==
  /\ setup \in Setups
  /\ state = "CREATED" /\ previous = "none" /\ published = FALSE
  /\ opening = FALSE /\ deferred = FALSE /\ waiter = "none"
  /\ opener = "idle" /\ doomed = FALSE /\ handoff = "none"
  /\ reader = "none" /\ writer = "open"
  /\ closer = "none" /\ args = NoArgs
  /\ deferrer = "none" /\ publisher = "none" /\ inline = FALSE
  /\ handler = [t \in Workers |-> "none"]
  /\ call = [t \in Tasks |-> "none"]
  /\ queue = <<>>
  /\ ghost = [chunks |-> 0, others |-> 0, calls |-> 0, callbacks |-> 0,
              opened |-> "no", closed |-> FALSE, published |-> 0, late |-> {}]

-----------------------------------------------------------------------------
(***************************************************************************)
(* The dispatcher as the connection sees it.                                *)
(***************************************************************************)

\* has_active_handler_context(connection_id)
ActiveHandler(h) == \E t \in Workers : h[t] \in ConnEvents

\* current_task_would_deliver_inline(), for a task with the given context.
DeliversInline(inlineContext) == setup.mode = "INLINE" \/ inlineContext

\* drop_queued_events_for_resource(connection_id): the n-th event that is left is
\* the one that has n - 1 of them before it.
Kept(q) == {i \in DOMAIN q : q[i] # "bytes"}
Rank(q, i) == Cardinality({j \in Kept(q) : j <= i})
WithoutBytes(q) == [n \in 1 .. Cardinality(Kept(q)) |-> q[CHOOSE i \in Kept(q) : Rank(q, i) = n]]

\* A delivery begins.  ghost.opened follows the Opened event; ghost.late
\* collects what reached the handler after the Closed event of its connection.
Begun(e) ==
  [ghost EXCEPT !.opened = IF e = "opened" THEN "begun" ELSE @,
                !.closed = @ \/ e = "closed",
                !.late = IF ghost.closed /\ e \in ConnEvents \ {"closed"} THEN @ \cup {e} ELSE @]

\* Task t emits e: inline, or into the queue once it has room.
EmitsInline(t, e) ==
  /\ handler' = [handler EXCEPT ![t] = e]
  /\ ghost' = Begun(e)
  /\ UNCHANGED queue

EmitsToQueue_Unbounded(e) ==
  /\ queue' = Append(queue, e)
  /\ UNCHANGED <<handler, ghost>>
EmitsToQueue(e) ==
  /\ Len(queue) < QueueBound
  /\ queue' = Append(queue, e)
  /\ UNCHANGED <<handler, ghost>>

WorkerTakes ==
  /\ handler["worker"] = "none"
  /\ queue # <<>>
  /\ handler' = [handler EXCEPT !["worker"] = Head(queue)]
  /\ queue' = Tail(queue)
  /\ ghost' = Begun(Head(queue))
  /\ UNCHANGED <<setup, startVars, closeVars, deferVars, publishVars, streamVars, call>>

\* Another connection of the same component emits.
OtherEmits ==
  /\ setup.mode = "BACKGROUND"
  /\ ghost.others < OtherBound
  /\ Len(queue) < QueueBound
  /\ queue' = Append(queue, "other")
  /\ ghost' = [ghost EXCEPT !.others = @ + 1]
  /\ UNCHANGED <<setup, startVars, closeVars, deferVars, publishVars, streamVars, handler, call>>

-----------------------------------------------------------------------------
(***************************************************************************)
(* close(): the part before its first await, called by task t.              *)
(***************************************************************************)
Idle(t) == call[t] \in {"none", "returned", "raised"}

\* The outcome of a call is remembered for the outside callers only.
Outcome(t, o) == IF t \in Closers THEN o ELSE "none"

\* Only handlers run on the worker, and the tasks with an inline context call
\* close() from handlers only: this is close_caller_uses_inline_delivery.
InHandler(t, h) == t \in Workers /\ h[t] # "none"

\* The caller is (awaited by) a running handler of this connection.
HandlerOrigin(t, h) == t \in Workers /\ h[t] \in ConnEvents

AlreadyClosed(t, openingTask) ==
  /\ state = "CLOSED"
  /\ published \/ (deferred /\ openingTask /\ t = "opener")

NeedsTeardown == state \notin {"CLOSING", "CLOSED"}

\* The caller finds no close task in flight and creates one.
NewCloseTask(t, h) ==
  /\ closer' = "start"
  /\ args' = [caller |-> t,
              teardown |-> NeedsTeardown,
              inline |-> InHandler(t, h),
              origin |-> IF HandlerOrigin(t, h) THEN t ELSE "none"]
  /\ IF state = "CLOSED" THEN UNCHANGED <<state, previous>>
     ELSE /\ previous' = IF previous = "none" THEN state ELSE previous
          /\ state' = "CLOSING"

JoinsCloseTask(t, h) ==
  ~(t \in {"closer", "publisher"} \/ (deferred /\ HandlerOrigin(t, h)))

CloseCall(t, h, openingTask) ==
  IF AlreadyClosed(t, openingTask)
  THEN /\ call' = [call EXCEPT ![t] = Outcome(t, "returned")]
       /\ UNCHANGED closeVars
  ELSE /\ IF closer = "none" THEN NewCloseTask(t, h) ELSE UNCHANGED closeVars
       /\ call' = [call EXCEPT ![t] = IF JoinsCloseTask(t, h) THEN "task" ELSE Outcome(t, "returned")]

\* close() called from outside any handler, or by the user handler while it
\* runs for an event of this or of another connection.
CloseRequested(t) ==
  /\ (setup.outside /\ t \in Closers) \/ (setup.closes /\ InHandler(t, handler))
  /\ Idle(t)
  /\ ghost.calls < CloseBound
  /\ CloseCall(t, handler, opening)
  /\ ghost' = [ghost EXCEPT !.calls = @ + 1]
  /\ UNCHANGED <<setup, startVars, deferVars, publishVars, streamVars, handler, queue>>

\* The caller is cancelled: the close task is shielded, and the call still waits.
CloserCancelled(c) ==
  /\ setup.cancel
  /\ \/ call[c] = "task" /\ call' = [call EXCEPT ![c] = "task_cancelled"]
     \/ call[c] = "resume" /\ call' = [call EXCEPT ![c] = "resume_cancelled"]
  /\ UNCHANGED <<setup, startVars, closeVars, deferVars, publishVars, streamVars, handlerVars>>

\* _ensure_deferred_close_publication_waiter(): a client or server that stops
\* calls it when its close() has returned with the event neither out nor
\* promised while a handler of the connection runs.
EnsureWaiter ==
  /\ ~published /\ waiter = "none" /\ ActiveHandler(handler)
  /\ deferred' = TRUE
  /\ waiter' = "pending"
  /\ deferrer' = IF deferrer = "none" THEN "wait" ELSE deferrer

\* The part after the close task ended: wait for a deferred publication, or
\* return to the application or to the component.
CallerResumes(t) ==
  /\ call[t] \in {"resume", "resume_cancelled"}
  /\ LET waits == /\ waiter = "pending"
                  /\ ~HandlerOrigin(t, handler)
                  /\ call[t] = "resume_cancelled" \/ ActiveHandler(handler)
         end == IF call[t] = "resume_cancelled" THEN "raised" ELSE "returned"
     IN  /\ call' = [call EXCEPT ![t] = IF waits THEN "waiter" ELSE Outcome(t, end)]
         /\ UNCHANGED deferVars \/ (end = "returned" /\ EnsureWaiter)
  /\ UNCHANGED <<setup, startVars, closeVars, publishVars, streamVars, handlerVars>>

-----------------------------------------------------------------------------
(***************************************************************************)
(* _finalize_close() up to its await: `ok' when the event is already out,   *)
(* otherwise the publication task runs.                                     *)
(***************************************************************************)
BeginPublication(inlineContext) ==
  /\ publisher = "none"
  /\ publisher' = "emit"
  /\ inline' = inlineContext
  /\ state' = "CLOSED"

Finalize(inlineContext) ==
  \/ BeginPublication(inlineContext)
  \/ publisher # "none" /\ UNCHANGED <<publisher, inline, state>>

\* The future of a deferred close settles; its waiters go on.
Settle_Unheard(outcome) ==
  /\ waiter' = "none"
  /\ UNCHANGED <<closer, call>>
Settle(outcome) ==
  /\ waiter' = "none"
  /\ closer' = IF closer # "waiter" THEN closer
               ELSE IF outcome = "returned" THEN "published" ELSE "failed"
  /\ call' = [t \in Tasks |-> IF call[t] = "waiter" THEN Outcome(t, outcome) ELSE call[t]]

\* The close task ends and wakes the callers that joined it.
CloserEnds(failed) ==
  /\ closer' = "none"
  /\ args' = NoArgs
  /\ call' = [t \in Tasks |->
       CASE call[t] \in {"task", "task_cancelled"} /\ failed -> Outcome(t, "raised")
         [] call[t] = "task" /\ ~failed -> "resume"
         [] call[t] = "task_cancelled" /\ ~failed -> "resume_cancelled"
         [] OTHER -> call[t]]

-----------------------------------------------------------------------------
(***************************************************************************)
(* _run_close_lifecycle().                                                  *)
(***************************************************************************)
\* h is the handlers that run at that moment.
DeliversToActiveHandler(h) == ActiveHandler(h) /\ DeliversInline(args.inline)

CancelsReader_Never == FALSE
CancelsReader ==
  /\ reader \notin {"none", "done"}
  /\ args.caller # "reader"
  /\ ~DeliversToActiveHandler(handler)

CloserTearsDown ==
  /\ closer = "start" /\ args.teardown
  /\ queue' = IF ActiveHandler(handler) THEN WithoutBytes(queue) ELSE queue
  /\ IF CancelsReader
     THEN /\ closer' = "reader"
          /\ reader' = "cancelled"
          /\ UNCHANGED writer
     ELSE /\ closer' = "writer"
          /\ writer' = "closed"
          /\ UNCHANGED reader
  /\ UNCHANGED <<setup, startVars, deferVars, publishVars, state, previous, args, handler, call,
                 ghost>>

ReaderGone ==
  /\ closer = "reader" /\ reader = "done"
  /\ closer' = "writer"
  /\ writer' = "closed"
  /\ UNCHANGED <<setup, startVars, deferVars, publishVars, handlerVars, state, previous, reader,
                 args, call>>

\* writer.wait_closed() is over, or timed out: on_closed_callback is called.
WriterGone ==
  /\ closer = "writer"
  /\ closer' = "callback"
  /\ UNCHANGED <<setup, startVars, deferVars, publishVars, streamVars, handlerVars, state,
                 previous, args, call>>

\* _defer_close_event_until_opened_event_completes()
OriginInFlight == opening /\ args.caller = "opener"
Inherited == args.origin # "none"

MustDefer_IgnoresHandlers(h) == opening \/ args.inline \/ Inherited \/ deferred
MustDefer(h) ==
  opening \/ args.inline \/ Inherited \/ DeliversToActiveHandler(h) \/ deferred

StartsDeferrer(h) ==
  ~opening /\ (args.inline \/ Inherited \/ DeliversToActiveHandler(h)) /\ deferrer = "none"

\* Whoever a handler waits for must not wait for the end of that handler.
AwaitsWaiter_Never == FALSE
AwaitsWaiter == ~(OriginInFlight \/ args.inline \/ Inherited)

Defer(h) ==
  /\ MustDefer(h)
  /\ state' = "CLOSED"
  /\ deferred' = TRUE
  /\ waiter' = "pending"
  /\ deferrer' = IF StartsDeferrer(h) THEN "wait" ELSE deferrer
  /\ IF AwaitsWaiter THEN closer' = "waiter" /\ UNCHANGED <<args, call>> ELSE CloserEnds(FALSE)
  /\ UNCHANGED <<publisher, inline>>

PublishNow(h) ==
  /\ ~MustDefer(h)
  /\ IF published
     THEN CloserEnds(FALSE) /\ UNCHANGED <<state, publisher, inline>>
     ELSE /\ Finalize(args.inline)
          /\ closer' = "publish"
          /\ UNCHANGED <<args, call>>
  /\ UNCHANGED deferVars

Decide(h) ==
  /\ Defer(h) \/ PublishNow(h)
  /\ queue' = WithoutBytes(queue)

\* A retry of a close whose publication failed goes straight to the decision.
CloserRetries ==
  /\ closer = "start" /\ ~args.teardown
  /\ Decide(handler)
  /\ UNCHANGED <<setup, startVars, streamVars, previous, published, handler, ghost>>

CallbackReturns ==
  /\ closer = "callback"
  /\ Decide(handler)
  /\ ghost' = [ghost EXCEPT !.callbacks = @ + 1]
  /\ UNCHANGED <<setup, startVars, streamVars, previous, published, handler>>

CallbackRaises ==
  /\ setup.callbacks
  /\ closer = "callback"
  /\ closer' = "error"
  /\ ghost' = [ghost EXCEPT !.callbacks = @ + 1]
  /\ UNCHANGED <<setup, startVars, deferVars, publishVars, streamVars, state, previous, args,
                 handler, call, queue>>

\* The error event of a failed close callback: inline, then back to the
\* decision when its handler returns; or queued, and on to the decision.
CloserEmitsInline ==
  /\ closer = "error" /\ DeliversInline(args.inline)
  /\ EmitsInline("closer", "error")
  /\ closer' = "handling"
  /\ UNCHANGED <<setup, startVars, deferVars, publishVars, streamVars, state, previous, args,
                 call>>

CloserEmitsToQueue ==
  /\ closer = "error" /\ ~DeliversInline(args.inline)
  /\ Len(queue) < QueueBound
  /\ Defer(handler) \/ PublishNow(handler)
  /\ queue' = Append(WithoutBytes(queue), "error")
  /\ UNCHANGED <<setup, startVars, streamVars, previous, published, handler, ghost>>

\* _finalize_close() returns or raises to the close task.
CloserPublished ==
  /\ closer \in {"published", "failed"}
  /\ CloserEnds(closer = "failed")
  /\ UNCHANGED <<setup, startVars, deferVars, publishVars, streamVars, handlerVars, state,
                 previous>>

-----------------------------------------------------------------------------
(***************************************************************************)
(* _run_close_event_publication().  Whoever awaits the task gets its        *)
(* outcome.                                                                 *)
(***************************************************************************)
PublisherEnds_Unmarked(ok) ==
  LET outcome == IF ok THEN "published" ELSE "failed"
  IN  /\ publisher' = "none"
      /\ inline' = FALSE
      /\ UNCHANGED <<published, previous>>
      /\ closer' = IF closer = "publish" THEN outcome ELSE closer
      /\ deferrer' = IF deferrer = "publish" THEN outcome ELSE deferrer
      /\ handoff' = IF handoff = "publish" THEN outcome ELSE handoff
PublisherEnds(ok) ==
  LET outcome == IF ok THEN "published" ELSE "failed"
  IN  /\ publisher' = "none"
      /\ inline' = FALSE
      /\ published' = (published \/ ok)
      /\ previous' = IF ok THEN "none" ELSE previous
      /\ closer' = IF closer = "publish" THEN outcome ELSE closer
      /\ deferrer' = IF deferrer = "publish" THEN outcome ELSE deferrer
      /\ handoff' = IF handoff = "publish" THEN outcome ELSE handoff

PublisherEmitsInline ==
  /\ publisher = "emit" /\ DeliversInline(inline)
  /\ EmitsInline("publisher", "closed")
  /\ publisher' = "handling"
  /\ UNCHANGED <<setup, startVars, closeVars, deferVars, streamVars, published, inline, call>>

PublisherEmitsToQueue ==
  /\ publisher = "emit" /\ ~DeliversInline(inline)
  /\ Len(queue) < QueueBound
  /\ queue' = Append(queue, "closed")
  /\ ghost' = [ghost EXCEPT !.published = @ + 1]
  /\ PublisherEnds(TRUE)
  /\ UNCHANGED <<setup, streamVars, state, opening, deferred, waiter, opener, doomed, args,
                 handler, call>>

(***************************************************************************)
(* _publish_deferred_close_after_opened_event(), in the task `self' that    *)
(* start() awaits or in the deferred publisher.                             *)
(***************************************************************************)
PublishDeferred(self, nothing, done) ==
  IF ~deferred
  THEN self' = nothing /\ UNCHANGED <<state, deferred, waiter, closer, publisher, inline, call>>
  ELSE /\ deferred' = FALSE
       /\ IF published
          THEN /\ self' = done
               /\ Settle("returned")
               /\ UNCHANGED <<state, publisher, inline>>
          ELSE /\ self' = "publish"
               /\ Finalize(TRUE)
               /\ UNCHANGED <<waiter, closer, call>>

\* _publish_deferred_close_after_handler_context_expires()
DeferrerPublishes ==
  /\ deferrer = "wait"
  /\ ~ActiveHandler(handler)
  /\ PublishDeferred(deferrer, "none", "none")
  /\ UNCHANGED <<setup, startVars, streamVars, handlerVars, previous, published, args>>

DeferrerEnds ==
  /\ deferrer \in {"published", "failed"}
  /\ deferrer' = "none"
  /\ Settle(IF deferrer = "published" THEN "returned" ELSE "raised")
  /\ UNCHANGED <<setup, startVars, publishVars, streamVars, handlerVars, state, previous,
                 deferred, args>>

-----------------------------------------------------------------------------
(***************************************************************************)
(* start().                                                                 *)
(***************************************************************************)
StartCalled ==
  /\ opener = "idle" /\ state = "CREATED"
  /\ state' = "CONNECTED"
  /\ opener' = "ready"
  /\ UNCHANGED <<setup, deferVars, publishVars, streamVars, handlerVars, previous, opening,
                 doomed, handoff, closer, args, call>>

\* on_ready_callback has returned: give up, or publish ConnectionOpenedEvent.
ReadyReturns ==
  /\ opener = "ready"
  /\ IF state # "CONNECTED"
     THEN opener' = "done" /\ UNCHANGED <<handlerVars, opening>>
     ELSE /\ opening' = TRUE
          /\ \/ /\ DeliversInline(FALSE)
                /\ opener' = "opened"
                /\ EmitsInline("opener", "opened")
             \/ /\ ~DeliversInline(FALSE)
                /\ opener' = "opened"
                /\ EmitsToQueue("opened")
             \/ /\ ~DeliversInline(FALSE) /\ Len(queue) = QueueBound
                /\ opener' = "emit"
                /\ UNCHANGED handlerVars
  /\ UNCHANGED <<setup, closeVars, deferVars, publishVars, streamVars, doomed, handoff, call>>

\* It raised, or start() was cancelled in it.
ReadyFails ==
  /\ setup.callbacks \/ setup.cancel
  /\ opener = "ready"
  /\ opener' = "closing"
  /\ doomed' = TRUE
  /\ CloseCall("opener", handler, FALSE)
  /\ UNCHANGED <<setup, deferVars, publishVars, streamVars, handlerVars, opening, handoff>>

\* The barrier enters the queue once there is room.
OpenerEmitsToQueue ==
  /\ opener = "emit"
  /\ opener' = "opened"
  /\ EmitsToQueue("opened")
  /\ UNCHANGED <<setup, closeVars, deferVars, publishVars, streamVars, opening, doomed, handoff,
                 call>>

\* emit_and_wait() has returned or raised.  On success the opening is over
\* before a deferred close is published, on failure only afterwards.
OpenedOver(fails) ==
  /\ opener' = "handoff"
  /\ handoff' = "run"
  /\ doomed' = fails
  /\ opening' = fails

OpenerResumes ==
  /\ opener = "handled"
  /\ OpenedOver(doomed)
  /\ UNCHANGED <<setup, closeVars, deferVars, publishVars, streamVars, handlerVars, call>>

\* start() is cancelled: blocked for space it gives up at once, behind the
\* barrier it first waits for the handler, in the hand-off it lets that finish.
StartCancelled ==
  /\ setup.cancel
  /\ \/ opener = "emit" /\ OpenedOver(TRUE)
     \/ /\ opener \in {"opened", "handled", "handoff"}
        /\ handler["opener"] = "none"
        /\ doomed' = TRUE
        /\ UNCHANGED <<opener, handoff, opening>>
  /\ UNCHANGED <<setup, closeVars, deferVars, publishVars, streamVars, handlerVars, call>>

HandoffPublishes_Nothing ==
  /\ handoff = "run"
  /\ handoff' = "no"
  /\ UNCHANGED <<setup, closeVars, deferVars, publishVars, streamVars, handlerVars, opener,
                 opening,
                 doomed, call>>
HandoffPublishes ==
  /\ handoff = "run"
  /\ PublishDeferred(handoff, "no", "published")
  /\ UNCHANGED <<setup, streamVars, handlerVars, previous, published, opening, opener, doomed,
                 args, deferrer>>

HandoffEnds ==
  /\ handoff \in {"published", "failed"}
  /\ handoff' = IF handoff = "published" THEN "yes" ELSE "raised"
  /\ Settle(IF handoff = "published" THEN "returned" ELSE "raised")
  /\ UNCHANGED <<setup, publishVars, streamVars, handlerVars, state, previous, opening, deferred,
                 opener, doomed, args, deferrer>>

\* start() goes on: it starts the read loop, or is done, or closes and raises.
OpenerEnds ==
  /\ opener = "handoff" /\ handoff \in {"no", "yes", "raised"}
  /\ opening' = FALSE
  /\ handoff' = "none"
  /\ IF doomed \/ handoff = "raised"
     THEN /\ opener' = "closing"
          /\ doomed' = TRUE
          /\ CloseCall("opener", handler, FALSE)
          /\ UNCHANGED reader
     ELSE /\ opener' = "done"
          /\ reader' = IF handoff = "no" /\ state = "CONNECTED" THEN "reading" ELSE reader
          /\ UNCHANGED <<closeVars, call, doomed>>
  /\ UNCHANGED <<setup, deferVars, publishVars, handlerVars, writer>>

OpenerClosed ==
  /\ opener = "closing" /\ Idle("opener")
  /\ opener' = "done"
  /\ UNCHANGED <<setup, closeVars, deferVars, publishVars, streamVars, handlerVars, opening,
                 doomed, handoff, call>>

-----------------------------------------------------------------------------
(***************************************************************************)
(* _read_loop().                                                            *)
(***************************************************************************)

\* Data has arrived and read() is about to return it, or it has and emit()
\* is waiting for room.
PeerSends ==
  /\ reader = "reading" /\ writer = "open"
  /\ ghost.chunks < ReadBound
  /\ reader' = "bytes"
  /\ ghost' = [ghost EXCEPT !.chunks = @ + 1]
  /\ UNCHANGED <<setup, startVars, closeVars, deferVars, publishVars, writer, handler, call,
                 queue>>

\* The loop goes on while CONNECTED; a close under way makes the task end.
AfterEmit == IF state = "CONNECTED" THEN "reading" ELSE "done"

\* The `finally' of the loop.
ReaderExits(h) ==
  IF state \in {"CLOSING", "CLOSED"}
  THEN reader' = "done" /\ UNCHANGED <<closeVars, call>>
  ELSE reader' = "closing" /\ CloseCall("reader", h, opening)

ReaderEmitsBytes ==
  /\ reader = "bytes"
  /\ IF DeliversInline(FALSE)
     THEN reader' = "handling" /\ EmitsInline("reader", "bytes")
     ELSE reader' = AfterEmit /\ EmitsToQueue("bytes")
  /\ UNCHANGED <<setup, startVars, closeVars, deferVars, publishVars, writer, call>>

\* read() fails or the idle timeout expires.
PeerFails ==
  /\ reader = "reading" /\ writer = "open"
  /\ reader' = "error"
  /\ UNCHANGED <<setup, startVars, closeVars, deferVars, publishVars, handlerVars, writer, call>>

ReaderEmitsErrorInline ==
  /\ reader = "error" /\ DeliversInline(FALSE)
  /\ reader' = "handling"
  /\ EmitsInline("reader", "error")
  /\ UNCHANGED <<setup, startVars, closeVars, deferVars, publishVars, writer, call>>

ReaderEmitsErrorToQueue ==
  /\ reader = "error" /\ ~DeliversInline(FALSE)
  /\ EmitsToQueue("error")
  /\ ReaderExits(handler)
  /\ UNCHANGED <<setup, startVars, deferVars, publishVars, writer>>

\* EOF from the peer, or because the writer was closed.
ReadsEOF ==
  /\ reader = "reading"
  /\ ReaderExits(handler)
  /\ UNCHANGED <<setup, startVars, deferVars, publishVars, handlerVars, writer>>

ReaderEnds ==
  /\ reader = "cancelled" \/ (reader = "closing" /\ Idle("reader"))
  /\ reader' = "done"
  /\ UNCHANGED <<setup, startVars, closeVars, deferVars, publishVars, handlerVars, writer, call>>

-----------------------------------------------------------------------------
(***************************************************************************)
(* The user handler returns or raises on task t.                            *)
(***************************************************************************)
CanReturn(t) == handler[t] # "none" /\ Idle(t)

\* Its context closes, for whoever inherited it too.
ContextCloses(t) ==
  /\ handler' = [handler EXCEPT ![t] = "none"]
  /\ args' = [args EXCEPT !.origin = IF @ = t THEN "none" ELSE @]

OpenedEnded(t) == [ghost EXCEPT !.opened = IF handler[t] = "opened" THEN "ended" ELSE @]

WorkerReturns ==
  /\ CanReturn("worker")
  /\ ContextCloses("worker")
  /\ opener' = IF handler["worker"] = "opened" THEN "handled" ELSE opener
  /\ ghost' = OpenedEnded("worker")
  /\ UNCHANGED <<setup, deferVars, publishVars, streamVars, state, previous, opening, doomed,
                 handoff, closer, call, queue>>

OpenerHandlerEnds(raises) ==
  /\ CanReturn("opener")
  /\ ContextCloses("opener")
  /\ OpenedOver(raises)
  /\ ghost' = OpenedEnded("opener")
  /\ UNCHANGED <<setup, deferVars, publishVars, streamVars, state, previous, closer, call, queue>>

ReaderHandlerEnds(raises) ==
  /\ CanReturn("reader")
  /\ \/ /\ handler["reader"] = "bytes" /\ ~raises
        /\ ContextCloses("reader")
        /\ reader' = AfterEmit
        /\ UNCHANGED <<state, previous, closer, call, ghost>>
     \/ /\ handler["reader"] = "bytes" /\ raises
        /\ handler' = [handler EXCEPT !["reader"] = "error"]
        /\ args' = [args EXCEPT !.origin = IF @ = "reader" THEN "none" ELSE @]
        /\ ghost' = Begun("error")
        /\ UNCHANGED <<state, previous, closer, call, reader>>
     \/ /\ handler["reader"] = "error" /\ state \in {"CLOSING", "CLOSED"}
        /\ ContextCloses("reader")
        /\ reader' = "done"
        /\ UNCHANGED <<state, previous, closer, call, ghost>>
     \/ /\ handler["reader"] = "error" /\ state = "CONNECTED"
        /\ handler' = [handler EXCEPT !["reader"] = "none"]
        /\ ReaderExits(handler')
        /\ UNCHANGED ghost
  /\ UNCHANGED <<setup, startVars, deferVars, publishVars, writer, queue>>

\* The error event of a failed close callback; if its handler raises, the
\* close task fails and leaves the publication to a later close().
CloserHandlerReturns ==
  /\ CanReturn("closer")
  /\ handler' = [handler EXCEPT !["closer"] = "none"]
  /\ Decide(handler')
  /\ UNCHANGED <<setup, startVars, streamVars, previous, published, ghost>>

CloserHandlerRaises ==
  /\ CanReturn("closer")
  /\ handler' = [handler EXCEPT !["closer"] = "none"]
  /\ CloserEnds(TRUE)
  /\ UNCHANGED <<setup, startVars, deferVars, publishVars, streamVars, state, previous, queue,
                 ghost>>

PublisherHandlerEnds(raises) ==
  /\ CanReturn("publisher")
  /\ ContextCloses("publisher")
  /\ PublisherEnds(~raises)
  /\ ghost' = [ghost EXCEPT !.published = @ + (IF raises THEN 0 ELSE 1)]
  /\ UNCHANGED <<setup, streamVars, state, opening, deferred, waiter, opener, doomed, call,
                 queue>>

HandlerReturns ==
  \/ WorkerReturns
  \/ OpenerHandlerEnds(FALSE)
  \/ ReaderHandlerEnds(FALSE)
  \/ CloserHandlerReturns
  \/ PublisherHandlerEnds(FALSE)

HandlerFails ==
  /\ setup.raises
  /\ \/ OpenerHandlerEnds(TRUE)
     \/ ReaderHandlerEnds(TRUE)
     \/ CloserHandlerRaises
     \/ PublisherHandlerEnds(TRUE)

-----------------------------------------------------------------------------
CloserStep ==
  \/ CloserTearsDown \/ ReaderGone \/ WriterGone \/ CallbackReturns \/ CloserRetries
  \/ CloserEmitsInline \/ CloserEmitsToQueue \/ CloserPublished

PublisherStep == PublisherEmitsInline \/ PublisherEmitsToQueue

DeferrerStep == DeferrerPublishes \/ DeferrerEnds

OpenerStep == ReadyReturns \/ OpenerEmitsToQueue \/ OpenerResumes \/ OpenerEnds \/ OpenerClosed

HandoffStep == HandoffPublishes \/ HandoffEnds

ReaderStep ==
  \/ ReaderEmitsBytes \/ ReaderEmitsErrorInline \/ ReaderEmitsErrorToQueue \/ ReaderEnds
  \/ writer = "closed" /\ ReadsEOF

Next ==
  \/ StartCalled \/ ReadyFails \/ StartCancelled
  \/ PeerSends \/ PeerFails \/ (writer = "open" /\ ReadsEOF) \/ OtherEmits
  \/ CallbackRaises \/ HandlerFails
  \/ \E c \in Closers : CloserCancelled(c)
  \/ \E t \in Tasks : CloseRequested(t) \/ CallerResumes(t)
  \/ WorkerTakes \/ HandlerReturns
  \/ OpenerStep \/ HandoffStep \/ ReaderStep \/ CloserStep \/ PublisherStep \/ DeferrerStep

Spec == Init /\ [][Next]_vars

(***************************************************************************)
(* The event loop runs every ready task; handlers and callbacks return.     *)
(***************************************************************************)
Fairness ==
  /\ WF_vars(OpenerStep) /\ WF_vars(HandoffStep) /\ WF_vars(ReaderStep)
  /\ WF_vars(CloserStep) /\ WF_vars(PublisherStep) /\ WF_vars(DeferrerStep)
  /\ WF_vars(WorkerTakes)
  /\ WF_vars(WorkerReturns) /\ WF_vars(OpenerHandlerEnds(FALSE)) /\ WF_vars(ReaderHandlerEnds(FALSE))
  /\ WF_vars(CloserHandlerReturns) /\ WF_vars(PublisherHandlerEnds(FALSE))
  /\ \A t \in Tasks : WF_vars(CallerResumes(t))

FairSpec == Spec /\ Fairness
-----------------------------------------------------------------------------
(***************************************************************************)
(* Properties.                                                              *)
(***************************************************************************)
\* Every variable has its type, and the queue its bound.
TypeOK ==
  /\ setup \in Setups
  /\ state \in ConnStates /\ previous \in ConnStates \cup {"none"}
  /\ {published, opening, deferred, doomed, inline} \subseteq BOOLEAN
  /\ waiter \in {"none", "pending"}
  /\ opener \in OpenerStates /\ handoff \in HandoffStates
  /\ reader \in ReaderStates /\ writer \in {"open", "closed"}
  /\ closer \in CloserStates
  /\ args \in [caller : Tasks, teardown : BOOLEAN, inline : BOOLEAN, origin : Workers \cup {"none"}]
  /\ deferrer \in DeferrerStates /\ publisher \in PublisherStates
  /\ handler \in [Workers -> Events \cup {"none"}]
  /\ call \in [Tasks -> CallStates]
  /\ queue \in Seq(Events) /\ Len(queue) <= QueueBound

\* Where one task at a time delivers events of the connection.  Elsewhere the
\* publication delivers ConnectionClosedEvent inline next to a worker that
\* delivers what was queued (a handler on the worker closed, or the close callback
\* raised), or the close task delivers the callback's error next to a handler.
OneDeliveringTask == ~setup.callbacks /\ (setup.mode = "INLINE" \/ ~setup.closes)

\* "No concurrent event execution inside one connection stream"
\* (docs/architecture.md): at most one handler runs for this connection, however
\* the worker, the read loop and the publication task interleave.  Outside the
\* scope of OneDeliveringTask the code does not keep this; but where delivery is
\* inline "terminal events for a connection stream must not overlap an active
\* handler for that same stream" (docs/lifecycle.md) is kept always.
SequentialDispatch ==
  /\ OneDeliveringTask => Cardinality({t \in Workers : handler[t] \in ConnEvents}) <= 1
  /\ setup.mode = "INLINE" =>
       \A t, u \in Workers : handler[t] = "closed" /\ handler[u] \in ConnEvents => t = u

\* "ConnectionOpenedEvent is published before the first BytesReceivedEvent"
\* (docs/architecture.md), and its handler has returned by then; and once the
\* handler has seen ConnectionClosedEvent it sees nothing more of the connection:
\* no queued or late BytesReceivedEvent, no error event.
OpenedFirstClosedLast ==
  /\ \A t \in Workers : handler[t] = "bytes" => ghost.opened = "ended"
  /\ OneDeliveringTask => ghost.late = {}

\* "at most one successfully completed ConnectionClosedEvent for a close
\* sequence" (docs/lifecycle.md), and _closed_event_published tells the truth
\* about it.  "Connection close callbacks run before the corresponding
\* ConnectionClosedEvent is emitted" (docs/architecture.md), and run once, however
\* often close() is called, retried or raced; and the event names the state before
\* the first close(), also when a failed close is retried from CLOSING or CLOSED.
ClosedPublishedOnce ==
  /\ ghost.published <= 1 /\ (published <=> ghost.published = 1)
  /\ ghost.callbacks <= 1
  /\ publisher # "none" \/ published => ghost.callbacks = 1
  /\ publisher # "none" => previous \in {"CREATED", "CONNECTED"}

\* A call of close() from outside that returns normally has observed the
\* publication: "External close callers do get the waiter so their close()
\* call still observes terminal publication" (asyncio_tcp_connection.py:551).
\* It is kept when no handler closes the connection too.
ExternalCloseObservesClosed ==
  ~setup.closes => \A c \in Closers : call[c] = "returned" => published

\* close() returns, for outside callers, for handlers, for start() and for the
\* read loop: no task waits for itself through the close task.
CloseReturns == \A t \in Tasks : ~Idle(t) ~> Idle(t)

\* close() returns, and so does start(), whoever closes the connection while its
\* opened event is being handled.
StartReturns == opener # "idle" ~> opener = "done"
CallsReturn == CloseReturns /\ StartReturns

\* A close that has begun ends with a published ConnectionClosedEvent.
ClosedEventually == state \in {"CLOSING", "CLOSED"} ~> published
=============================================================================
