--------------------------- MODULE EventDispatcher ---------------------------
(***************************************************************************)
(* AsyncioEventDispatcher (event_dispatcher.py): the bounded queue, its     *)
(* backpressure policies, the background worker, inline delivery, the       *)
(* handler-failure policies, emit-and-wait barriers and the two forms of    *)
(* stop.                                                                    *)
(*                                                                          *)
(* asyncio runs one task at a time and switches only where an await really  *)
(* suspends.  The conditions' locks are never held across a suspension      *)
(* (Condition.wait releases them), so the code between two suspensions is   *)
(* one atomic action here.  A user handler may suspend anywhere, so every   *)
(* step a handler takes is an action of its own.                            *)
(***************************************************************************)
EXTENDS Integers, Sequences, FiniteSets

CONSTANTS
  Producers,            \* tasks that call emit() and emit_and_wait()
  Controllers,          \* tasks that start, stop and clean up the dispatcher
  Worker,               \* the background worker task; also the component's id
  Settings,             \* the EventDeliverySettings dispatchers are built with
  MaxPending,           \* EventDeliverySettings.max_pending_events
  Kinds,                \* the kinds of event the producers emit
  ConditionRenotifies,  \* Condition.wait() passes a notification on when it
                        \* is cancelled: CPython 3.13 and later
  AllowAbort,           \* a handler may raise outside Exception, or the stop
                        \* callback may raise
  EmitBound,            \* bound: calls of emit() and emit_and_wait()
  StartBound,           \* bound: workers created by start()
  NestBound             \* bound: handlers nested on one task

Tasks == Producers \cup {Worker}

KindSet == [bytes : BOOLEAN, wait : BOOLEAN, keep : BOOLEAN]

ASSUME TaskAssumption == /\ Worker \notin Producers
                         /\ IsFiniteSet(Producers)
\* `inline' are the producers created inside inline_delivery_context().
ASSUME SettingsAssumption ==
  Settings \subseteq [mode : {"INLINE", "BACKGROUND"},
                     backpressure : {"BLOCK", "DROP_OLDEST", "DROP_NEWEST"},
                     failure : {"LOG_ONLY", "EMIT_ERROR_EVENT", "STOP_COMPONENT",
                                "RAISE_IN_INLINE_MODE"},
                     inline : SUBSET Producers]
ASSUME BoundAssumption == /\ MaxPending \in Nat \ {0}
                          /\ EmitBound \in Nat
                          /\ StartBound \in Nat
                          /\ NestBound \in Nat
ASSUME FlagAssumption == ConditionRenotifies \in BOOLEAN /\ AllowAbort \in BOOLEAN
\* Only emit_and_wait() takes drop_on_backpressure=False.
ASSUME KindAssumption == /\ Kinds \subseteq KindSet
                         /\ \A k \in Kinds : k.keep => k.wait

VARIABLES
  settings,   \* _delivery, fixed at construction
  worker,     \* "none", or what the task in _worker_task does
  gen,        \* how many workers start() has created
  stopping,   \* _stopping
  queue,      \* _queue: the pending events, ordered by their tickets
  current,    \* the event the worker is delivering
  stack,      \* task -> the handler contexts that are open on it
  pc,         \* task -> where its emit call is suspended, if anywhere
  call,       \* task -> the event of that call
  verdict,    \* task -> the state of the call's `handled' future
  cpc, cgen, cres,  \* controller -> its suspension, awaited worker, resource
  stats,      \* the runtime counters
  ghost       \* history that no code reads

vars == <<settings, worker, gen, stopping, queue, current, stack, pc, call, verdict,
          cpc, cgen, cres, stats, ghost>>

DispatchMode == settings.mode
BackpressurePolicy == settings.backpressure
FailurePolicy == settings.failure
InlineTasks == settings.inline

-----------------------------------------------------------------------------
(***************************************************************************)
(* Data.  An event carries the number of its emit call, the ticket it drew  *)
(* when it was appended (the value of _enqueued_total), the task that       *)
(* emitted it, its resource, whether it is a BytesReceivedEvent, whether a  *)
(* `handled' future is attached, whether it is exempt from backpressure     *)
(* drops, and whether it is a control event of the failure policy.          *)
(***************************************************************************)
Controls == {"data", "error", "policystop"}

Event == [id : Nat, ticket : Nat, task : Tasks, res : Tasks, bytes : BOOLEAN,
          wait : BOOLEAN, keep : BOOLEAN, control : Controls]

Plain == [bytes |-> FALSE, wait |-> FALSE, keep |-> FALSE]

NewEvent(t, k, control) ==
  [id |-> stats.emitCalls + 1, ticket |-> 0, task |-> t,
   res |-> IF control = "data" THEN t ELSE Worker,
   bytes |-> k.bytes, wait |-> k.wait, keep |-> k.keep, control |-> control]

NoCall == [id |-> 0, ticket |-> 0, task |-> Worker, res |-> Worker,
           bytes |-> FALSE, wait |-> FALSE, keep |-> FALSE, control |-> "data"]

\* One entry of _active_handler_origin_tokens with its resource.  "stopcb" is
\* the origin-only context around the stop callback.
FrameKinds == Controls \cup {"stopcb", "stopcbdone"}
Frame == [kind : FrameKinds, res : Tasks]
FrameOf_NoResource(e) == [kind |-> e.control, res |-> "none"]
FrameOf(e) == [kind |-> e.control, res |-> e.res]

\* DispatcherRuntimeStats, without the current depth.
Counters == [emitCalls : Nat, enqueued : Nat, attempts : Nat, failures : Nat,
             inline : Nat, oldest : Nat, newest : Nat, stop : Nat, peak : Nat]

WorkerStates == {"none", "ready", "waiting", "busy"}
Suspensions == {"run", "blocked", "woken", "await", "await_cancelled"}
Verdicts == {"none", "pending", "handled", "dropped", "failed"}
ControllerStates == {"idle", "stopping", "ctxwait", "ctxwoken"}

\* begun: the last emit call of each task whose delivery began; finished: the
\* calls whose delivery by the worker ended; direct: control events delivered
\* without an emit call; cancelled: calls cancelled while blocked; abandoned:
\* queued events an aborting worker discarded.
History == [begun : [Tasks -> Nat], finished : SUBSET Nat,
            direct : Nat, cancelled : Nat, abandoned : Nat]

Blocked == {t \in Tasks : pc[t] = "blocked"}
Woken == {t \in Tasks : pc[t] = "woken"}

Top(s) == s[Len(s)]
Pop(s) == SubSeq(s, 1, Len(s) - 1)

Max2(a, b) == IF a >= b THEN a ELSE b

-----------------------------------------------------------------------------
Init ==
  /\ settings \in Settings
  /\ worker = "none"
  /\ gen = 0
  /\ stopping = FALSE
  /\ queue = {}
  /\ current = NoCall
  /\ stack = [t \in Tasks |-> <<>>]
  /\ pc = [t \in Tasks |-> "run"]
  /\ call = [t \in Tasks |-> NoCall]
  /\ verdict = [t \in Tasks |-> "none"]
  /\ cpc = [c \in Controllers |-> "idle"]
  /\ cgen = [c \in Controllers |-> 0]
  /\ cres = [c \in Controllers |-> Worker]
  /\ stats = [emitCalls |-> 0, enqueued |-> 0, attempts |-> 0, failures |-> 0,
              inline |-> 0, oldest |-> 0, newest |-> 0, stop |-> 0, peak |-> 0]
  /\ ghost = [begun |-> [t \in Tasks |-> 0], finished |-> {},
              direct |-> 0, cancelled |-> 0, abandoned |-> 0]

-----------------------------------------------------------------------------
(***************************************************************************)
(* Pieces the operations share.  An operator whose name has a suffix        *)
(* (X_Suffix) is X with one seeded fault; no action uses it.                *)
(***************************************************************************)

\* Condition.notify() on _queue_not_empty: only the worker ever waits there.
Roused_Unheard == worker
Roused == IF worker = "waiting" THEN "ready" ELSE worker

\* Condition.notify_all() on _queue_not_full.
AllWoken_Unheard == pc
AllWoken == [t \in Tasks |-> IF pc[t] = "blocked" THEN "woken" ELSE pc[t]]

\* Condition.notify() on _queue_not_full: one waiter, if there is one.
NotifyNotFull_Unheard(pcs) == pc' = pcs
NotifyNotFull(pcs) ==
  LET waiting == {t \in Tasks : pcs[t] = "blocked"}
  IN  IF waiting = {} THEN pc' = pcs
      ELSE \E w \in waiting : pc' = [pcs EXCEPT ![w] = "woken"]

\* drop_queued_event() / complete_queued_event() / fail_queued_event() on the
\* events of S: only the attached futures are touched.
Settled_Forgotten(S, outcome) == verdict
Settled_AsHandled(S, outcome) ==
  [t \in Tasks |-> IF \E e \in S : e.wait /\ e.task = t THEN "handled" ELSE verdict[t]]
Settled(S, outcome) ==
  [t \in Tasks |-> IF \E e \in S : e.wait /\ e.task = t THEN outcome ELSE verdict[t]]

\* _notify_handler_context_changed(): every wait_for_handler_context() rechecks.
ContextChanged_Unheard == cpc' = cpc
ContextChanged ==
  cpc' = [c \in Controllers |-> IF cpc[c] = "ctxwait" THEN "ctxwoken" ELSE cpc[c]]

\* The i-th context of t is open.  The one of a stop callback opens when the
\* control event before it is out.
IsOpen(t, i) ==
  stack[t][i].kind = "stopcb" =>
    IF i < Len(stack[t]) THEN stack[t][i + 1].kind # "policystop"
    ELSE pc[t] = "run" \/ call[t].control # "policystop"

\* has_active_handler_context(r)
ActiveHandlerContext(r) ==
  \E t \in Tasks : \E i \in 1..Len(stack[t]) : stack[t][i].res = r /\ IsOpen(t, i)

\* The head of the deque, and of what is left of it after a filter.
IsOldestOf_Newest(e, S) == e \in S /\ \A f \in S : e.ticket >= f.ticket
IsOldestOf(e, S) == e \in S /\ \A f \in S : e.ticket <= f.ticket

Droppable == {e \in queue : ~e.keep}

\* The branches of emit() and emit_and_wait() that deliver in the caller.
DeliversInline_NotOnWorker(t) ==
  DispatchMode = "INLINE" \/ t \in InlineTasks \/ (~stopping /\ worker = "none")
DeliversInline(t) ==
  \/ DispatchMode = "INLINE"
  \/ t \in InlineTasks
  \/ ~stopping /\ (t = Worker \/ worker = "none")

-----------------------------------------------------------------------------
(***************************************************************************)
(* _enqueue(): one pass of its loop.  s is the counters as the pass finds   *)
(* them.  Each alternative is one way out of the pass.                      *)
(***************************************************************************)

\* _accepting_background_events()
Accepting_Always == TRUE
Accepting == ~stopping

HasRoom_OffByOne == Cardinality(queue) <= MaxPending
HasRoom == Cardinality(queue) < MaxPending

\* The enqueue call of t returns; a barrier goes on to await its future.
Accepted(t, f) ==
  /\ pc' = [pc EXCEPT ![t] = IF f.wait THEN "await" ELSE "run"]
  /\ call' = [call EXCEPT ![t] = IF f.wait THEN f ELSE NoCall]

Refused(t) ==
  /\ pc' = [pc EXCEPT ![t] = "run"]
  /\ call' = [call EXCEPT ![t] = NoCall]

AppendEvent(t, e, s) ==
  LET f == [e EXCEPT !.ticket = s.enqueued + 1]
  IN  /\ Accepting /\ HasRoom
      /\ queue' = queue \cup {f}
      /\ stats' = [s EXCEPT !.enqueued = @ + 1,
                            !.peak = Max2(s.peak, Cardinality(queue) + 1)]
      /\ Accepted(t, f)
      /\ verdict' = [verdict EXCEPT ![t] = IF f.wait THEN "pending" ELSE "none"]
      /\ worker' = Roused

MustWait(e) ==
  CASE BackpressurePolicy = "BLOCK" -> TRUE
    [] BackpressurePolicy = "DROP_OLDEST" -> Droppable = {} /\ e.keep
    [] BackpressurePolicy = "DROP_NEWEST" -> e.keep

WaitForSpace(t, e, s) ==
  /\ Accepting /\ ~HasRoom
  /\ MustWait(e)
  /\ pc' = [pc EXCEPT ![t] = "blocked"]
  /\ call' = [call EXCEPT ![t] = e]
  /\ stats' = s
  /\ UNCHANGED <<worker, queue, verdict>>

EvictOldest(t, e, s) ==
  LET f == [e EXCEPT !.ticket = s.enqueued + 1]
  IN  /\ Accepting /\ ~HasRoom
      /\ BackpressurePolicy = "DROP_OLDEST"
      /\ \E v \in Droppable :
           /\ IsOldestOf(v, Droppable)
           /\ queue' = (queue \ {v}) \cup {f}
           /\ verdict' = [Settled({v}, "dropped") EXCEPT
                            ![t] = IF f.wait THEN "pending" ELSE "none"]
      /\ stats' = [s EXCEPT !.enqueued = @ + 1, !.oldest = @ + 1,
                            !.peak = Max2(s.peak, Cardinality(queue))]
      /\ Accepted(t, f)
      /\ worker' = Roused

DropNewest(t, e, s) ==
  /\ Accepting /\ ~HasRoom
  /\ ~MustWait(e)
  /\ BackpressurePolicy = "DROP_OLDEST" => Droppable = {}
  /\ stats' = [s EXCEPT !.newest = @ + 1]
  /\ Refused(t)
  /\ UNCHANGED <<worker, queue, verdict>>

\* _record_stop_phase_drop() and the drop of the call's own future.
DropInStopPhase_Uncounted(t, s) ==
  /\ ~Accepting
  /\ stats' = s
  /\ Refused(t)
  /\ UNCHANGED <<worker, queue, verdict>>
DropInStopPhase(t, s) ==
  /\ ~Accepting
  /\ stats' = [s EXCEPT !.stop = @ + 1]
  /\ Refused(t)
  /\ UNCHANGED <<worker, queue, verdict>>

Enqueue(t, e, s) ==
  \/ AppendEvent(t, e, s)
  \/ WaitForSpace(t, e, s)
  \/ EvictOldest(t, e, s)
  \/ DropNewest(t, e, s)
  \/ DropInStopPhase(t, s)

(***************************************************************************)
(* Task t calls emit(e) or emit_and_wait(e); `below' are the handler        *)
(* contexts that stay open under the call.                                  *)
(***************************************************************************)
\* The counters as the call leaves them to its delivery; only a failed handler
\* emits a control event, and _record_handler_failure() has counted it.
Called(e) == [stats EXCEPT !.emitCalls = @ + 1,
                           !.failures = @ + IF e.control = "data" THEN 0 ELSE 1]

EmitInline(t, e, below) ==
  /\ DeliversInline(t)
  /\ stack' = [stack EXCEPT ![t] = Append(below, FrameOf(e))]
  /\ stats' = [Called(e) EXCEPT !.attempts = @ + 1,
                                !.inline = @ + IF DispatchMode = "INLINE" THEN 0 ELSE 1]
  /\ ghost' = [ghost EXCEPT !.begun[t] = e.id]
  /\ UNCHANGED <<worker, queue, pc, call, verdict>>

EmitToQueue(t, e, below) ==
  /\ ~DeliversInline(t)
  /\ stack' = [stack EXCEPT ![t] = below]
  /\ Enqueue(t, e, Called(e))
  /\ UNCHANGED ghost

Emit(t, e, below) ==
  /\ stats.emitCalls < EmitBound
  /\ Len(below) < NestBound
  /\ EmitInline(t, e, below) \/ EmitToQueue(t, e, below)
  /\ UNCHANGED <<gen, stopping, current, cgen, cres>>

-----------------------------------------------------------------------------
(***************************************************************************)
(* Producers.                                                               *)
(***************************************************************************)
ProducerEmits(t) ==
  /\ pc[t] = "run" /\ stack[t] = <<>>
  /\ \E k \in Kinds : Emit(t, NewEvent(t, k, "data"), <<>>)
  /\ UNCHANGED <<settings, cpc>>

\* A notified producer runs the loop of _enqueue() again.
ProducerRetries(t) ==
  /\ pc[t] = "woken"
  /\ Enqueue(t, call[t], stats)
  /\ UNCHANGED <<settings, gen, stopping, current, stack, cpc, cgen, cres, ghost>>

\* emit_and_wait() sees its future done.  If the caller was cancelled
\* meanwhile and the event was handled, CancelledError unwinds its handlers.
BarrierReturns(t) ==
  /\ pc[t] \in {"await", "await_cancelled"}
  /\ verdict[t] # "pending"
  /\ LET unwinds == pc[t] = "await_cancelled" /\ verdict[t] = "handled"
     IN  /\ stack' = [stack EXCEPT ![t] = IF unwinds THEN <<>> ELSE @]
         /\ IF unwinds THEN ContextChanged ELSE UNCHANGED cpc
  /\ pc' = [pc EXCEPT ![t] = "run"]
  /\ call' = [call EXCEPT ![t] = NoCall]
  /\ verdict' = [verdict EXCEPT ![t] = "none"]
  /\ UNCHANGED <<settings, worker, gen, stopping, queue, current, cgen, cres, stats, ghost>>

\* Cancelling a caller inside emit_and_wait() is deferred: it waits on.
CancelBarrier(t) ==
  /\ pc[t] = "await"
  /\ pc' = [pc EXCEPT ![t] = "await_cancelled"]
  /\ UNCHANGED <<settings, worker, gen, stopping, queue, current, stack, call, verdict,
                 cpc, cgen, cres, stats, ghost>>

\* Cancelling a producer inside Condition.wait(): its event is forgotten and
\* the CancelledError unwinds the handlers it runs in.
CancelBlocked(t) ==
  /\ pc[t] \in {"blocked", "woken"}
  /\ LET gone == [pc EXCEPT ![t] = "run"]
     IN  IF ConditionRenotifies THEN NotifyNotFull(gone) ELSE pc' = gone
  /\ call' = [call EXCEPT ![t] = NoCall]
  /\ stack' = [stack EXCEPT ![t] = <<>>]
  /\ ContextChanged
  /\ ghost' = [ghost EXCEPT !.cancelled = @ + 1]
  /\ UNCHANGED <<settings, worker, gen, stopping, queue, current, verdict, cgen, cres, stats>>

-----------------------------------------------------------------------------
(***************************************************************************)
(* The worker: _run().                                                      *)
(***************************************************************************)
WorkerTakes ==
  /\ worker = "ready"
  /\ \E e \in queue :
       /\ IsOldestOf(e, queue)
       /\ queue' = queue \ {e}
       /\ current' = e
       /\ stack' = [stack EXCEPT ![Worker] = <<FrameOf(e)>>]
       /\ ghost' = [ghost EXCEPT !.begun[e.task] = e.id]
  /\ worker' = "busy"
  /\ NotifyNotFull(pc)
  /\ stats' = [stats EXCEPT !.attempts = @ + 1]
  /\ UNCHANGED <<settings, gen, stopping, call, verdict, cpc, cgen, cres>>

WorkerSleeps ==
  /\ worker = "ready" /\ queue = {} /\ ~stopping
  /\ worker' = "waiting"
  /\ UNCHANGED <<settings, gen, stopping, queue, current, stack, pc, call, verdict,
                 cpc, cgen, cres, stats, ghost>>

WorkerExits_Undrained ==
  /\ worker = "ready" /\ stopping
  /\ worker' = "none"
  /\ UNCHANGED <<settings, gen, stopping, queue, current, stack, pc, call, verdict,
                 cpc, cgen, cres, stats, ghost>>
WorkerExits ==
  /\ worker = "ready" /\ queue = {} /\ stopping
  /\ worker' = "none"
  /\ UNCHANGED <<settings, gen, stopping, queue, current, stack, pc, call, verdict,
                 cpc, cgen, cres, stats, ghost>>

\* A BaseException leaves _emit_now(): the `finally' of _run().  The queue is
\* emptied without a counter and without a notification of blocked producers.
WorkerAborts ==
  /\ AllowAbort
  /\ worker = "busy" /\ pc[Worker] = "run"
  /\ verdict' = Settled({current} \cup queue, "failed")
  /\ queue' = {}
  /\ current' = NoCall
  /\ stack' = [stack EXCEPT ![Worker] = <<>>]
  /\ worker' = "none"
  /\ ContextChanged
  /\ ghost' = [ghost EXCEPT !.abandoned = @ + Cardinality(queue)]
  /\ UNCHANGED <<settings, gen, stopping, pc, call, cgen, cres, stats>>

-----------------------------------------------------------------------------
(***************************************************************************)
(* Handlers, on the worker or inline on a producer.                         *)
(***************************************************************************)
InHandler(t) == pc[t] = "run" /\ stack[t] # <<>>

\* The innermost context of t closes.  When it was the worker's outermost one,
\* the delivery is complete and the worker is back at the head of its loop.
CloseContext(t) ==
  LET ends == t = Worker /\ Len(stack[t]) = 1
  IN  /\ stack' = [stack EXCEPT ![t] = Pop(@)]
      /\ ContextChanged
      /\ worker' = IF ends THEN "ready" ELSE worker
      /\ current' = IF ends THEN NoCall ELSE current
      /\ verdict' = IF ends THEN Settled({current}, "handled") ELSE verdict
      /\ ghost' = IF ends THEN [ghost EXCEPT !.finished = @ \cup {current.id}] ELSE ghost

HandlerReturns(t) ==
  /\ InHandler(t)
  /\ Top(stack[t]).kind # "stopcb"
  /\ CloseContext(t)
  /\ UNCHANGED <<settings, gen, stopping, queue, pc, call, cgen, cres, stats>>

\* A handler calls emit() or emit_and_wait().
HandlerEmits(t) ==
  /\ InHandler(t)
  /\ \E k \in Kinds : Emit(t, NewEvent(t, k, "data"), stack[t])
  /\ UNCHANGED <<settings, cpc>>

\* _handle_handler_failure() returns, or re-raises to the emitter, at once.
FailureEndsDelivery(kind) ==
  \/ FailurePolicy \in {"LOG_ONLY", "RAISE_IN_INLINE_MODE"}
  \/ FailurePolicy = "EMIT_ERROR_EVENT" /\ kind = "error"
  \/ FailurePolicy = "STOP_COMPONENT" /\ kind = "policystop"

HandlerFailsQuietly(t) ==
  /\ InHandler(t)
  /\ Top(stack[t]).kind \in Controls
  /\ FailureEndsDelivery(Top(stack[t]).kind)
  /\ CloseContext(t)
  /\ stats' = [stats EXCEPT !.failures = @ + 1]
  /\ UNCHANGED <<settings, gen, stopping, queue, pc, call, cgen, cres>>

\* The control event of the policy, and the contexts open beneath it: the one
\* of the failed handler is closed; under STOP_COMPONENT the one of the stop
\* callback follows.
ControlEvent(t) ==
  NewEvent(t, Plain, IF FailurePolicy = "EMIT_ERROR_EVENT" THEN "error" ELSE "policystop")

BelowControl(t) ==
  IF FailurePolicy = "EMIT_ERROR_EVENT" THEN Pop(stack[t])
  ELSE Append(Pop(stack[t]), [kind |-> "stopcb", res |-> Top(stack[t]).res])

\* On the worker the control event is delivered directly, not through emit().
WorkerHandlerFails ==
  /\ InHandler(Worker)
  /\ Top(stack[Worker]).kind \in Controls
  /\ ~FailureEndsDelivery(Top(stack[Worker]).kind)
  /\ Len(BelowControl(Worker)) < NestBound
  /\ stack' = [stack EXCEPT ![Worker] = Append(BelowControl(Worker), FrameOf(ControlEvent(Worker)))]
  /\ stats' = [stats EXCEPT !.failures = @ + 1, !.attempts = @ + 1]
  /\ ghost' = [ghost EXCEPT !.direct = @ + 1]
  /\ ContextChanged
  /\ UNCHANGED <<settings, worker, gen, stopping, queue, current, pc, call, verdict, cgen, cres>>

\* Elsewhere it goes through emit(), and may be queued, blocked or dropped.
InlineHandlerFails(t) ==
  /\ t # Worker
  /\ InHandler(t)
  /\ Top(stack[t]).kind \in Controls
  /\ ~FailureEndsDelivery(Top(stack[t]).kind)
  /\ Emit(t, ControlEvent(t), BelowControl(t))
  /\ ContextChanged
  /\ UNCHANGED settings

\* stop() past its notifications, on the worker or in a stop-bypass context:
\* what is queued is dropped and the worker is not awaited.
StopWithoutWaiting ==
  /\ stopping' = TRUE
  /\ IF worker = "none"
     THEN UNCHANGED <<worker, queue, pc, verdict, stats>>
     ELSE /\ worker' = Roused
          /\ pc' = AllWoken
          /\ verdict' = Settled(queue, "dropped")
          /\ stats' = [stats EXCEPT !.stop = @ + Cardinality(queue)]
          /\ queue' = {}
  /\ UNCHANGED <<gen, current, call, cpc, cgen, cres, ghost>>

\* A handler stops the dispatcher through its component.
HandlerStops(t) ==
  /\ InHandler(t)
  /\ StopWithoutWaiting
  /\ UNCHANGED <<settings, stack>>

\* The stop callback of STOP_COMPONENT: it stops the dispatcher, unless the
\* component finds a stop already under way.
StopCallback(t) ==
  /\ InHandler(t)
  /\ Top(stack[t]).kind = "stopcb"
  /\ stack' = [stack EXCEPT ![t] = [@ EXCEPT ![Len(@)].kind = "stopcbdone"]]
  /\ \/ StopWithoutWaiting
     \/ UNCHANGED <<worker, gen, stopping, queue, current, pc, call, verdict,
                    cpc, cgen, cres, stats, ghost>>
  /\ UNCHANGED settings

-----------------------------------------------------------------------------
(***************************************************************************)
(* Controllers.                                                             *)
(***************************************************************************)
Start(c) ==
  /\ cpc[c] = "idle" /\ gen < StartBound
  /\ DispatchMode = "BACKGROUND"
  /\ worker = "none"
  /\ stopping' = FALSE
  /\ worker' = "ready"
  /\ gen' = gen + 1
  /\ UNCHANGED <<settings, queue, current, stack, pc, call, verdict, cpc, cgen, cres, stats, ghost>>

\* stop() from an ordinary task.
StopCalled(c) ==
  /\ cpc[c] = "idle"
  /\ stopping' = TRUE
  /\ IF worker = "none"
     THEN UNCHANGED <<worker, pc, cpc, cgen>>
     ELSE /\ worker' = Roused
          /\ pc' = AllWoken
          /\ cpc' = [cpc EXCEPT ![c] = "stopping"]
          /\ cgen' = [cgen EXCEPT ![c] = gen]
  /\ UNCHANGED <<settings, gen, queue, current, stack, call, verdict, cres, stats, ghost>>

StopReturns(c) ==
  /\ cpc[c] = "stopping"
  /\ worker = "none" \/ gen # cgen[c]
  /\ cpc' = [cpc EXCEPT ![c] = "idle"]
  /\ cgen' = [cgen EXCEPT ![c] = 0]
  /\ UNCHANGED <<settings, worker, gen, stopping, queue, current, stack, pc, call, verdict,
                 cres, stats, ghost>>

\* The caller of stop() is cancelled: asyncio.shield() spares the worker.
StopCancelled(c) ==
  /\ cpc[c] = "stopping"
  /\ cpc' = [cpc EXCEPT ![c] = "idle"]
  /\ cgen' = [cgen EXCEPT ![c] = 0]
  /\ UNCHANGED <<settings, worker, gen, stopping, queue, current, stack, pc, call, verdict,
                 cres, stats, ghost>>

StopFromHandlerOrigin(c) ==
  /\ cpc[c] = "idle"
  /\ StopWithoutWaiting
  /\ UNCHANGED <<settings, stack>>

DropQueuedEventsForResource(c, r) ==
  LET dropped == {e \in queue : e.bytes /\ e.res = r}
  IN  /\ cpc[c] = "idle"
      /\ dropped # {}
      /\ queue' = queue \ dropped
      /\ stats' = [stats EXCEPT !.stop = @ + Cardinality(dropped)]
      /\ verdict' = Settled(dropped, "dropped")
      /\ pc' = AllWoken
      /\ UNCHANGED <<settings, worker, gen, stopping, current, stack, call, cpc, cgen, cres, ghost>>

WaitForHandlerContext(c, r) ==
  /\ cpc[c] = "idle"
  /\ ActiveHandlerContext(r)
  /\ cpc' = [cpc EXCEPT ![c] = "ctxwait"]
  /\ cres' = [cres EXCEPT ![c] = r]
  /\ UNCHANGED <<settings, worker, gen, stopping, queue, current, stack, pc, call, verdict,
                 cgen, stats, ghost>>

\* The recheck after a notification.
HandlerContextRecheck(c) ==
  /\ cpc[c] = "ctxwoken"
  /\ LET active == ActiveHandlerContext(cres[c])
     IN  /\ cpc' = [cpc EXCEPT ![c] = IF active THEN "ctxwait" ELSE "idle"]
         /\ cres' = [cres EXCEPT ![c] = IF active THEN @ ELSE Worker]
  /\ UNCHANGED <<settings, worker, gen, stopping, queue, current, stack, pc, call, verdict,
                 cgen, stats, ghost>>

-----------------------------------------------------------------------------
WorkerLoop == WorkerTakes \/ WorkerSleeps \/ WorkerExits

\* What a handler does once it has its turn, other than emitting.
HandlerStep(t) == \/ HandlerReturns(t)
                  \/ StopCallback(t)
                  \/ HandlerFailsQuietly(t)
                  \/ InlineHandlerFails(t)
                  \/ t = Worker /\ WorkerHandlerFails

ProducerStep(t) == ProducerRetries(t) \/ BarrierReturns(t)

ControllerStep(c) == StopReturns(c) \/ HandlerContextRecheck(c)

Next ==
  \/ \E t \in Producers : ProducerEmits(t) \/ CancelBarrier(t) \/ CancelBlocked(t)
  \/ \E t \in Tasks : ProducerStep(t) \/ HandlerStep(t) \/ HandlerEmits(t) \/ HandlerStops(t)
  \/ WorkerLoop
  \/ WorkerAborts
  \/ \E c \in Controllers :
       \/ Start(c) \/ StopCalled(c) \/ StopCancelled(c) \/ StopFromHandlerOrigin(c)
       \/ ControllerStep(c)
       \/ \E r \in Tasks : DropQueuedEventsForResource(c, r) \/ WaitForHandlerContext(c, r)

Spec == Init /\ [][Next]_vars

(***************************************************************************)
(* The event loop runs every ready task, and handlers terminate.            *)
(***************************************************************************)
Fairness ==
  /\ WF_vars(WorkerLoop)
  /\ \A t \in Tasks : WF_vars(ProducerStep(t)) /\ WF_vars(HandlerStep(t))
  /\ \A c \in Controllers : WF_vars(ControllerStep(c))

FairSpec == Spec /\ Fairness
-----------------------------------------------------------------------------
(***************************************************************************)
(* Properties.                                                              *)
(***************************************************************************)

\* Every variable has its type; the counters never go negative and the handler
\* contexts of every task stay well formed through every unwinding.
TypeOK ==
  /\ settings \in Settings
  /\ worker \in WorkerStates
  /\ gen \in Nat
  /\ stopping \in BOOLEAN
  /\ queue \subseteq Event /\ IsFiniteSet(queue)
  /\ current \in Event
  /\ stack \in [Tasks -> Seq(Frame)]
  /\ pc \in [Tasks -> Suspensions]
  /\ call \in [Tasks -> Event]
  /\ verdict \in [Tasks -> Verdicts]
  /\ cpc \in [Controllers -> ControllerStates]
  /\ cgen \in [Controllers -> Nat]
  /\ cres \in [Controllers -> Tasks]
  /\ stats \in Counters
  /\ ghost \in History

\* Bounded queueing (docs/architecture.md: "bounded queueing only"): whatever
\* producers retry or barge in after a wake-up, _queue never exceeds
\* max_pending_events, and queue_peak has seen every length it had.
QueueBounded == /\ Cardinality(queue) <= stats.peak
                /\ stats.peak <= MaxPending

\* The published counters account for every emit call exactly once: it was
\* handed to the handler, is queued, is blocked for space, was cancelled while
\* blocked, or was dropped for exactly one counted reason.  (Control events the
\* worker delivers directly are attempts without a call; only an aborted worker
\* loses queued events without counting them.)
EveryEmitAccountedFor ==
  stats.emitCalls + ghost.direct
    = stats.attempts + Cardinality(queue) + stats.oldest + stats.newest + stats.stop
      + Cardinality(Blocked \cup Woken) + ghost.cancelled + ghost.abandoned

\* emit_and_wait() never hangs on an event nobody holds: while a `handled'
\* future is pending, its event is in the queue or in the worker's hands, and
\* there is a worker.  Eviction, both stops, resource cleanup and a cancelled
\* caller all keep this.
NoStrandedBarrier ==
  \A t \in Tasks :
    verdict[t] = "pending" =>
      /\ worker # "none"
      /\ call[t] \in queue \/ (worker = "busy" /\ current = call[t])

\* A barrier tells the truth: it reports success only for an event whose
\* delivery came to an end, and a drop only for one that never began.
BarrierTellsTheTruth ==
  \A t \in Tasks :
    /\ verdict[t] = "handled" => call[t].id \in ghost.finished
    /\ verdict[t] = "dropped" => ghost.begun[t] # call[t].id

\* The worker is never suspended in the dispatcher's own emit path: handlers
\* that emit, and control events of the failure policies, cannot make it wait
\* for the space or the delivery that only it can provide.
WorkerNeverWaitsOnItself == pc[Worker] = "run"

\* No lost wake-up on _queue_not_empty: a sleeping worker has nothing to do.
NoSleepingOnTheJob == worker = "waiting" => queue = {} /\ ~stopping

\* No lost wake-up on _queue_not_full: a producer sleeps only while a pop is
\* still to come that will notify, or another producer has been notified.
NoLostSpaceWakeup == Blocked # {} => queue # {} \/ Woken # {}

\* stop() "release[s] blocked producers" (event_dispatcher.py:199).
StopReleasesProducers == stopping => Blocked = {}

\* Without a worker nothing is left behind: no queued event, no open handler
\* context on the worker.
NothingLeftBehind == worker = "none" => queue = {} /\ stack[Worker] = <<>>

\* No lost wake-up in wait_for_handler_context(): who still sleeps has an open
\* handler context of its resource to wait for.
NoLostContextWakeup ==
  \A c \in Controllers : cpc[c] = "ctxwait" => ActiveHandlerContext(cres[c])

\* Once stop has begun no event enters the queue until the next start().
StopAdmitsNothing == [][stopping /\ stopping' => stats'.enqueued = stats.enqueued]_vars

\* The queue of the dispatcher is a Mailbox: bounded, served in order and one
\* event at a time, exempt events lost to nothing but stop, cleanup and abort.
Box == INSTANCE Mailbox WITH Message <- Event, None <- NoCall, Capacity <- MaxPending,
                             box <- queue, serving <- current, open <- ~stopping
ImplementsMailbox == Box!MailboxSpec

\* stop() returns: no handler, producer or barrier keeps the worker alive.
StopTerminates == \A c \in Controllers : []<>(cpc[c] # "stopping")

\* A producer blocked for space gets it, is dropped, or is released by stop.
BlockedProducersReturn == \A t \in Producers : pc[t] = "blocked" ~> pc[t] # "blocked"

\* Nobody is kept in the dispatcher: stop() returns, and so does every emit() and
\* emit_and_wait() of a producer, through handlers that fail, with the control
\* events and stop callbacks that follow, nested emits and a restart.
EmitsReturn == \A t \in Producers : []<>(pc[t] = "run")
CallsReturn == StopTerminates /\ EmitsReturn
=============================================================================
