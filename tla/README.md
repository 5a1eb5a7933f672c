# TLA+ models of aionetx

aionetx is an asyncio networking library: TCP client and server, UDP and
multicast receivers, a UDP sender, all reporting to one user handler through an
event dispatcher. Everything runs on one event loop, so there are no data races
between threads; what is hard is what happens between two `await`s: handlers
that call back into the component that called them, stops that overlap starts,
cancellation of a task that others wait for, and terminal events that must come
last and exactly once.

This directory holds the models of that behaviour, the TLC configurations that
check them, and TLAPS proofs. `PROJECT.json` is the index: which definition
models which lines, which run checks which property, and which hazard of the
code each property is for. Source paths below are relative to
`src/aionetx/implementations/asyncio_impl/` of the repository.

Contents: 1 inventory, 2 modules and how they correspond to the code, 3 runs,
bounds and fairness, 4 what is proved, 5 disagreements with the documentation,
6 what is not modelled, 7 plan.

## 1. Inventory

| Component | State it keeps | Operations | Correct when |
| --- | --- | --- | --- |
| Event dispatcher (`event_dispatcher.py`, `_event_dispatcher_queue.py`, `_event_dispatcher_policy.py`) | bounded queue, worker task, stopping flag, two conditions, handler contexts per task, counters | `start`, `stop`, `stop_from_handler_origin`, `emit`, `emit_and_wait`, `drop_queued_events_for_resource`, `wait_for_handler_context` | bounded, FIFO, no lost wake-up, no barrier left waiting, counters add up, stop ends |
| TCP connection (`asyncio_tcp_connection.py`, `_tcp_connection_helpers.py`) | connection state, read task, shared close task, publication task, deferral flag and waiter | `start`, read loop, `close`, `send` | one `ConnectionClosedEvent`, after the close callback, last in its stream, never beside another handler; `close` returns |
| Datagram receivers (`_asyncio_datagram_receiver_base.py`, `asyncio_udp_receiver.py`, `asyncio_multicast_receiver.py`, `_datagram_receiver_state.py`) | lifecycle state, socket, receive task, opened barrier, stop waiter and owner | `start`, receive loop, `stop` (ordinary, deferred, joined) | a stopped receiver holds nothing; each life is told in order; calls return |
| TCP client and supervisor (`asyncio_tcp_client.py`, `tcp_client_supervision.py`, `_tcp_client_*.py`) | lifecycle state, supervisor task, current connection, heartbeat sender, closed event, stop waiter | `start`, connect/reconnect loop, close callback, `stop`, `wait_until_connected` | nothing it opened escapes it; stop leaves nothing; a lost connection is noticed |
| Heartbeat sender (`asyncio_heartbeat_sender.py`) | running flag, task | `start`, `stop`, tick loop | its task ends with its connection or its owner |
| TCP server (`asyncio_tcp_server.py`, `_tcp_server_helpers.py`, `_tcp_server_stop_state.py`) | lifecycle state, listener, connections and heartbeats by id, stop waiter | `start`, accept, `broadcast`, close callback, `stop` (by tasks and by a handler) | limit kept, slots given back, stop closes every connection, failed sends close theirs |
| UDP sender (`asyncio_udp_sender.py`) | lazily created socket, closed flag | `send` (native or polling), `stop` | no socket and no datagram after stop; sends return |
| Lifecycle transitions (`lifecycle_internal.py`) | a transition table per role | `apply` | only legal transitions, one event each |
| Rate limiter, backoff, cancellation-preserving awaits (`runtime_utils.py`) | last log time per key, in dict order; current delay | `should_log`; `next_delay`, `reset` | bounded table, one message per interval; delay within its limits |
| Settings, events, protocols, router, factory, identifiers, testing helpers | none | construction and validation | |

**Interactions.** Every component owns a dispatcher, or shares its owner's: the
connections of a client or a server emit through that of their owner. A
component calls `emit`/`emit_and_wait` and may suspend there; the dispatcher
calls the user's handler, on its worker (`BACKGROUND`) or in the emitting task
(`INLINE`); the handler may call any public operation of the component that is
suspended in that very call. A connection calls back into its client or server
when its socket is closed, before it publishes `ConnectionClosedEvent`. A failed
handler under `STOP_COMPONENT` makes the dispatcher call the component's `stop`.

**What is hard.** (a) The queue's two conditions and the cancellation of waiters.
(b) Barriers (`emit_and_wait`) whose event is evicted, dropped by a stop or lost
with the worker. (c) A close or stop that may not publish its terminal event
while a handler of the same stream runs, and so leaves the publication to another
task: which one, and does it exist? (d) `start()` that awaits a barrier while
`stop()` runs to completion. (e) Cancellation of the owner of a stop that others
have joined. (f) State read before an await and used after it: the current
connection, the heartbeat sender, the opening task, the socket of a sender. All are listed in
`PROJECT.json` under `hazards`, at the line where they bite.

## 2. Modules

| Module | Models | State and actions |
| --- | --- | --- |
| `EventDispatcher` | the dispatcher, complete but for context inheritance by child tasks | `queue` is a set of events with tickets (the position in the deque is the order of tickets); `pc` says where a task is suspended in `_enqueue` or a barrier; `stack` holds the handler contexts of each task; `stats` are the published counters; `ghost` holds history for the properties. One action per suspension-free stretch of `emit`, `_enqueue`, `_run`, `stop`, ... |
| `Mailbox` | the abstract specification of the background queue: a bounded box, served one at a time and oldest first, in which exempt messages are lost only to stop, clean-up or abort | `EventDispatcher` implements it through `Box == INSTANCE Mailbox WITH ...` |
| `TcpConnection` | `start()` with its ready callback and opened barrier, read loop, close task, deferral, both deferred publishers, publication task with failure and retry | `opener`, `reader`, `closer`, `publisher`, `handoff`, `deferrer` are the positions of the tasks; `handler` says which event each task is delivering; `call` is the state of every `close()` call |
| `DatagramReceiver` | `start()` with two barriers, rollbacks and hand-off; receive loop; `stop()` ordinary, deferred, joined, re-entered and cancelled | `stop` is the snapshot, provenance and execution state of the owned stop; `turn` is the task that has not suspended yet |
| `TcpClient` | `start()` and rollback, the supervisor's loop, failure path and finalisation, the close callback, `stop()` owned, joined, cancelled and called by a handler | `sup` is the position of every supervisor task; `conn` the state of every connection and its close task; `release` what each task awaits while it releases heartbeat and connection; `stop` the plan of the owned stop |
| `TcpServer` | `start()` with its bind, failures and rollbacks; `handle_accepted_client` with the limit; heartbeats; `broadcast`; `stop()` owned, joined, cancelled and called by the payload handler | `listener` says who holds the listening socket; `accept` is the position of each accepted client's task; `registered`, `senders`, `beating` are the two tables and the live heartbeat tasks; `cast` and `stop` are what a broadcast and a stop still have to do |
| `UdpSender` | `send()` on loops with and without `sock_sendto()`, `stop()`, and the process-wide `WarningRateLimiter` | `kernel` and `selector` (external) are the descriptors with their buffers and the loop's registered writers; `table` is the limiter's dict in its order |
| `MC...` | instances for TLC | model values and the sets of settings of each run |
| `EventDispatcherProofs` | theorems about `EventDispatcher`: types, bound, accounting | |
| `EventDispatcherPromises` | theorems: no wake-up is lost, the worker leaves nothing, no barrier is stranded, stop admits nothing, barriers tell the truth, the dispatcher implements `Mailbox` | |
| `TcpConnectionProofs` | theorems about `TcpConnection`: types, one closed event, what an outside `close()` has seen, order of events, one handler at a time | |
| `UdpSenderProofs` | theorems about `UdpSender`: ownership of descriptors, finality of `stop()`, the limiter's promise | |
| `TcpServerProofs` | theorems about `TcpServer`: types, ownership, the limit, what `stop()` leaves | |
| `TcpClientProofs` | theorems about `TcpClient`: types, ownership, what `stop()` leaves | |
| `DatagramReceiverProofs` | theorems about `DatagramReceiver`: types, a stopped receiver holds nothing, what `stop()` leaves | |
| `DatagramReceiverOrder` | theorem: each life of a `DatagramReceiver` is told in order | |

**Atomicity.** A task switch happens only at an `await` that suspends. The locks
(`_state_lock`, `_close_lock`, the conditions' locks) are never held across a
suspension other than `Condition.wait`, so they are uncontended and do not appear
in the models; the code between two suspensions is one action. An `emit()` that
finds room does not suspend, one that does not becomes a position to wait in.
User handlers may suspend anywhere, so their begin, end and calls are separate
actions.

**What stands for what.** `TcpConnection` and `DatagramReceiver` contain the
dispatcher cut down to what one component sees of it: a bounded queue under
`BLOCK` with a worker, or inline delivery. `TcpClient` and `TcpServer` go one step
further: delivery is `BACKGROUND`, an `emit()` is a position to wait in, and a
connection is what `TcpConnection` shows of it (one close task, which runs the
owner's callback, then publishes; a close that meets the opened barrier is
published by `connection.start()`, one that a handler caused by a publisher task
of its own). A bounded number of handlers take their time and may call `stop()`:
in the client the handler of any event, in the server that of a payload; the others
count as returning at once. In `UdpSender` a socket is known by its sender, a
descriptor is reused lowest first, and the selector is what an epoll loop does:
one writer per descriptor, a closed descriptor is no longer polled, its
registration stays. Payload is a tag, an identifier is a model value; time is absent
(a timer may fire at any moment) but for the limiter's clock.

**Seeded faults.** An operator `X_Suffix` defined just before `X` is `X` with one
plausible bug. No action uses it; `PROJECT.json` lists, for every property of
every passing run, one such fault that makes TLC report that property violated.

## 3. Runs

| Run | Distinct states | Question |
| --- | --- | --- |
| `DispatcherBlock` | 690,463 | Under `BLOCK`, with emitting and stopping handlers, handlers that fail under `STOP_COMPONENT`, cancelled producers and a restart: lost wake-ups, stranded barriers, events admitted or left after a stop? Do `stop()`, blocked producers and barriers end? |
| `DispatcherDrop` | 1,564,467 | Under every policy and inline delivery, with aborting workers: bounded, accounted, truthful barriers, a worker that waits on itself, an implementation of `Mailbox`? |
| `DispatcherLostWakeup` | violation | The same on CPython 3.11/3.12, see 5. |
| `Connection` | 342,196 | One closed event, after the callback, naming the first state, last in its stream and alone; does a `close()` from outside return after it? |
| `ConnectionLive` | 10,515 | Do `close()` and `start()` return, and is the event published? |
| `ConnectionReentrantClose` | violation | see 5. |
| `Receiver` | 404,592 | Does a stopped receiver hold nothing, is each life told in order, does a `stop()` that returns leave it stopped, whoever owned or joined it, do calls return? |
| `Client` | 100,088 | Does anything escape its owner, does stop leave anything, do calls return, is a lost connection noticed? |
| `ClientEarlyStop`, `ClientHandlerStop` | violation | see 5. |
| `Server` | 161,304 | Does anything escape its owner, is the limit kept, does stop leave anything, do calls return, does a broadcast close what it could not reach? |
| `Sender` | 536,804 | Is `stop()` final although sends are suspended, do sends return, does the limiter keep its bound and its interval? |

**Bounds.** All are constants. Dispatcher: two producers and a controller, a queue of
one (every emit but the first contends) or of two (so that eviction has something to
choose from and order is visible), three or four emits (block, wake and barge need
three), two workers where a restart matters, nested handlers of depth two, so that
handlers emit and a failure has its control event and stop callback inside the failed
delivery. Connection: two outside closers plus the handler, three calls of `close()`
(join, retry), two chunks, one event of another connection to fill the queue.
Receiver: two lives, two stoppers plus the handler and the receive loop, three calls
of `stop()` (one is cancelled, one joins, one calls again), queue of one. Client: two
stoppers, two lives, two connections (one reconnect), two stops; one cancellation in
the setups that have any; one handler that may stop. Server: two clients for one slot
or for two, two stoppers, a restart, one broadcast, one slow payload handler, spread
over four setups. Sender: five senders (three in turn have one address), two callers,
five sends; for the limiter two keys at most of three, an interval of two and a clock
of three, so that eviction, refusal and expiry all happen. `CHECK_DEADLOCK FALSE`
throughout: a component that has been stopped, with its inputs used up, may rest.
Symmetry is used for producers and closers in `DispatcherDrop` and `Connection`, which
have no liveness properties; elsewhere the next free caller, task or connection name
is chosen in a fixed order.

**Scope of properties.** Where the code keeps a property only for some applications,
the property names them (`OneDeliveringTask`, `Plain`, `OwnsAbandonedStop`,
`Stranded`, `~setup.overlap`, `RollingBack`, `setup.orderly`, `setup.reconnect`) and
section 5 says what happens elsewhere. These conditions depend on the configuration or
on a state the comment names, and the remaining cases are always among those the run
explores.

**Fairness.** Weak fairness for each task's next step: the event loop runs every ready
task in FIFO order, so a task that can go on does. Handlers and callbacks return (the
library cannot promise anything otherwise). A cancelled heartbeat task ends. In the
server a send ends (it drains, fails or times out), in the sender the kernel drains
its buffers, ready writers run and due timers fire. A connect attempt needs to end
only because it is cancelled: neither `Connects` nor `ConnectFails` is fair, nor is
any input (peers, applications, cancellation, failures). In `DatagramReceiver` a
producer blocked for space retries under weak fairness as well: what can overtake it
is bounded with the inputs.

## 4. Proofs

TLAPS proves the following for every value of the constants that satisfies the
named assumptions of the component's module; TLC evaluates those assumptions in
every run of the component. Each inductive invariant was checked by TLC on the
instances of section 3 before it was proved.

### Dispatcher

The proofs hold for every number of producers and controllers, all
settings, and every queue size, set of kinds and bound (assumptions:
`TaskAssumption`, `SettingsAssumption`, `BoundAssumption`, `FlagAssumption` and
`KindAssumption` of `EventDispatcher`, which TLC evaluates in every dispatcher
run). `EventDispatcherProofs`:

* `TypeCorrect == Spec => []TypeOK`. Inductive as it stands. One lemma per shared
  operator (`Enqueue`, `Emit`, `CloseContext`, `StopWithoutWaiting`, ...), then one
  step per action.
* `QueueIsBounded == Spec => []QueueBounded`: the queue never exceeds
  `max_pending_events` and `queue_peak` has seen every length. The argument is
  `EnqueueBounded`: whoever appends has tested for room in the same action, also
  on the retry after a wake-up, and an eviction replaces one event by one.
* `CountersAddUp == Spec => []EveryEmitAccountedFor`: emits equal deliveries plus
  queued plus dropped (by reason) plus suspended plus cancelled plus abandoned. It
  is not inductive: an append adds one to the cardinality only if the new event is
  not in the set yet. The strengthening is `Tickets` (every queued ticket is at
  most `stats.enqueued`, so the next ticket is fresh), with the type invariant.

`EventDispatcherPromises` builds on these:

* `WorkerIsFree` and `WorkerIsAwake`: the worker is never suspended in the emit path,
  and a sleeping worker has an empty queue and no stop to notice. Inductive
  together with "outside a delivery no handler context is open on the worker"
  (`WorkerSide`): without it a sleeping worker could seem to emit from a handler.
* `StopReleases` and `WorkerLeavesNothing`, unless a worker aborts: no producer is
  blocked once stop has begun, and without a worker the queue is empty. The
  strengthening is `Gone`: when the worker ended, nobody is blocked, and producers
  that have been notified but have not run yet exist only while `_stopping` is set,
  so their retry finds the queue closed instead of appending to it.
* `SpaceIsAnnounced`, unless a worker aborts, and provided `Condition` passes the
  wake-up of a cancelled waiter on (`ConditionRenotifies`; CPython does so from
  3.13 on, see section 5): a blocked producer has a pop ahead of it or a
  notified producer. The argument is that nobody blocks on an empty queue and that
  whatever empties the queue notifies.
* `BarriersAreHeld`, unless a worker aborts: a pending `emit_and_wait()` has its event
  in the queue or with a live worker. The strengthening is `Calls`: a suspended call
  is about an event of its own task and carries a future if it is pending, which is
  what makes "the futures of these events are settled" cover the caller of every
  event that is removed.
* `StopAdmits == Spec => StopAdmitsNothing`, an action property that needs only the type
  invariant: each of the many ways into `_enqueue()` tests `_stopping` in the action
  that appends.

In the same module, with and without aborting workers:

* `DispatcherImplementsMailbox == Spec => ImplementsMailbox`: every step of the
  dispatcher is a step of `Mailbox` under the mapping, or leaves it alone. Each of
  the ways to change the queue is one lemma (append, evict, take, finish, clear).
  From `Tickets` a new event stands behind all others; from `HandsFree` (only a busy
  worker has an event in its hands) taking one finds the slot free.
* `BarriersTellTheTruth == Spec => []BarrierTellsTheTruth`: a settled
  `emit_and_wait()` was handled only if the delivery of its own event ended, and
  dropped only if it never began. The strengthening has three parts. `Attached`: a
  future attached to an event is pending and its call is about that event. `Numbered`:
  the numbers of a task's queued events, of its dropped call and of its last delivery
  differ, without which a delivery of one call could be taken for that of another.
  `Truth`: what a settled future says, and that there is none without a waiting call.
* `ContextWakeupsKept == Spec => []NoLostContextWakeup`: whoever sleeps in
  `wait_for_handler_context()` has an open context to wait for. Every action that
  closes a context re-evaluates the waiters in the same step.

The hypothesis `~AllowAbort` is the code's: a `BaseException` that ends the worker
does not notify blocked producers (hazard list), and the models say so.

### TCP connection

For every finite set of outside callers, every set of applications (`Setups`), queue
size and bound (`TaskAssumption`, `SetupAssumption`, `BoundAssumption`):

* `TypeCorrect == Spec => []TypeOK`, with the bound of the queue.
* `ClosedIsPublishedOnce == Spec => []ClosedPublishedOnce`. Nothing in the state counts
  callbacks; `EventSide` says that one has run exactly when the close task has passed
  the callback, and `CloseSide` what each position of the close task, a deferred event
  and a resumed caller imply for the state of the connection.
* `ExternalCloseSeesClosed == Spec => []ExternalCloseObservesClosed`. `OutsideSide`:
  when no handler closes, the close task inherits no handler and is not awaited by the
  opening, so it awaits the event, or the future of a deferred event (`AwaitsWaiter`);
  and `ToldSide`: who was told that the event is out was told so after it.
* `OpenedIsFirstClosedIsLast == Spec => []OpenedFirstClosedLast`. The first half is
  `OpenedSide` and `ReaderSide` (the opened event is in the queue or on one task at a
  time, and a read loop exists only after its handler has ended). The second half,
  `LateSide`, needs why nobody emits any more. `StreamSide`: once torn down, the read
  loop no longer emits; a teardown that spares it finds it inside its own handler, or
  in the task that called `close()`. Inline, `InlineSide`: a publication begins when no
  handler runs, and from then on none can. In the background, `PublishSide` and
  `QueueSide`: while `start()` emits the opened event nothing is published, a
  publication that `start()` makes delivers when the queue holds nothing of the
  connection, and any other puts the closed event behind all else.
* `DispatchIsSequential == Spec => []SequentialDispatch`, from the same parts.

`ConnectionInv` is their conjunction, and inductive with the type invariant. The second
half of the order and the first of the sequence are stated under `OneDeliveringTask`,
outside of which the code does not keep them (section 5). The close drops queued payload;
`WithoutBytes` says which event each place of the queue then holds, by counting, since
`SelectSeq` is recursive and the provers derive nothing about it. Lemma `Filtered` says
what the proofs need of it (what is left stood in the queue, in this order), and TLC
finds the two equal on all queues of at most four events (`Filters` in
`MCTcpConnection`).

### UDP sender and rate limiter

For every finite set of senders, any callers, keys, `MaxKeys` and `Interval` above
zero, every setup (`NameAssumption`, `SenderAssumption`, `LimiterAssumption`,
`SetupAssumption`):

* `SendersOwnTheirSockets == Spec => []SenderInv`: every open descriptor is the socket
  of the one sender that has not stopped, and the selector polls a descriptor only
  for a call suspended on its owner (`PolledByOwner`). The second part is what makes
  the first useful: descriptors are reused, and a stale registration must not be woken
  for the new owner.
* `StopIsForGood == Spec => StopIsFinal`, from that invariant: a suspended send of a
  sender that has stopped never completes as sent.
* `LimiterHolds == Spec => LimiterKeepsPromise`. The table alone does not say when a
  key that has been evicted was logged last; `TableTellsHistory` relates each entry to
  the history (entered in this order, logged at this time) and says of a key that left
  that `MaxKeys` others have entered since.

### TCP server

For all finite sets of stoppers and connections and every setup (`TaskAssumption`,
`SetupAssumption`):

* `TypeCorrect == Spec => []TypeOK`.
* `ServerOwnsEverything == Spec => []EverythingOwned`: connections, heartbeat tasks
  and the listener have somebody who will end them. `EverythingOwned` is a
  conjunction of three parts that lean on more than each other. `Served`: a socket
  that is open, or still closing, is registered or in the plan of a stop that has
  yet to close it. `StartSide`: a `start()` that binds or rolls back does not run the
  server. `OneLife`: unless lives overlap, an active server has its dispatcher and no
  stop, and a stop finds nothing registered.
* `ServerKeepsLimit == Spec => []LimitKept`. Counting is by cardinality of the set of
  served connections; that set is a subset of `registered` because nothing is
  admitted while a stop has a plan (`OneLife`), and `registered` grows only
  under the test of the limit in the same action.
* `StopLeavesNothingBehind == Spec => StopLeavesNothing`, the action property, from
  the invariant before and after the step.

### TCP client

For all finite sets of stoppers, supervisors and connections and every setup
(`TaskAssumption`, `SetupAssumption`, and `HandlerAssumption`, a limit of the model:
handlers that call `stop()` are combined neither with overlapping lives nor with
cancelled calls, see section 6):

* `TypeCorrect == Spec => []TypeOK`.
* `ClientOwnsEverything == Spec => []EverythingOwned`: no connection is left connected
  that nobody would close, no heartbeat task is left alone, and the close of an old
  connection never takes the heartbeat of a new one.
* `StopLeavesNothingBehind == Spec => StopLeavesNothing`: a `stop()` that returns
  normally, owned or joined, leaves no supervisor, connection, heartbeat or
  dispatcher, if lives do not overlap and `start()` is not rolling back.

Positions of tasks and what they hold are spread over five variables, so the
invariant `ClientInv` relates them: at most one supervisor works and somebody will
end it (`OneSupervisor`); the plan of the stop fits the state (`StopSide`); at most
one connection is alive, held by the client or by its supervisor (`LiveOwned`), and
somebody has yet to close it (`CurrentSide`); the heartbeat is that of the live
connection (`HeartbeatSide`); who releases is at it (`ReleaseSide`); and, without
overlap, stop knows every supervisor and clears what it released (`OneLife`). The
proof first says what each action does to the fields of these records (`Effect`
and the operators above it), then shows each part of `ClientInv` preserved by every
effect, so that no step of the second half looks into the actions.

### Datagram receiver

For every finite set of stoppers, every set of applications and every bound
(`TaskAssumption`, `SetupAssumption`, `BoundAssumption`):

* `TypeCorrect == Spec => []TypeOK`, with the bound of the queue: whoever appends has
  seen room in the same action.
* `StoppedIsEmpty == Spec => []StoppedHoldsNothing`, for all applications, those with
  cancelled calls and overlapping lives included. Nothing in it is inductive; the
  invariant `HoldInv` has three parts. `Held`: the receiver is `RUNNING` exactly when it
  has its socket, a stop that has yet to publish `STOPPED` keeps it in `STOPPING`, and
  one socket is open while the receiver or the stop has it, none otherwise.
  `Places`: which tasks a handler can run on (`Sides`, by dispatch mode), and that a
  task in a handler is at a position that emits (`Placed`, `HandoffPlaced`).
  `Reading`: a receive task that still reads belongs to a running receiver, or the
  stop awaits or will cancel it, or its own handler has stopped the receiver and it has
  to unwind (`Unwinds`). The last case needs `Placed` (the deferred stop waits for that
  handler) and `turn` (between the end of the handler and the test of `running` the
  task does not suspend).
* `StopEndsLife == Spec => StopLeavesStopped`. `LeaveInv`, without overlap: a stop that
  is past its terminal events, or a caller that awaits the worker, finds the state
  `STOPPED`, and the worker gone when it has awaited it. With `Held` this covers the
  owner, those who joined it, and the calls that found nothing to stop. A call may
  return in its first step, so the property looks at the step (`Returns`), and leaves
  out one caller: `OwnsAbandonedStop`, section 5.

`DatagramReceiverOrder` proves `LivesInOrder == Spec => []ToldInOrder`: without
cancelled calls and overlapping lives, each life is told to its handler in order, each
event at most once. `ghost.disorder` records a delivery out of turn and says nothing of
what is still to come, so the invariant `OrderInv` says, for every event, when it is not
said yet and what stands before it:

* `Control` ties life cycle, `start()` and stop together. `LifeSide`: a life that is
  `STARTING` or `RUNNING` has no stop and a serving worker, and no receive loop reads
  while `start()` runs. `OpeningSide`: who is responsible for the closed event when a stop
  meets the opened barrier (the stop itself, or the `start()` that hands it off).
  `OwnSide`: an ordinary stop is executed by the call that owns it.
* `ServingSide`: as long as somebody may emit through the queue, a worker serves it; and
  whoever is blocked for space is blocked with the event its position emits (`Waiting`).
  Without this a retry could append an event whose time has passed.
* `BarrierSide`: `STARTING` and the opened event are in the queue or on the worker only
  while `start()` awaits them, so two lives share the queue only as `STARTING` at its
  head (`Fresh`).
* `Story`. `QueueInOrder`: every queued event is in turn after what was told and after
  those queued before it. `SaidSoFar`: an event that is still due (`Due`, one case for
  each event) has been neither told nor queued; this is what makes an append in turn.
  `OpenedSaid`: the opened event is out before the receive loop emits payload.

An action leaves the queue alone, appends, takes, delivers inline or drops what is
queued, so the proof first shows what each of these does to `Story`, given that the
event is due, and then, action by action, that it is.

The proofs found two places where the model could not be reasoned about: the task that
executes the stop was read in the state after the step, so a task that completed its own
stop lost its turn; and a handler could call `stop()` again while its task was still in
the teardown of its own stop.

### Only model-checked

The liveness properties (`CallsReturn` of each component, `ClosedEventually`,
`FailedSendsClose`, `ClosedIsNoticed`, `SendsReturn`): fairness and `ENABLED` are out of
the prover's reach. Every other property that a passing run checks is a theorem.

## 5. Disagreements met while modelling

Shown by a run:

1. `DispatcherLostWakeup`: on CPython 3.11 and 3.12 a notified producer that is
   cancelled takes the only notification with it (`event_dispatcher.py:375`).
2. `ConnectionReentrantClose`: an inline handler that joins a close task before it
   decides to defer waits for a task that waits for that handler.
3. `ClientEarlyStop`: `_on_connection_closed` detaches the connection, then awaits
   the heartbeat task; a `stop()` in between finds no connection, and returns
   before `ConnectionClosedEvent` is published (it is then dropped), against
   `docs/lifecycle.md:62`.
4. `ClientHandlerStop`: a client without reconnect fails to connect; its supervisor
   applies `STOPPED` and waits in `dispatcher.stop()` for the worker, where the
   handler of `NetworkErrorEvent`, `STOPPING` or `STOPPED` calls `stop()`, which
   plans to await the supervisor (`asyncio_tcp_client.py:329`). Neither ends, nor
   does any later `stop()`. Running the library shows the same.

Met, stated as the scope of a property, without a run of their own:

* Dispatcher: `stop()` after the worker has died of a `BaseException` returns early
  and does not release blocked producers. A handler-origin stop drops queued events
  that a comment says are drained.
* Connection: when the opened barrier fails just as a close defers its event to it,
  nobody publishes, and `start()` and `close()` wait for each other
  (`asyncio_tcp_connection.py:157`); a read loop that a handler's close preserves,
  blocked on a full queue, delivers its payload after `ConnectionClosedEvent`
  (`asyncio_tcp_connection.py:354`); in `BACKGROUND` mode a close by a handler on
  the worker delivers `ConnectionClosedEvent` inline beside the worker's next
  delivery; a joiner may return early when a handler closes as well; the error of a raising close callback
  may be delivered beside a handler; with a full queue, a handler on the worker
  that joins the close task blocks it.
* Receiver: a stop that defers its closed event while the opened barrier fails, after
  the hand-off has looked for one, is never over, nor are the calls that await it
  (`Stranded`; `CallsReturn` shows that nothing else keeps a caller). The owner of a
  stop that was cancelled (`_asyncio_datagram_receiver_base.py:423`) and left it to the
  completion task is still `stop_owner_task`: when it calls `stop()` again it is taken
  for a re-entry, gets the empty snapshot of line 633, and returns at once, with the
  receiver in `STOPPING` (`OwnsAbandonedStop`); a `start()` that overlaps a stop still
  publishing `STOPPED` loses its dispatcher to that stop; a `stop()` cancelled
  while `STOPPED` waits for space skips `dispatcher.stop()`; `start()` called in
  `STOPPING` restarts the dispatcher and then raises.
* Client: a `start()` that overlaps a supervisor which ends by itself, or a stop
  that still publishes, loses its dispatcher to it; a `stop()` during a rollback of
  `start()` may return while the cancelled supervisor is still ending, since the
  rollback applies `STOPPED` first; cancelling the owner of a stop hands the
  `CancelledError` to those who joined it and leaves `STOPPED` unpublished.
  A handler's `stop()` drops a `ConnectionClosedEvent` that is queued but not yet
  delivered; with a full queue, a supervisor blocked in its last `emit()` meets the
  deadlock of `ClientHandlerStop` too.
* Server: a `start()` cancelled while `RUNNING` is published rolls back the listener
  but not the connections it has accepted; they stay registered on a `STOPPED`
  server until the next `stop()`, and on CPython 3.12 and later the rollback's
  `wait_closed()` waits for them. A `start()` that overlaps a stop still publishing
  `STOPPED` loses its dispatcher to that stop. A connection whose close callback has
  just removed it when `stop()` plans is not awaited, so its `ConnectionClosedEvent`
  may be dropped (as in `ClientEarlyStop`).
* Sender, on epoll loops (seen when running the library as well): of two sends of one
  sender that block at once the second replaces the writer of the first, which never
  returns; `stop()` during a blocked `sock_sendto()` leaves it pending for ever, and
  the registration it leaves behind can keep a blocked send of another sender, whose
  socket got the descriptor, from being woken. `SendsReturn` is therefore stated for
  applications that send in order, or loops that poll.
* Rate limiter: comments at `runtime_utils.py:35` and `:69` speak of last-update order,
  but an update does not move a key in the dict; a key in steady use can be evicted
  and then logged again within its interval. `LimiterKeepsPromise` says by how much.

## 6. Not modelled

A second `start()` while one is in flight: each managed component models one `start()`
at a time, where `overlap` is set too. In the server the code lets a second one in once
a `stop()` has applied `STOPPED` and the first still awaits its barrier or its bind
(`asyncio_tcp_server.py:145`), and both may then pass the checks at 169 and 204.

Child tasks that a handler spawns, and the handler-origin context they inherit
(`contextvars`); repeated cancellation of one call, and cancellation of a handler
that is in `stop()`; for client and server inline delivery, `wait_until_connected()`,
`wait_until_running()`, cancelled broadcasts and the length of delays (backoff and
jitter); the ticks of the heartbeat sender; the argument checks of `send()`. Settings
validation, event records, protocols, the typed router, the factory, identifiers and
the testing helpers hold no mutable state. Sockets, streams and the event loop are
external and appear as inputs.

## 7. Plan

Order of work, most important behaviour first; 1 to 7 are done.

1. `EventDispatcher`, `Mailbox`, proofs of all its safety properties.
2. `TcpConnection`, with proofs.
3. `DatagramReceiver`, with proofs.
4. `TcpClient`, with proofs.
5. `TcpServer`, with proofs.
6. `UdpSender`, with the limiter and proofs.
7. Handler-origin stop of the client.
8. Inline delivery in `TcpServer` and `TcpClient` (rejected and opened events whose
   handler stops the component).
9. An abstract `Lifecycle` specification (start, stop and join as one atomic
   change of state with one waiter) that receiver, client and server implement.

The theorem worth having next: that the receiver implements that `Lifecycle`.
