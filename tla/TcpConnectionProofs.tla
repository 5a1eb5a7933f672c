------------------------- MODULE TcpConnectionProofs -------------------------
(***************************************************************************)
(* Theorems about TcpConnection: types, one closed event after one close    *)
(* callback, what a close() from outside has seen when it returns, which    *)
(* events come first and last, and that no two handlers run at once, for    *)
(* every number of callers, every application and every bound.              *)
(***************************************************************************)
EXTENDS TcpConnection, FiniteSetTheorems, TLAPS

Fresh == state \in {"CREATED", "CONNECTED"}

\* The close task has not run the close callback yet.
Before == closer \in {"reader", "writer", "callback"} \/ (closer = "start" /\ args.teardown)

\* What is known of a close task, and of everybody that awaits it or its event, is
\* in the state of the connection.
CloseSide ==
  /\ Fresh => closer = "none" /\ previous = "none"
  /\ Before => state = "CLOSING"
  /\ closer \in {"waiter", "publish", "published", "failed"} => state = "CLOSED"
  /\ deferred => state = "CLOSED"
  /\ \A t \in Tasks : call[t] \in {"resume", "resume_cancelled"} => state = "CLOSED"
  /\ handler["closer"] # "none" => closer = "handling"

\* The callback and the event of this close, and what the event will say.
EventSide ==
  /\ ghost.callbacks = IF Fresh \/ Before THEN 0 ELSE 1
  /\ ghost.published = IF published THEN 1 ELSE 0
  /\ published => state = "CLOSED"
  /\ publisher # "none" => ~published /\ state = "CLOSED"
  /\ handler["publisher"] # "none" => publisher = "handling"
  /\ ~Fresh /\ ~published => previous \in {"CREATED", "CONNECTED"}

\* Whoever has been told that the event is out was told so after it.
ToldSide ==
  "published" \in {closer, deferrer, handoff} => published

\* Which task delivers what.  Inline delivery has no use for the queue; elsewhere
\* only the worker, and a close task or publication that a handler started or
\* start() awaits, deliver.
HandlerSide ==
  /\ setup.mode = "INLINE" => queue = <<>> /\ handler["worker"] = "none" /\ opener \notin {"emit", "handled"}
  /\ setup.mode # "INLINE" => handler["opener"] = "none" /\ handler["reader"] = "none"
  /\ handler["opener"] \in {"none", "opened"} /\ handler["reader"] \in {"none", "bytes", "error"}
  /\ handler["closer"] \in {"none", "error"} /\ handler["publisher"] \in {"none", "closed"}
  /\ handler["reader"] # "none" <=> reader = "handling"

\* ConnectionOpenedEvent is emitted once, by a start() that then waits for the end of
\* its handler, and that starts the read loop only afterwards.
OpenedSide ==
  /\ opener \in {"idle", "ready", "emit"} => ghost.opened = "no"
  /\ \A i \in DOMAIN queue : queue[i] = "opened" =>
       /\ opener = "opened" /\ ghost.opened = "no"
       /\ \A j \in DOMAIN queue : queue[j] = "opened" => i = j
  /\ \A t \in Workers : handler[t] = "opened" => opener = "opened" /\ ghost.opened = "begun"
  /\ opener = "handled" \/ (opener = "handoff" /\ ~doomed) => ghost.opened = "ended"
  /\ reader # "none" => opener = "done" /\ ghost.opened = "ended"
  /\ handoff # "none" <=> opener = "handoff"

\* What the read loop emits, the connection emits after the opened event.
ReaderSide ==
  /\ \A t \in Workers : handler[t] = "bytes" => reader # "none"
  /\ \A i \in DOMAIN queue : queue[i] = "bytes" => reader # "none"

\* When no handler closes, the close task belongs to no handler and not to the
\* opening, so it awaits a deferred event, and so do its callers.
OutsideSide ==
  /\ opening => opener \in {"emit", "opened", "handled", "handoff"}
  /\ ~setup.closes => /\ ~args.inline /\ args.origin = "none"
                      /\ args.caller = "opener" => opener \in {"closing", "done"}
                      /\ \A t \in Tasks : call[t] \in {"resume", "resume_cancelled"} => published
                      /\ \A c \in Closers : call[c] = "returned" => published

\* Where one task at a time can deliver, a close that has torn down leaves no read
\* loop that could still emit.
Orderly == setup.mode = "INLINE" \/ ~setup.closes
Emits == reader \in {"reading", "bytes", "error"}
TornDown == ~Fresh /\ ~(closer = "start" /\ args.teardown)
StreamSide ==
  /\ closer = "none" => args.caller = "worker"
  /\ args.caller = "reader" => ~Emits
  /\ Orderly /\ TornDown => ~Emits

\* Inline: while the closed event is published, and from then on, no other handler
\* runs.
InlineSide ==
  /\ closer \in {"error", "handling"} => state = "CLOSING" /\ setup.callbacks
  /\ \A i \in DOMAIN queue : queue[i] = "closed" => state = "CLOSED"
  /\ ghost.closed => state = "CLOSED"
  /\ setup.mode = "INLINE" /\ (publisher # "none" \/ ghost.closed) =>
       \A t \in {"opener", "reader", "closer"} : handler[t] = "none"

\* Background, no handler closes and no callback raises: a close is deferred to
\* start() only, which publishes before anything but the opened event has been
\* emitted; otherwise the event goes through the queue, behind all others.
Serial == setup.mode # "INLINE" /\ ~setup.closes /\ ~setup.callbacks
PublishSide ==
  Serial =>
    /\ deferrer = "none"
    /\ opener \in {"emit", "opened", "handled"} =>
         opening /\ publisher = "none" /\ ~published /\ ~ghost.closed
    /\ publisher = "handling" => inline
QueueSide ==
  Serial =>
    /\ \A i \in DOMAIN queue :
         /\ queue[i] \in {"bytes", "error"} => reader # "none"
         /\ queue[i] = "closed" => published /\ \A j \in DOMAIN queue : j > i => queue[j] = "other"
    /\ handler["worker"] \in {"bytes", "error"} => reader # "none"
    /\ handler["worker"] = "closed" => published
    /\ publisher # "none" /\ inline =>
         handler["worker"] \notin ConnEvents /\ \A i \in DOMAIN queue : queue[i] = "other"
    /\ ghost.closed => \A i \in DOMAIN queue : queue[i] \in {"other", "closed"}

\* Nothing of the connection reaches a handler after the closed event.
LateSide == OneDeliveringTask => ghost.late = {}

ConnectionInv == /\ CloseSide /\ EventSide /\ ToldSide /\ HandlerSide /\ OpenedSide /\ ReaderSide
                 /\ OutsideSide /\ StreamSide /\ InlineSide /\ PublishSide /\ QueueSide /\ LateSide

-----------------------------------------------------------------------------
(***************************************************************************)
(* What drop_queued_events_for_resource() leaves of a queue.                *)
(***************************************************************************)
\* Ranks grow with the positions that are kept, and take every value.
LEMMA Ranks ==
  ASSUME NEW q \in Seq(Events)
  PROVE  /\ IsFiniteSet(Kept(q)) /\ Cardinality(Kept(q)) \in 0 .. Len(q)
         /\ \A i \in Kept(q) : Rank(q, i) \in 1 .. Cardinality(Kept(q))
         /\ \A i, j \in Kept(q) : i < j => Rank(q, i) < Rank(q, j)
         /\ \A n \in 1 .. Cardinality(Kept(q)) : \E i \in Kept(q) : Rank(q, i) = n
  <1> DEFINE K == Kept(q)
             N == Cardinality(K)
             Upto(i) == {j \in K : j <= i}
  <1>1. K \subseteq 1 .. Len(q) /\ Len(q) \in Nat
    BY DEF Kept
  <1>2. IsFiniteSet(1 .. Len(q)) /\ Cardinality(1 .. Len(q)) = Len(q)
    <2>1. 1 \in Int /\ Len(q) \in Int
      BY <1>1
    <2>2. /\ IsFiniteSet(1 .. Len(q))
          /\ Cardinality(1 .. Len(q)) = IF 1 > Len(q) THEN 0 ELSE Len(q) - 1 + 1
      BY <2>1, FS_Interval
    <2> QED
      BY <1>1, <2>2
  <1>3. IsFiniteSet(K) /\ N <= Len(q)
    BY <1>1, <1>2, FS_Subset
  <1>4. N \in Nat
    BY <1>3, FS_CardinalityType
  <1>5. ASSUME NEW i \in K
        PROVE  /\ Upto(i) \in SUBSET K /\ i \in Upto(i) /\ Rank(q, i) = Cardinality(Upto(i))
               /\ IsFiniteSet(Upto(i)) /\ Rank(q, i) \in 1 .. N /\ Rank(q, i) \in Nat
    <2>1. Upto(i) \in SUBSET K /\ i \in Upto(i) /\ Rank(q, i) = Cardinality(Upto(i))
      BY <1>1, <1>5 DEF Rank
    <2>2. IsFiniteSet(Upto(i)) /\ Cardinality(Upto(i)) <= N
      BY <1>3, <2>1, FS_Subset
    <2>3. Cardinality(Upto(i)) \in Nat
      BY <2>2, FS_CardinalityType
    <2>4. Cardinality(Upto(i)) # 0
      BY <2>1, <2>2, FS_EmptySet
    <2> QED
      BY <1>4, <2>1, <2>2, <2>3, <2>4
  <1>6. ASSUME NEW i \in K, NEW j \in K, i < j PROVE Rank(q, i) < Rank(q, j)
    <2>1. Upto(i) \in SUBSET Upto(j) /\ j \notin Upto(i)
      BY <1>1, <1>6
    <2>2. /\ Cardinality(Upto(i)) <= Cardinality(Upto(j))
          /\ Cardinality(Upto(j)) = Cardinality(Upto(i)) => Upto(j) = Upto(i)
      BY <1>5, <2>1, FS_Subset
    <2>3. Upto(j) # Upto(i)
      BY <1>5, <2>1
    <2>4. Rank(q, i) \in Nat /\ Rank(q, j) \in Nat
      BY <1>5
    <2>5. Rank(q, i) = Cardinality(Upto(i)) /\ Rank(q, j) = Cardinality(Upto(j))
      BY <1>5
    <2> HIDE DEF Upto
    <2> QED
      BY <2>2, <2>3, <2>4, <2>5
  <1>7. ASSUME NEW n \in 1 .. N PROVE \E i \in K : Rank(q, i) = n
    <2> DEFINE f == [i \in K |-> Rank(q, i)]
    <2>1. f \in [K -> 1 .. N]
      BY <1>5
    <2>2. ASSUME NEW i \in K, NEW j \in K, f[i] = f[j] PROVE i = j
      <3>1. i \in Nat /\ j \in Nat /\ f[i] = Rank(q, i) /\ f[j] = Rank(q, j)
        BY <1>1
      <3>2. Rank(q, i) \in Nat /\ Rank(q, j) \in Nat
        BY <1>5
      <3>3. i < j \/ j < i \/ i = j
        BY <3>1
      <3> QED
        BY <1>6, <2>2, <3>1, <3>2, <3>3
    <2>3. f \in Injection(K, 1 .. N)
      BY <2>1, <2>2 DEF Injection, IsInjective
    <2>4. IsFiniteSet(1 .. N) /\ Cardinality(1 .. N) = N
      BY <1>4, FS_Interval
    <2>5. f \in Surjection(K, 1 .. N)
      BY <2>3, <2>4, FS_Injection
    <2>6. \E i \in K : f[i] = n
      BY <1>7, <2>5 DEF Surjection
    <2> QED
      BY <2>6
  <1> HIDE DEF Upto
  <1> QED
    BY <1>1, <1>3, <1>4, <1>5, <1>6, <1>7

\* Every event that is left stood in the queue, and before those left after it.
LEMMA Filtered ==
  ASSUME NEW q \in Seq(Events)
  PROVE  /\ WithoutBytes(q) \in Seq(Events) /\ Len(WithoutBytes(q)) <= Len(q)
         /\ \E f \in [1 .. Len(WithoutBytes(q)) -> 1 .. Len(q)] :
              /\ \A n \in 1 .. Len(WithoutBytes(q)) : WithoutBytes(q)[n] = q[f[n]] /\ q[f[n]] # "bytes"
              /\ \A m, n \in 1 .. Len(WithoutBytes(q)) : m < n => f[m] < f[n]
  <1> DEFINE K == Kept(q)
             N == Cardinality(K)
             At(n) == CHOOSE i \in K : Rank(q, i) = n
             f == [n \in 1 .. N |-> At(n)]
  <1>1. N \in Nat /\ N <= Len(q) /\ Len(q) \in Nat
    BY Ranks
  <1>2. ASSUME NEW n \in 1 .. N PROVE At(n) \in K /\ Rank(q, At(n)) = n
    BY <1>2, Ranks
  <1>3. K \subseteq 1 .. Len(q) /\ \A i \in K : q[i] \in Events /\ q[i] # "bytes"
    BY DEF Kept
  <1>4. WithoutBytes(q) = [n \in 1 .. N |-> q[At(n)]]
    BY DEF WithoutBytes
  <1> HIDE DEF At
  <1>5. WithoutBytes(q) \in [1 .. N -> Events]
    BY <1>2, <1>3, <1>4
  <1>6. WithoutBytes(q) \in Seq(Events) /\ Len(WithoutBytes(q)) = N
    BY <1>1, <1>5
  <1>7. f \in [1 .. N -> 1 .. Len(q)] /\ \A n \in 1 .. N : f[n] = At(n)
    BY <1>2, <1>3
  <1>8. ASSUME NEW m \in 1 .. N, NEW n \in 1 .. N, m < n PROVE f[m] < f[n]
    <2>1. f[m] \in K /\ f[n] \in K /\ Rank(q, f[m]) = m /\ Rank(q, f[n]) = n
      BY <1>2, <1>7
    <2>2. f[m] \in Nat /\ f[n] \in Nat
      BY <1>7
    <2>3. f[n] < f[m] => n < m
      BY <2>1, Ranks
    <2>4. f[m] # f[n]
      BY <1>8, <2>1
    <2> QED
      BY <1>1, <1>8, <2>2, <2>3, <2>4
  <1>9. \A n \in 1 .. N : WithoutBytes(q)[n] = q[f[n]] /\ q[f[n]] # "bytes"
    BY <1>2, <1>3, <1>4, <1>7
  <1> HIDE DEF N, f
  <1> QED
    BY <1>1, <1>6, <1>7, <1>8, <1>9


-----------------------------------------------------------------------------
(***************************************************************************)
(* Types.                                                                   *)
(***************************************************************************)
Args == [caller : Tasks, teardown : BOOLEAN, inline : BOOLEAN, origin : Workers \cup {"none"}]
Handlers == [Workers -> Events \cup {"none"}]
Ghost == [chunks : Nat, others : Nat, calls : Nat, callbacks : Nat, opened : {"no", "begun", "ended"},
          closed : BOOLEAN, published : Nat, late : SUBSET Events]
TypeInv == TypeOK /\ ghost \in Ghost

CloseTypes == /\ state \in ConnStates /\ previous \in ConnStates \cup {"none"} /\ closer \in CloserStates
              /\ args \in Args
CallTypes == call \in [Tasks -> CallStates]
QueueTypes == queue \in Seq(Events) /\ Len(queue) <= QueueBound
StartTypes == opener \in OpenerStates /\ opening \in BOOLEAN /\ doomed \in BOOLEAN /\ handoff \in HandoffStates
DeferTypes == deferred \in BOOLEAN /\ waiter \in {"none", "pending"} /\ deferrer \in DeferrerStates
PublishTypes == published \in BOOLEAN /\ publisher \in PublisherStates /\ inline \in BOOLEAN
StreamTypes == reader \in ReaderStates /\ writer \in {"open", "closed"}
HandlerTypes == handler \in Handlers /\ ghost \in Ghost

\* The type invariant by groups of variables.
LEMMA Typed ==
  TypeInv <=> /\ setup \in Setups
              /\ CloseTypes /\ CallTypes /\ QueueTypes /\ StartTypes /\ DeferTypes
              /\ PublishTypes /\ StreamTypes /\ HandlerTypes
  BY DEF TypeInv, TypeOK, CloseTypes, CallTypes, QueueTypes, StartTypes, DeferTypes, PublishTypes, StreamTypes,
         HandlerTypes, Args, Handlers
LEMMA TypedPrimed ==
  TypeInv' <=> /\ setup' \in Setups
               /\ CloseTypes' /\ CallTypes' /\ QueueTypes' /\ StartTypes' /\ DeferTypes'
               /\ PublishTypes' /\ StreamTypes' /\ HandlerTypes'
  BY DEF TypeInv, TypeOK, CloseTypes, CallTypes, QueueTypes, StartTypes, DeferTypes, PublishTypes, StreamTypes,
         HandlerTypes, Args, Handlers

LEMMA OutcomeType == \A t, o : o \in CallStates => Outcome(t, o) \in CallStates
  BY DEF Outcome, CallStates

LEMMA BegunType ==
  ASSUME ghost \in Ghost, NEW e \in Events
  PROVE  /\ Begun(e) \in Ghost
         /\ Begun(e).callbacks = ghost.callbacks /\ Begun(e).published = ghost.published
  BY DEF Begun, Ghost, Events

LEMMA CloseCallType ==
  ASSUME CloseTypes, CallTypes, NEW t \in Tasks, NEW h \in Handlers, NEW o \in BOOLEAN, CloseCall(t, h, o)
  PROVE  CloseTypes' /\ CallTypes'
  <1>1. CallTypes'
    BY OutcomeType DEF CloseCall, CallTypes, CallStates
  <1>2. CASE NewCloseTask(t, h)
    BY <1>1, <1>2
    DEF NewCloseTask, CloseTypes, Args, ConnStates, CloserStates, InHandler, HandlerOrigin, NeedsTeardown
  <1> QED
    BY <1>1, <1>2 DEF CloseCall, CloseTypes, closeVars

LEMMA CloserEndsType ==
  ASSUME CallTypes, NEW f \in BOOLEAN, CloserEnds(f)
  PROVE  closer' \in CloserStates /\ args' \in Args /\ CallTypes'
  <1>1. \A t \in Tasks : Outcome(t, "raised") \in CallStates
    BY OutcomeType DEF CallStates
  <1>2. CallTypes'
    BY <1>1 DEF CloserEnds, CallTypes, CallStates
  <1> QED
    BY <1>2 DEF CloserEnds, CloserStates, Args, NoArgs, Tasks, Workers

LEMMA SettleType ==
  ASSUME CallTypes, closer \in CloserStates, NEW o \in {"returned", "raised"}, Settle(o)
  PROVE  closer' \in CloserStates /\ waiter' = "none" /\ CallTypes'
  <1>1. \A t \in Tasks : Outcome(t, o) \in CallStates
    BY OutcomeType DEF CallStates
  <1> QED
    BY <1>1 DEF Settle, CallTypes, CloserStates

LEMMA DecideType ==
  ASSUME CloseTypes, CallTypes, DeferTypes, PublishTypes, NEW h \in Handlers,
         Defer(h) \/ PublishNow(h), UNCHANGED <<previous, published>>
  PROVE  CloseTypes' /\ CallTypes' /\ DeferTypes' /\ PublishTypes'
  <1>1. CASE Defer(h)
    <2>1. DeferTypes' /\ PublishTypes'
      BY <1>1 DEF Defer, DeferTypes, PublishTypes, DeferrerStates
    <2>2. closer' \in CloserStates /\ args' \in Args /\ CallTypes'
      BY <1>1, CloserEndsType DEF Defer, CloseTypes, CallTypes, CloserStates
    <2> QED
      BY <1>1, <2>1, <2>2 DEF Defer, CloseTypes, ConnStates
  <1>2. CASE PublishNow(h)
    <2>1. DeferTypes'
      BY <1>2 DEF PublishNow, DeferTypes, deferVars
    <2>2. PublishTypes' /\ state' \in ConnStates
      BY <1>2
      DEF PublishNow, Finalize, BeginPublication, PublishTypes, PublisherStates, CloseTypes, ConnStates, Args
    <2>3. closer' \in CloserStates /\ args' \in Args /\ CallTypes'
      BY <1>2, CloserEndsType DEF PublishNow, CloseTypes, CallTypes, CloserStates
    <2> QED
      BY <2>1, <2>2, <2>3 DEF CloseTypes
  <1> QED
    BY <1>1, <1>2

LEMMA PublisherEndsType ==
  ASSUME CloseTypes, DeferTypes, PublishTypes, handoff \in HandoffStates, NEW ok \in BOOLEAN, PublisherEnds(ok)
  PROVE  /\ previous' \in ConnStates \cup {"none"} /\ closer' \in CloserStates
         /\ PublishTypes' /\ deferrer' \in DeferrerStates /\ handoff' \in HandoffStates
  BY DEF PublisherEnds, CloseTypes, DeferTypes, PublishTypes, CloserStates, DeferrerStates, HandoffStates,
         PublisherStates


\* PublishDeferred() in the deferred publisher, and in the task of start().
LEMMA PublishDeferredType ==
  ASSUME TypeInv, DeferrerPublishes \/ HandoffPublishes
  PROVE  CloseTypes' /\ CallTypes' /\ DeferTypes' /\ PublishTypes' /\ handoff' \in HandoffStates
  <1>w. CloseTypes /\ CallTypes /\ DeferTypes /\ PublishTypes /\ handoff \in HandoffStates
    BY Typed DEF StartTypes
  <1>1. /\ closer' \in CloserStates /\ CallTypes' /\ waiter' \in {"none", "pending"}
    <2>1. CASE Settle("returned")
      BY <1>w, <2>1, SettleType DEF CloseTypes
    <2>2. CASE UNCHANGED <<waiter, closer, call>>
      BY <1>w, <2>2 DEF CloseTypes, CallTypes, DeferTypes
    <2> QED
      BY <2>1, <2>2 DEF DeferrerPublishes, HandoffPublishes, PublishDeferred
  <1>2. state' \in ConnStates /\ publisher' \in PublisherStates /\ inline' \in BOOLEAN
    BY <1>w DEF DeferrerPublishes, HandoffPublishes, PublishDeferred, Finalize, BeginPublication, CloseTypes,
                PublishTypes, ConnStates, PublisherStates
  <1>3. deferred' \in BOOLEAN /\ deferrer' \in DeferrerStates /\ handoff' \in HandoffStates
    BY <1>w DEF DeferrerPublishes, HandoffPublishes, PublishDeferred, DeferTypes, DeferrerStates, HandoffStates,
                startVars
  <1>4. UNCHANGED <<previous, published, args>>
    BY DEF DeferrerPublishes, HandoffPublishes
  <1> QED
    BY <1>w, <1>1, <1>2, <1>3, <1>4 DEF CloseTypes, DeferTypes, PublishTypes

LEMMA QueueAppends ==
  ASSUME QueueTypes, NEW e \in Events, Len(queue) < QueueBound, queue' = Append(queue, e)
  PROVE  QueueTypes'
  BY BoundAssumption DEF QueueTypes

LEMMA QueueFilters ==
  ASSUME QueueTypes
  PROVE  /\ WithoutBytes(queue) \in Seq(Events) /\ Len(WithoutBytes(queue)) <= Len(queue)
         /\ queue' = WithoutBytes(queue) => QueueTypes'
  <1>1. /\ WithoutBytes(queue) \in Seq(Events) /\ Len(WithoutBytes(queue)) <= Len(queue)
        /\ queue \in Seq(Events) /\ Len(queue) <= QueueBound
    BY Filtered DEF QueueTypes
  <1> QED
    BY <1>1, BoundAssumption DEF QueueTypes

LEMMA HandlerGets ==
  ASSUME handler \in Handlers, NEW t \in Workers, NEW e \in Events \cup {"none"},
         handler' = [handler EXCEPT ![t] = e]
  PROVE  /\ handler' \in Handlers /\ handler'[t] = e
         /\ \A u \in Workers \ {t} : handler'[u] = handler[u]
  BY DEF Handlers

LEMMA InlineType ==
  ASSUME HandlerTypes, QueueTypes, NEW t \in Workers, NEW e \in Events, EmitsInline(t, e)
  PROVE  HandlerTypes' /\ QueueTypes'
  BY BegunType, HandlerGets DEF EmitsInline, HandlerTypes, QueueTypes

LEMMA ToQueueType ==
  ASSUME HandlerTypes, QueueTypes, NEW e \in Events, EmitsToQueue(e)
  PROVE  HandlerTypes' /\ QueueTypes'
  BY QueueAppends DEF EmitsToQueue, HandlerTypes

LEMMA ContextClosesType ==
  ASSUME handler \in Handlers, args \in Args, NEW t \in Workers, ContextCloses(t)
  PROVE  /\ handler' \in Handlers /\ args' \in Args
         /\ handler'[t] = "none" /\ \A u \in Workers \ {t} : handler'[u] = handler[u]
         /\ args'.caller = args.caller /\ args'.teardown = args.teardown /\ args'.inline = args.inline
         /\ args'.origin = IF args.origin = t THEN "none" ELSE args.origin
  <1>1. args' = [args EXCEPT !.origin = IF args.origin = t THEN "none" ELSE args.origin]
    BY DEF ContextCloses
  <1>2. /\ args' \in Args
        /\ args'.caller = args.caller /\ args'.teardown = args.teardown /\ args'.inline = args.inline
        /\ args'.origin = IF args.origin = t THEN "none" ELSE args.origin
    BY <1>1 DEF Args
  <1> QED
    BY <1>2, HandlerGets DEF ContextCloses


LEMMA TaskMember == {"worker", "opener", "reader", "closer", "publisher"} = Workers /\ Workers \subseteq Tasks
  BY DEF Workers, Tasks
LEMMA EventMember == {"opened", "bytes", "error", "closed", "other"} \subseteq Events
  BY DEF Events, ConnEvents

\* The updates of the history.
LEMMA GhostCounts ==
  ASSUME ghost \in Ghost
  PROVE  /\ [ghost EXCEPT !.chunks = @ + 1] \in Ghost
         /\ [ghost EXCEPT !.others = @ + 1] \in Ghost
         /\ [ghost EXCEPT !.calls = @ + 1] \in Ghost
         /\ [ghost EXCEPT !.callbacks = @ + 1] \in Ghost
         /\ [ghost EXCEPT !.published = @ + 1] \in Ghost
         /\ \A b \in BOOLEAN : [ghost EXCEPT !.published = @ + (IF b THEN 0 ELSE 1)] \in Ghost
         /\ \A t : OpenedEnded(t) \in Ghost
  BY DEF Ghost, OpenedEnded

LEMMA FilterAppends ==
  ASSUME QueueTypes, Len(queue) < QueueBound, queue' = Append(WithoutBytes(queue), "error")
  PROVE  QueueTypes'
  <1>1. WithoutBytes(queue) \in Seq(Events) /\ Len(WithoutBytes(queue)) <= Len(queue)
    BY QueueFilters
  <1>2. queue \in Seq(Events) /\ "error" \in Events
    BY EventMember DEF QueueTypes
  <1> HIDE DEF WithoutBytes
  <1> QED
    BY <1>1, <1>2, BoundAssumption DEF QueueTypes

LEMMA TypeInit == Init => TypeInv
  <1> SUFFICES ASSUME Init PROVE TypeInv
    OBVIOUS
  <1>1. CloseTypes /\ StartTypes /\ DeferTypes /\ PublishTypes /\ StreamTypes
    BY DEF Init, CloseTypes, StartTypes, DeferTypes, PublishTypes, StreamTypes, ConnStates, OpenerStates,
           HandoffStates, ReaderStates, CloserStates, DeferrerStates, PublisherStates, Args, NoArgs, Tasks, Workers
  <1>2. CallTypes /\ QueueTypes
    BY BoundAssumption DEF Init, CallTypes, CallStates, QueueTypes
  <1>3. HandlerTypes
    BY DEF Init, HandlerTypes, Handlers, Ghost
  <1> QED
    BY <1>1, <1>2, <1>3, Typed DEF Init

LEMMA TypeStep == TypeInv /\ [Next]_vars => TypeInv'
  <1> SUFFICES ASSUME TypeInv, [Next]_vars PROVE TypeInv'
    OBVIOUS
  <1>w. /\ setup \in Setups /\ CloseTypes /\ CallTypes /\ QueueTypes /\ StartTypes /\ DeferTypes
        /\ PublishTypes /\ StreamTypes /\ HandlerTypes
    BY Typed
  <1>g. /\ handler \in Handlers /\ ghost \in Ghost /\ args \in Args /\ handoff \in HandoffStates /\ opening \in BOOLEAN
        /\ closer \in CloserStates
    BY <1>w DEF HandlerTypes, CloseTypes, StartTypes
  <1> USE <1>w, <1>g, TypedPrimed
      DEF startVars, closeVars, deferVars, publishVars, streamVars, handlerVars,
          CloseTypes, CallTypes, QueueTypes, StartTypes, DeferTypes, PublishTypes, StreamTypes, HandlerTypes
  <1>0. CASE UNCHANGED vars
    BY <1>0 DEF vars
  <1>1. CASE StartCalled
    BY <1>1 DEF StartCalled, ConnStates, OpenerStates
  <1>2. CASE ReadyFails
    BY <1>2, CloseCallType, TaskMember DEF ReadyFails, OpenerStates
  <1>3. CASE StartCancelled
    BY <1>3 DEF StartCancelled, OpenedOver, OpenerStates, HandoffStates
  <1>4. CASE PeerSends
    BY <1>4, GhostCounts DEF PeerSends, ReaderStates
  <1>5. CASE PeerFails
    BY <1>5 DEF PeerFails, ReaderStates
  <1>6. CASE ReadsEOF
    BY <1>6, CloseCallType, TaskMember DEF ReadsEOF, ReaderExits, ReaderStates
  <1>7. CASE OtherEmits
    BY <1>7, GhostCounts, QueueAppends, EventMember DEF OtherEmits
  <1>8. CASE CallbackRaises
    BY <1>8, GhostCounts DEF CallbackRaises, CloserStates
  <1>9. CASE \E t \in Tasks : CloserCancelled(t)
    BY <1>9 DEF CloserCancelled, CallStates
  <1>10. CASE \E t \in Tasks : CloseRequested(t)
    BY <1>10, CloseCallType, GhostCounts DEF CloseRequested
  <1>11. CASE \E t \in Tasks : CallerResumes(t)
    <2>1. CallTypes'
      BY <1>11, OutcomeType DEF CallerResumes, CallStates
    <2>2. DeferTypes'
      BY <1>11 DEF CallerResumes, EnsureWaiter, DeferrerStates
    <2> QED
      BY <1>11, <2>1, <2>2 DEF CallerResumes
  <1>12. CASE WorkerTakes
    <2>1. queue \in Seq(Events) /\ queue # <<>> /\ Len(queue) <= QueueBound
      BY <1>12 DEF WorkerTakes, QueueTypes
    <2>2. Head(queue) \in Events /\ Tail(queue) \in Seq(Events) /\ Len(Tail(queue)) <= QueueBound
      BY <2>1, BoundAssumption
    <2>3. HandlerTypes' /\ QueueTypes'
      BY <1>12, <2>2, HandlerGets, BegunType, TaskMember DEF WorkerTakes, HandlerTypes, QueueTypes
    <2> QED
      BY <1>12, <2>3 DEF WorkerTakes
  <1>13. CASE ReadyReturns
    BY <1>13, InlineType, ToQueueType, TaskMember, EventMember DEF ReadyReturns, OpenerStates
  <1>14. CASE OpenerEmitsToQueue
    BY <1>14, ToQueueType, EventMember DEF OpenerEmitsToQueue, OpenerStates
  <1>15. CASE OpenerResumes
    BY <1>15 DEF OpenerResumes, OpenedOver, OpenerStates, HandoffStates
  <1>16. CASE OpenerEnds
    BY <1>16, CloseCallType, TaskMember DEF OpenerEnds, OpenerStates, HandoffStates, ReaderStates
  <1>17. CASE OpenerClosed
    BY <1>17 DEF OpenerClosed, OpenerStates
  <1>18. CASE HandoffPublishes \/ DeferrerPublishes
    BY <1>18, PublishDeferredType DEF HandoffPublishes, DeferrerPublishes
  <1>19. CASE HandoffEnds
    BY <1>19, SettleType DEF HandoffEnds, HandoffStates
  <1>20. CASE DeferrerEnds
    BY <1>20, SettleType DEF DeferrerEnds, DeferrerStates
  <1>21. CASE ReaderEmitsBytes
    BY <1>21, InlineType, ToQueueType, TaskMember, EventMember DEF ReaderEmitsBytes, AfterEmit, ReaderStates
  <1>22. CASE ReaderEmitsErrorInline
    BY <1>22, InlineType, TaskMember, EventMember DEF ReaderEmitsErrorInline, ReaderStates
  <1>23. CASE ReaderEmitsErrorToQueue
    BY <1>23, ToQueueType, CloseCallType, TaskMember, EventMember
    DEF ReaderEmitsErrorToQueue, ReaderExits, ReaderStates
  <1>24. CASE ReaderEnds
    BY <1>24 DEF ReaderEnds, ReaderStates
  <1>25. CASE CloserTearsDown
    BY <1>25, QueueFilters DEF CloserTearsDown, CloserStates, ReaderStates
  <1>26. CASE ReaderGone
    BY <1>26 DEF ReaderGone, CloserStates
  <1>27. CASE WriterGone
    BY <1>27 DEF WriterGone, CloserStates
  <1>28. CASE CallbackReturns
    BY <1>28, DecideType, QueueFilters, GhostCounts DEF CallbackReturns, Decide
  <1>29. CASE CloserRetries
    BY <1>29, DecideType, QueueFilters DEF CloserRetries, Decide
  <1>30. CASE CloserEmitsInline
    BY <1>30, InlineType, TaskMember, EventMember DEF CloserEmitsInline, CloserStates
  <1>31. CASE CloserEmitsToQueue
    BY <1>31, DecideType, FilterAppends DEF CloserEmitsToQueue
  <1>32. CASE CloserPublished
    BY <1>32, CloserEndsType DEF CloserPublished
  <1>33. CASE PublisherEmitsInline
    BY <1>33, InlineType, TaskMember, EventMember DEF PublisherEmitsInline, PublisherStates
  <1>34. CASE PublisherEmitsToQueue
    BY <1>34, PublisherEndsType, QueueAppends, EventMember, GhostCounts DEF PublisherEmitsToQueue
  <1>35. CASE WorkerReturns
    BY <1>35, ContextClosesType, TaskMember, GhostCounts DEF WorkerReturns, OpenedEnded, OpenerStates
  <1>36. CASE \E r \in BOOLEAN : OpenerHandlerEnds(r)
    <2>1. handler' \in Handlers /\ args' \in Args
      BY <1>36, ContextClosesType, TaskMember DEF OpenerHandlerEnds
    <2>2. ghost' \in Ghost
      BY <1>36, GhostCounts DEF OpenerHandlerEnds, OpenedEnded
    <2>3. StartTypes'
      BY <1>36 DEF OpenerHandlerEnds, OpenedOver, OpenerStates, HandoffStates
    <2> QED
      BY <1>36, <2>1, <2>2, <2>3 DEF OpenerHandlerEnds
  <1>37. CASE \E r \in BOOLEAN : ReaderHandlerEnds(r)
    <2>1. PICK r \in BOOLEAN : ReaderHandlerEnds(r)
      BY <1>37
    <2>2. setup' \in Setups /\ StartTypes' /\ DeferTypes' /\ PublishTypes' /\ QueueTypes'
      BY <2>1 DEF ReaderHandlerEnds
    <2>3. StreamTypes'
      BY <2>1 DEF ReaderHandlerEnds, ReaderExits, AfterEmit, StreamTypes, ReaderStates
    <2>4. CASE ContextCloses("reader") /\ UNCHANGED <<state, previous, closer, call, ghost>>
      <3>1. HandlerTypes' /\ args' \in Args
        BY <2>4, ContextClosesType, TaskMember DEF HandlerTypes
      <3> QED
        BY <2>2, <2>3, <2>4, <3>1 DEF CloseTypes, CallTypes
    <2>5. CASE /\ handler' = [handler EXCEPT !["reader"] = "error"]
               /\ args' = [args EXCEPT !.origin = IF @ = "reader" THEN "none" ELSE @]
               /\ ghost' = Begun("error")
               /\ UNCHANGED <<state, previous, closer, call, reader>>
      <3>1. HandlerTypes'
        BY <2>5, HandlerGets, BegunType, TaskMember, EventMember DEF HandlerTypes
      <3>2. args' \in Args
        BY <2>5 DEF Args
      <3> QED
        BY <2>2, <2>3, <2>5, <3>1, <3>2 DEF CloseTypes, CallTypes
    <2>6. CASE /\ handler' = [handler EXCEPT !["reader"] = "none"]
               /\ ReaderExits(handler')
               /\ UNCHANGED ghost
      <3>1. handler' \in Handlers /\ HandlerTypes'
        BY <2>6, HandlerGets, TaskMember DEF HandlerTypes
      <3>2. CASE UNCHANGED <<closeVars, call>>
        BY <2>2, <2>3, <3>1, <3>2 DEF closeVars, CloseTypes, CallTypes
      <3>3. CASE CloseCall("reader", handler', opening)
        BY <2>2, <2>3, <3>1, <3>3, CloseCallType, TaskMember
      <3> QED
        BY <2>6, <3>2, <3>3 DEF ReaderExits
    <2> QED
      BY <2>1, <2>4, <2>5, <2>6 DEF ReaderHandlerEnds
  <1>38. CASE CloserHandlerReturns
    BY <1>38, DecideType, QueueFilters, HandlerGets, TaskMember DEF CloserHandlerReturns, Decide
  <1>39. CASE CloserHandlerRaises
    BY <1>39, CloserEndsType, HandlerGets, TaskMember DEF CloserHandlerRaises
  <1>40. CASE \E r \in BOOLEAN : PublisherHandlerEnds(r)
    <2>1. handler' \in Handlers /\ ghost' \in Ghost /\ args' \in Args
      BY <1>40, ContextClosesType, TaskMember, GhostCounts DEF PublisherHandlerEnds
    <2>2. /\ previous' \in ConnStates \cup {"none"} /\ closer' \in CloserStates
          /\ PublishTypes' /\ deferrer' \in DeferrerStates /\ handoff' \in HandoffStates
      BY <1>40, PublisherEndsType DEF PublisherHandlerEnds
    <2> QED
      BY <1>40, <2>1, <2>2 DEF PublisherHandlerEnds
  <1> QED
    BY <1>0, <1>1, <1>2, <1>3, <1>4, <1>5, <1>6, <1>7, <1>8, <1>9, <1>10, <1>11, <1>12, <1>13, <1>14, <1>15,
       <1>16, <1>17, <1>18, <1>19, <1>20, <1>21, <1>22, <1>23, <1>24, <1>25, <1>26, <1>27, <1>28, <1>29, <1>30,
       <1>31, <1>32, <1>33, <1>34, <1>35, <1>36, <1>37, <1>38, <1>39, <1>40
    DEF Next, HandlerFails, HandlerReturns, OpenerStep, HandoffStep, ReaderStep, CloserStep, PublisherStep,
        DeferrerStep, Tasks


\* Every variable keeps its type, and the queue its bound: nobody appends without
\* having seen room for it, the close task that emits an error included.
THEOREM TypeCorrect == Spec => []TypeOK
  <1>1. TypeInv => TypeOK
    BY DEF TypeInv
  <1> QED
    BY <1>1, TypeInit, TypeStep, PTL DEF Spec


-----------------------------------------------------------------------------
(***************************************************************************)
(* What the pieces of the close do.                                         *)
(***************************************************************************)
\* A call of close() joins the close task, or creates one, or returns.
LEMMA CloseCallEffect ==
  ASSUME TypeInv, NEW t \in Tasks, NEW h \in Handlers, NEW o \in BOOLEAN, CloseCall(t, h, o)
  PROVE  /\ \A u \in Tasks \ {t} : call'[u] = call[u]
         /\ call'[t] \in {"task", "none", "returned"}
         /\ call'[t] = "returned" => t \in Closers /\ published
         /\ \/ UNCHANGED closeVars
            \/ /\ closer = "none" /\ closer' = "start" /\ ~(state = "CLOSED" /\ published)
               /\ args'.caller = t /\ args'.teardown = (state \notin {"CLOSING", "CLOSED"})
               /\ args'.inline = InHandler(t, h)
               /\ args'.origin = IF HandlerOrigin(t, h) THEN t ELSE "none"
               /\ state' = IF state = "CLOSED" THEN "CLOSED" ELSE "CLOSING"
               /\ previous' = IF state # "CLOSED" /\ previous = "none" THEN state ELSE previous
  <1>w. call \in [Tasks -> CallStates] /\ state \in ConnStates
    BY Typed DEF CallTypes, CloseTypes
  <1>1. t \in Closers => t \notin Workers /\ t \notin {"opener", "closer", "publisher"}
    BY TaskAssumption, TaskMember
  <1>2. CASE AlreadyClosed(t, o)
    BY <1>w, <1>1, <1>2 DEF CloseCall, AlreadyClosed, Outcome
  <1>3. CASE ~AlreadyClosed(t, o)
    <2>1. ~(state = "CLOSED" /\ published)
      BY <1>3 DEF AlreadyClosed
    <2>2. \/ UNCHANGED closeVars
          \/ closer = "none" /\ NewCloseTask(t, h)
      BY <1>3 DEF CloseCall
    <2>3. t \in Closers => JoinsCloseTask(t, h)
      BY <1>1 DEF JoinsCloseTask, HandlerOrigin
    <2>4. /\ \A u \in Tasks \ {t} : call'[u] = call[u]
          /\ call'[t] \in {"task", "none", "returned"}
          /\ call'[t] = "returned" => t \in Closers /\ published
      BY <1>w, <1>3, <2>3 DEF CloseCall, Outcome
    <2>5. CASE NewCloseTask(t, h)
      BY <2>1, <2>2, <2>4, <2>5 DEF NewCloseTask, NeedsTeardown, closeVars
    <2> QED
      BY <2>2, <2>4, <2>5
  <1> QED
    BY <1>2, <1>3

\* The close task ends.
LEMMA CloserEndsEffect ==
  ASSUME TypeInv, NEW f \in BOOLEAN, CloserEnds(f)
  PROVE  /\ closer' = "none" /\ args' = NoArgs
         /\ args'.caller = "worker" /\ ~args'.teardown /\ ~args'.inline /\ args'.origin = "none"
         /\ \A t \in Tasks : \/ call'[t] = call[t]
                             \/ ~f /\ call'[t] \in {"resume", "resume_cancelled"}
                             \/ f /\ call'[t] \in {"raised", "none"}
  <1>w. call \in [Tasks -> CallStates]
    BY Typed DEF CallTypes
  <1>1. \A t \in Tasks : \/ call'[t] = call[t]
                         \/ ~f /\ call'[t] \in {"resume", "resume_cancelled"}
                         \/ f /\ call'[t] \in {"raised", "none"}
    BY <1>w DEF CloserEnds, Outcome
  <1> QED
    BY <1>1 DEF CloserEnds, NoArgs

\* The future settles.
LEMMA SettleEffect ==
  ASSUME TypeInv, NEW o \in {"returned", "raised"}, Settle(o)
  PROVE  /\ \/ closer' = closer
            \/ closer = "waiter" /\ closer' = IF o = "returned" THEN "published" ELSE "failed"
         /\ \A t \in Tasks : \/ call'[t] = call[t]
                             \/ call'[t] = "none"
                             \/ t \in Closers /\ call'[t] = o
  BY Typed DEF Settle, CallTypes, Outcome

\* The decision of the close task: the connection is closed, the event is out, or
\* on its way, or promised to somebody else.
LEMMA DecideEffect ==
  ASSUME TypeInv, EventSide, NEW h \in Handlers, Defer(h) \/ PublishNow(h), ~Fresh, UNCHANGED <<previous, published>>
  PROVE  /\ state' = "CLOSED"
         /\ \/ closer' \in {"waiter", "publish"} /\ UNCHANGED <<args, call>>
            \/ /\ closer' = "none" /\ args' = NoArgs
               /\ args'.caller = "worker" /\ ~args'.teardown /\ ~args'.inline /\ args'.origin = "none"
               /\ \A t \in Tasks : call'[t] = call[t] \/ call'[t] \in {"resume", "resume_cancelled"}
               /\ published \/ OriginInFlight \/ args.inline \/ Inherited
         /\ publisher' = publisher \/ (publisher = "none" /\ publisher' = "emit" /\ ~published)
  <1>1. CASE Defer(h)
    <2>1. CASE AwaitsWaiter
      BY <1>1, <2>1 DEF Defer
    <2>2. CASE ~AwaitsWaiter
      <3>1. CloserEnds(FALSE)
        BY <1>1, <2>2 DEF Defer
      <3> QED
        BY <1>1, <2>2, <3>1, CloserEndsEffect DEF Defer, AwaitsWaiter
    <2> QED
      BY <2>1, <2>2
  <1>2. CASE PublishNow(h)
    <2>1. CASE published
      <3>1. CloserEnds(FALSE) /\ UNCHANGED <<state, publisher, inline>>
        BY <1>2, <2>1 DEF PublishNow
      <3> QED
        BY <2>1, <3>1, CloserEndsEffect DEF EventSide
    <2>2. CASE ~published
      <3>1. Finalize(args.inline) /\ closer' = "publish" /\ UNCHANGED <<args, call>>
        BY <1>2, <2>2 DEF PublishNow
      <3> QED
        BY <2>2, <3>1 DEF Finalize, BeginPublication, EventSide
    <2> QED
      BY <2>1, <2>2
  <1> QED
    BY <1>1, <1>2


-----------------------------------------------------------------------------
(***************************************************************************)
(* One callback, then one event.                                            *)
(***************************************************************************)
\* What neither a handler's begin nor its end on another task touches.
Undisturbed ==
  /\ handler'["closer"] = handler["closer"] /\ handler'["publisher"] = handler["publisher"]
  /\ ghost'.callbacks = ghost.callbacks /\ ghost'.published = ghost.published

\* A step that leaves the close alone.
LEMMA CloseKept ==
  ASSUME CloseSide, EventSide, Undisturbed, args'.teardown = args.teardown,
         UNCHANGED <<state, previous, closer, deferred, published, publisher>>,
         \A t \in Tasks : call'[t] = call[t] \/ call'[t] \notin {"resume", "resume_cancelled"}
  PROVE  CloseSide' /\ EventSide'
  BY DEF CloseSide, EventSide, Undisturbed, Fresh, Before

\* A call of close().
LEMMA CloseCalled ==
  ASSUME TypeInv, CloseSide, EventSide, Undisturbed, UNCHANGED <<deferred, published, publisher>>,
         NEW t \in Tasks, NEW h \in Handlers, NEW o \in BOOLEAN, CloseCall(t, h, o)
  PROVE  CloseSide' /\ EventSide'
  <1>w. state \in ConnStates /\ call \in [Tasks -> CallStates]
    BY Typed DEF CloseTypes, CallTypes
  <1>1. \A u \in Tasks : call'[u] = call[u] \/ call'[u] \notin {"resume", "resume_cancelled"}
    BY CloseCallEffect
  <1>2. CASE UNCHANGED closeVars
    BY <1>1, <1>2, CloseKept DEF closeVars
  <1>3. CASE /\ closer = "none" /\ closer' = "start" /\ ~(state = "CLOSED" /\ published)
             /\ args'.teardown = (state \notin {"CLOSING", "CLOSED"})
             /\ state' = IF state = "CLOSED" THEN "CLOSED" ELSE "CLOSING"
             /\ previous' = IF state # "CLOSED" /\ previous = "none" THEN state ELSE previous
    <2>1. Fresh \/ state = "CLOSING" \/ state = "CLOSED"
      BY <1>w DEF ConnStates, Fresh
    <2>2. CloseSide'
      BY <1>1, <1>3, <2>1 DEF CloseSide, Undisturbed, Fresh, Before
    <2>3. EventSide'
      BY <1>3, <2>1 DEF CloseSide, EventSide, Undisturbed, Fresh, Before
    <2> QED
      BY <2>2, <2>3
  <1> QED
    BY <1>2, <1>3, CloseCallEffect

\* The decision of the close task.
LEMMA CloseDecided ==
  ASSUME TypeInv, CloseSide, EventSide, NEW h \in Handlers, Defer(h) \/ PublishNow(h),
         closer \in {"callback", "error", "handling"} \/ (closer = "start" /\ ~args.teardown),
         UNCHANGED <<previous, published>>,
         handler'["closer"] = "none", handler'["publisher"] = handler["publisher"],
         ghost'.callbacks = 1, ghost'.published = ghost.published
  PROVE  CloseSide' /\ EventSide'
  <1>1. ~Fresh
    BY DEF CloseSide
  <1>2. /\ state' = "CLOSED"
        /\ \/ closer' \in {"waiter", "publish"} /\ UNCHANGED <<args, call>>
           \/ closer' = "none"
        /\ publisher' = publisher \/ (publisher = "none" /\ publisher' = "emit" /\ ~published)
    BY <1>1, DecideEffect
  <1>3. CloseSide'
    BY <1>2 DEF CloseSide, Fresh, Before
  <1>4. EventSide'
    BY <1>1, <1>2 DEF EventSide, Fresh, Before
  <1> QED
    BY <1>3, <1>4


\* The fields of the history that an update leaves alone.
LEMMA GhostFields ==
  ASSUME ghost \in Ghost
  PROVE  /\ \A g \in {[ghost EXCEPT !.chunks = @ + 1], [ghost EXCEPT !.others = @ + 1], [ghost EXCEPT !.calls = @ + 1]} :
              g.callbacks = ghost.callbacks /\ g.published = ghost.published
         /\ [ghost EXCEPT !.callbacks = @ + 1].callbacks = ghost.callbacks + 1
         /\ [ghost EXCEPT !.callbacks = @ + 1].published = ghost.published
         /\ [ghost EXCEPT !.published = @ + 1].callbacks = ghost.callbacks
         /\ [ghost EXCEPT !.published = @ + 1].published = ghost.published + 1
         /\ \A b \in BOOLEAN :
              /\ [ghost EXCEPT !.published = @ + (IF b THEN 0 ELSE 1)].callbacks = ghost.callbacks
              /\ [ghost EXCEPT !.published = @ + (IF b THEN 0 ELSE 1)].published = ghost.published + (IF b THEN 0 ELSE 1)
         /\ \A t : OpenedEnded(t).callbacks = ghost.callbacks /\ OpenedEnded(t).published = ghost.published
  BY DEF Ghost, OpenedEnded

LEMMA HeadBegins ==
  ASSUME TypeInv, WorkerTakes
  PROVE  /\ queue \in Seq(Events) /\ queue # <<>> /\ Head(queue) \in Events
         /\ handler'["worker"] = Head(queue) /\ \A u \in Workers \ {"worker"} : handler'[u] = handler[u]
         /\ ghost' = Begun(Head(queue))
         /\ ghost'.callbacks = ghost.callbacks /\ ghost'.published = ghost.published
  <1>1. queue \in Seq(Events) /\ queue # <<>> /\ handler \in Handlers /\ ghost \in Ghost
    BY Typed DEF WorkerTakes, QueueTypes, HandlerTypes
  <1>2. Head(queue) \in Events
    BY <1>1
  <1> QED
    BY <1>1, <1>2, HandlerGets, BegunType, TaskMember DEF WorkerTakes

\* The end of a handler on the read loop: the loop goes on, delivers the error of a
\* handler that raised, or ends, which closes.
LEMMA ReaderHandlerEffect ==
  ASSUME TypeInv, NEW r \in BOOLEAN, ReaderHandlerEnds(r)
  PROVE  /\ handler' \in Handlers /\ \A u \in Workers \ {"reader"} : handler'[u] = handler[u]
         /\ handler["reader"] # "none" /\ Idle("reader")
         /\ UNCHANGED <<setup, startVars, deferVars, publishVars, writer, queue>>
         /\ ghost'.callbacks = ghost.callbacks /\ ghost'.published = ghost.published
         /\ \/ /\ UNCHANGED <<state, previous, closer, call, ghost>>
               /\ handler["reader"] \in {"bytes", "error"}
               /\ handler'["reader"] = "none" /\ reader' \in {"reading", "done"}
               /\ reader' = "reading" => state = "CONNECTED"
               /\ args'.caller = args.caller /\ args'.teardown = args.teardown /\ args'.inline = args.inline
               /\ args'.origin \in {args.origin, "none"}
            \/ /\ UNCHANGED <<state, previous, closer, call, reader>> /\ handler'["reader"] = "error"
               /\ handler["reader"] = "bytes" /\ ghost' = Begun("error")
               /\ args'.caller = args.caller /\ args'.teardown = args.teardown /\ args'.inline = args.inline
               /\ args'.origin \in {args.origin, "none"}
            \/ /\ handler'["reader"] = "none" /\ UNCHANGED ghost
               /\ reader' = "closing" /\ CloseCall("reader", handler', opening)
  <1>t. /\ handler \in Handlers /\ ghost \in Ghost /\ args \in Args /\ opening \in BOOLEAN
    BY Typed DEF HandlerTypes, CloseTypes, StartTypes
  <1>1. /\ handler["reader"] # "none" /\ Idle("reader")
        /\ UNCHANGED <<setup, startVars, deferVars, publishVars, writer, queue>>
    BY DEF ReaderHandlerEnds, CanReturn
  <1>2. CASE /\ ContextCloses("reader") /\ handler["reader"] \in {"bytes", "error"}
             /\ reader' \in {"reading", "done"} /\ (reader' = "reading" => state = "CONNECTED")
             /\ UNCHANGED <<state, previous, closer, call, ghost>>
    BY <1>t, <1>1, <1>2, ContextClosesType, TaskMember
  <1>3. CASE /\ handler' = [handler EXCEPT !["reader"] = "error"] /\ handler["reader"] = "bytes"
             /\ args' = [args EXCEPT !.origin = IF @ = "reader" THEN "none" ELSE @]
             /\ ghost' = Begun("error")
             /\ UNCHANGED <<state, previous, closer, call, reader>>
    <2>1. /\ args'.caller = args.caller /\ args'.teardown = args.teardown /\ args'.inline = args.inline
          /\ args'.origin \in {args.origin, "none"}
      BY <1>t, <1>3 DEF Args
    <2> QED
      BY <1>t, <1>1, <1>3, <2>1, HandlerGets, BegunType, TaskMember, EventMember
  <1>4. CASE /\ handler' = [handler EXCEPT !["reader"] = "none"] /\ state = "CONNECTED"
             /\ ReaderExits(handler') /\ UNCHANGED ghost
    BY <1>t, <1>1, <1>4, HandlerGets, TaskMember DEF ReaderExits
  <1> QED
    BY <1>2, <1>3, <1>4 DEF ReaderHandlerEnds, AfterEmit

\* An inline delivery begins on task t.
LEMMA InlineEffect ==
  ASSUME TypeInv, NEW t \in Workers, NEW e \in Events, EmitsInline(t, e)
  PROVE  /\ handler'[t] = e /\ \A u \in Workers \ {t} : handler'[u] = handler[u]
         /\ ghost' = Begun(e) /\ UNCHANGED queue
         /\ ghost'.callbacks = ghost.callbacks /\ ghost'.published = ghost.published
  BY Typed, HandlerGets, BegunType DEF EmitsInline, HandlerTypes

\* The publication ends.
LEMMA PublicationOver ==
  ASSUME TypeInv, CloseSide, EventSide, publisher # "none", NEW ok \in BOOLEAN, PublisherEnds(ok),
         UNCHANGED <<state, deferred, call>>, args'.teardown = args.teardown,
         handler'["publisher"] = "none", handler'["closer"] = handler["closer"],
         ghost'.callbacks = ghost.callbacks, ghost'.published = ghost.published + (IF ok THEN 1 ELSE 0)
  PROVE  CloseSide' /\ EventSide'
  <1>1. ~published /\ state = "CLOSED" /\ published' = ok /\ publisher' = "none" /\ ~Fresh /\ ~Before
    BY DEF PublisherEnds, CloseSide, EventSide, Fresh
  <1>2. closer' = closer \/ (closer = "publish" /\ closer' \in {"published", "failed"})
    BY DEF PublisherEnds
  <1>3. CloseSide'
    BY <1>1, <1>2 DEF CloseSide, Fresh, Before
  <1>4. EventSide'
    BY <1>1, <1>2 DEF EventSide, PublisherEnds, Fresh, Before
  <1> QED
    BY <1>3, <1>4

LEMMA CloseStep == TypeInv /\ CloseSide /\ EventSide /\ [Next]_vars => CloseSide' /\ EventSide'
  <1> SUFFICES ASSUME TypeInv, CloseSide, EventSide, [Next]_vars PROVE CloseSide' /\ EventSide'
    OBVIOUS
  <1>t. /\ handler \in Handlers /\ ghost \in Ghost /\ args \in Args /\ opening \in BOOLEAN /\ published \in BOOLEAN
        /\ state \in ConnStates /\ publisher \in PublisherStates /\ closer \in CloserStates
    BY Typed DEF HandlerTypes, CloseTypes, StartTypes, PublishTypes
  <1>c. call \in [Tasks -> CallStates]
    BY Typed DEF CallTypes
  <1> USE <1>t DEF startVars, closeVars, deferVars, publishVars, streamVars, handlerVars
  <1>0. CASE UNCHANGED vars
    BY <1>0, CloseKept DEF vars, Undisturbed
  <1>1. CASE StartCalled
    BY <1>1 DEF StartCalled, CloseSide, EventSide, Fresh, Before
  <1>2. CASE ReadyFails
    BY <1>2, CloseCalled, TaskMember DEF ReadyFails, Undisturbed
  <1>3. CASE StartCancelled
    BY <1>3, CloseKept DEF StartCancelled, Undisturbed
  <1>4. CASE PeerSends
    BY <1>4, CloseKept, GhostFields DEF PeerSends, Undisturbed
  <1>5. CASE PeerFails
    BY <1>5, CloseKept DEF PeerFails, Undisturbed
  <1>6. CASE ReadsEOF
    BY <1>6, CloseKept, CloseCalled, TaskMember DEF ReadsEOF, ReaderExits, Undisturbed
  <1>7. CASE OtherEmits
    BY <1>7, CloseKept, GhostFields DEF OtherEmits, Undisturbed
  <1>8. CASE CallbackRaises
    BY <1>8, GhostFields DEF CallbackRaises, CloseSide, EventSide, Fresh, Before
  <1>9. CASE \E t \in Tasks : CloserCancelled(t)
    BY <1>9, <1>c DEF CloserCancelled, CloseSide, EventSide, Fresh, Before
  <1>10. CASE \E t \in Tasks : CloseRequested(t)
    BY <1>10, CloseCalled, GhostFields DEF CloseRequested, Undisturbed
  <1>11. CASE \E t \in Tasks : CallerResumes(t)
    BY <1>11, <1>c DEF CallerResumes, EnsureWaiter, Outcome, CloseSide, EventSide, Fresh, Before
  <1>12. CASE WorkerTakes
    BY <1>12, CloseKept, HeadBegins DEF WorkerTakes, Undisturbed
  <1>13. CASE ReadyReturns
    <2>1. Undisturbed
      BY <1>13, InlineEffect, TaskMember, EventMember DEF ReadyReturns, EmitsToQueue, Undisturbed
    <2> QED
      BY <1>13, <2>1, CloseKept DEF ReadyReturns
  <1>14. CASE OpenerEmitsToQueue
    BY <1>14, CloseKept DEF OpenerEmitsToQueue, EmitsToQueue, Undisturbed
  <1>15. CASE OpenerResumes
    BY <1>15, CloseKept DEF OpenerResumes, Undisturbed
  <1>16. CASE OpenerEnds
    BY <1>16, CloseKept, CloseCalled, TaskMember DEF OpenerEnds, Undisturbed
  <1>17. CASE OpenerClosed
    BY <1>17, CloseKept DEF OpenerClosed, Undisturbed
  <1>18. CASE HandoffPublishes \/ DeferrerPublishes
    <2>1. CASE UNCHANGED <<state, deferred, closer, publisher, call>>
      BY <1>18, <2>1, CloseKept DEF HandoffPublishes, DeferrerPublishes, Undisturbed
    <2>2. CASE deferred /\ ~deferred' /\ published /\ Settle("returned") /\ UNCHANGED <<state, publisher>>
      BY <1>18, <2>2, SettleEffect DEF HandoffPublishes, DeferrerPublishes, CloseSide, EventSide, Fresh, Before
    <2>3. CASE deferred /\ ~deferred' /\ ~published /\ Finalize(TRUE) /\ UNCHANGED <<closer, call>>
      BY <1>18, <2>3
      DEF HandoffPublishes, DeferrerPublishes, Finalize, BeginPublication, CloseSide, EventSide, Fresh, Before
    <2> QED
      BY <1>18, <2>1, <2>2, <2>3 DEF HandoffPublishes, DeferrerPublishes, PublishDeferred
  <1>19. CASE HandoffEnds
    BY <1>19, SettleEffect DEF HandoffEnds, CloseSide, EventSide, Fresh, Before
  <1>20. CASE DeferrerEnds
    BY <1>20, SettleEffect DEF DeferrerEnds, CloseSide, EventSide, Fresh, Before
  <1>21. CASE ReaderEmitsBytes
    <2>1. Undisturbed
      BY <1>21, InlineEffect, TaskMember, EventMember DEF ReaderEmitsBytes, EmitsToQueue, Undisturbed
    <2> QED
      BY <1>21, <2>1, CloseKept DEF ReaderEmitsBytes
  <1>22. CASE ReaderEmitsErrorInline
    BY <1>22, CloseKept, HandlerGets, BegunType, TaskMember, EventMember
    DEF ReaderEmitsErrorInline, EmitsInline, Undisturbed
  <1>23. CASE ReaderEmitsErrorToQueue
    BY <1>23, CloseKept, CloseCalled, TaskMember
    DEF ReaderEmitsErrorToQueue, EmitsToQueue, ReaderExits, Undisturbed
  <1>24. CASE ReaderEnds
    BY <1>24, CloseKept DEF ReaderEnds, Undisturbed
  <1>25. CASE CloserTearsDown
    BY <1>25 DEF CloserTearsDown, CloseSide, EventSide, Fresh, Before
  <1>26. CASE ReaderGone
    BY <1>26 DEF ReaderGone, CloseSide, EventSide, Fresh, Before
  <1>27. CASE WriterGone
    BY <1>27 DEF WriterGone, CloseSide, EventSide, Fresh, Before
  <1>28. CASE CallbackReturns
    BY <1>28, CloseDecided, GhostFields, HandlerGets, TaskMember
    DEF CallbackReturns, Decide, CanReturn, CloseSide, EventSide, Fresh, Before
  <1>29. CASE CloserRetries
    BY <1>29, CloseDecided, GhostFields, HandlerGets, TaskMember
    DEF CloserRetries, Decide, CanReturn, CloseSide, EventSide, Fresh, Before
  <1>30. CASE CloserEmitsInline
    BY <1>30, HandlerGets, BegunType, TaskMember, EventMember
    DEF CloserEmitsInline, EmitsInline, CloseSide, EventSide, Fresh, Before
  <1>31. CASE CloserEmitsToQueue
    BY <1>31, CloseDecided, GhostFields, HandlerGets, TaskMember
    DEF CloserEmitsToQueue, Decide, CanReturn, CloseSide, EventSide, Fresh, Before
  <1>32. CASE CloserPublished
    BY <1>32, CloserEndsEffect DEF CloserPublished, CloseSide, EventSide, Fresh, Before
  <1>33. CASE PublisherEmitsInline
    BY <1>33, HandlerGets, BegunType, TaskMember, EventMember
    DEF PublisherEmitsInline, EmitsInline, CloseSide, EventSide, Fresh, Before
  <1>34. CASE PublisherEmitsToQueue
    <2>1. handler["publisher"] = "none"
      BY <1>34 DEF PublisherEmitsToQueue, EventSide
    <2> QED
      BY <1>34, <2>1, PublicationOver, GhostFields DEF PublisherEmitsToQueue
  <1>35. CASE WorkerReturns
    BY <1>35, CloseKept, ContextClosesType, GhostFields, TaskMember DEF WorkerReturns, Undisturbed
  <1>36. CASE \E r \in BOOLEAN : OpenerHandlerEnds(r)
    BY <1>36, CloseKept, ContextClosesType, GhostFields, TaskMember DEF OpenerHandlerEnds, Undisturbed
  <1>37. CASE \E r \in BOOLEAN : ReaderHandlerEnds(r)
    BY <1>37, CloseKept, CloseCalled, ReaderHandlerEffect, TaskMember DEF Undisturbed
  <1>38. CASE CloserHandlerReturns
    <2>1. handler' \in Handlers /\ handler'["closer"] = "none" /\ handler'["publisher"] = handler["publisher"]
      BY <1>38, HandlerGets, TaskMember DEF CloserHandlerReturns
    <2>2. closer = "handling"
      BY <1>38 DEF CloserHandlerReturns, CanReturn, CloseSide
    <2>3. ghost.callbacks = 1
      BY <2>2 DEF CloseSide, EventSide, Fresh, Before
    <2> QED
      BY <1>38, <2>1, <2>2, <2>3, CloseDecided DEF CloserHandlerReturns, Decide
  <1>39. CASE CloserHandlerRaises
    BY <1>39, CloserEndsEffect, HandlerGets, TaskMember
    DEF CloserHandlerRaises, CanReturn, CloseSide, EventSide, Fresh, Before
  <1>40. CASE \E r \in BOOLEAN : PublisherHandlerEnds(r)
    <2>1. PICK r \in BOOLEAN : PublisherHandlerEnds(r)
      BY <1>40
    <2>2. publisher # "none" /\ handler'["publisher"] = "none" /\ handler'["closer"] = handler["closer"]
      BY <2>1, ContextClosesType, TaskMember DEF PublisherHandlerEnds, CanReturn, EventSide
    <2>3. args'.teardown = args.teardown
      BY <2>1, ContextClosesType, TaskMember DEF PublisherHandlerEnds
    <2>4. ghost'.callbacks = ghost.callbacks /\ ghost'.published = ghost.published + (IF ~r THEN 1 ELSE 0)
      BY <2>1, GhostFields DEF PublisherHandlerEnds
    <2> QED
      BY <2>1, <2>2, <2>3, <2>4, PublicationOver DEF PublisherHandlerEnds
  <1> QED
    BY <1>0, <1>1, <1>2, <1>3, <1>4, <1>5, <1>6, <1>7, <1>8, <1>9, <1>10, <1>11, <1>12, <1>13, <1>14, <1>15,
       <1>16, <1>17, <1>18, <1>19, <1>20, <1>21, <1>22, <1>23, <1>24, <1>25, <1>26, <1>27, <1>28, <1>29, <1>30,
       <1>31, <1>32, <1>33, <1>34, <1>35, <1>36, <1>37, <1>38, <1>39, <1>40
    DEF Next, HandlerFails, HandlerReturns, OpenerStep, HandoffStep, ReaderStep, CloserStep, PublisherStep,
        DeferrerStep, Tasks


\* What docs/lifecycle.md and docs/architecture.md promise of a close: one callback,
\* then one event that completed, of which _closed_event_published tells the truth
\* and which names the state before the first close().
THEOREM ClosedIsPublishedOnce == Spec => []ClosedPublishedOnce
  <1>1. Init => CloseSide /\ EventSide
    BY TaskMember DEF Init, CloseSide, EventSide, Fresh, Before
  <1>2. TypeInv /\ CloseSide /\ EventSide => ClosedPublishedOnce
    <2> SUFFICES ASSUME TypeInv, CloseSide, EventSide PROVE ClosedPublishedOnce
      OBVIOUS
    <2>1. published \in BOOLEAN
      BY Typed DEF PublishTypes
    <2> QED
      BY <2>1 DEF CloseSide, EventSide, ClosedPublishedOnce, Fresh
  <1> QED
    BY <1>1, <1>2, TypeInit, TypeStep, CloseStep, PTL DEF Spec

-----------------------------------------------------------------------------
(***************************************************************************)
(* What a close() from outside has seen.                                    *)
(***************************************************************************)
\* The decision reports nothing as published itself.
LEMMA DecideSide ==
  ASSUME NEW h, Defer(h) \/ PublishNow(h)
  PROVE  closer' # "published" /\ (deferrer' = deferrer \/ deferrer' = "wait")
  BY DEF Defer, PublishNow, CloserEnds, deferVars

LEMMA ToldStep == TypeInv /\ CloseSide /\ EventSide /\ ToldSide /\ [Next]_vars => ToldSide'
  <1> SUFFICES ASSUME TypeInv, CloseSide, EventSide, ToldSide, [Next]_vars PROVE ToldSide'
    OBVIOUS
  <1>t. handler \in Handlers /\ ghost \in Ghost /\ opening \in BOOLEAN /\ published \in BOOLEAN
    BY Typed DEF HandlerTypes, StartTypes, PublishTypes
  <1> USE <1>t DEF startVars, closeVars, deferVars, publishVars, streamVars, handlerVars, ToldSide
  <1>0. CASE UNCHANGED vars
    BY <1>0 DEF vars
  <1>1. CASE StartCalled
    BY <1>1 DEF StartCalled
  <1>2. CASE ReadyFails
    BY <1>2, CloseCallEffect, TaskMember DEF ReadyFails
  <1>3. CASE StartCancelled
    BY <1>3 DEF StartCancelled, OpenedOver
  <1>4. CASE PeerSends
    BY <1>4 DEF PeerSends
  <1>5. CASE PeerFails
    BY <1>5 DEF PeerFails
  <1>6. CASE ReadsEOF
    BY <1>6, CloseCallEffect, TaskMember DEF ReadsEOF, ReaderExits
  <1>7. CASE OtherEmits
    BY <1>7 DEF OtherEmits
  <1>8. CASE CallbackRaises
    BY <1>8 DEF CallbackRaises
  <1>9. CASE \E t \in Tasks : CloserCancelled(t)
    BY <1>9 DEF CloserCancelled
  <1>10. CASE \E t \in Tasks : CloseRequested(t)
    BY <1>10, CloseCallEffect DEF CloseRequested
  <1>11. CASE \E t \in Tasks : CallerResumes(t)
    BY <1>11 DEF CallerResumes, EnsureWaiter
  <1>12. CASE WorkerTakes
    BY <1>12 DEF WorkerTakes
  <1>13. CASE ReadyReturns
    BY <1>13 DEF ReadyReturns
  <1>14. CASE OpenerEmitsToQueue
    BY <1>14 DEF OpenerEmitsToQueue
  <1>15. CASE OpenerResumes
    BY <1>15 DEF OpenerResumes, OpenedOver
  <1>16. CASE OpenerEnds
    BY <1>16, CloseCallEffect, TaskMember DEF OpenerEnds
  <1>17. CASE OpenerClosed
    BY <1>17 DEF OpenerClosed
  <1>18. CASE HandoffPublishes \/ DeferrerPublishes
    BY <1>18, SettleEffect DEF HandoffPublishes, DeferrerPublishes, PublishDeferred
  <1>19. CASE HandoffEnds
    BY <1>19, SettleEffect DEF HandoffEnds
  <1>20. CASE DeferrerEnds
    BY <1>20, SettleEffect DEF DeferrerEnds
  <1>21. CASE ReaderEmitsBytes
    BY <1>21 DEF ReaderEmitsBytes
  <1>22. CASE ReaderEmitsErrorInline
    BY <1>22 DEF ReaderEmitsErrorInline
  <1>23. CASE ReaderEmitsErrorToQueue
    BY <1>23, CloseCallEffect, TaskMember DEF ReaderEmitsErrorToQueue, ReaderExits
  <1>24. CASE ReaderEnds
    BY <1>24 DEF ReaderEnds
  <1>25. CASE CloserTearsDown
    BY <1>25 DEF CloserTearsDown
  <1>26. CASE ReaderGone
    BY <1>26 DEF ReaderGone
  <1>27. CASE WriterGone
    BY <1>27 DEF WriterGone
  <1>28. CASE CallbackReturns
    BY <1>28, DecideSide DEF CallbackReturns, Decide
  <1>29. CASE CloserRetries
    BY <1>29, DecideSide DEF CloserRetries, Decide
  <1>30. CASE CloserEmitsInline
    BY <1>30 DEF CloserEmitsInline
  <1>31. CASE CloserEmitsToQueue
    BY <1>31, DecideSide DEF CloserEmitsToQueue
  <1>32. CASE CloserPublished
    BY <1>32, CloserEndsEffect DEF CloserPublished
  <1>33. CASE PublisherEmitsInline
    BY <1>33 DEF PublisherEmitsInline
  <1>34. CASE PublisherEmitsToQueue
    BY <1>34 DEF PublisherEmitsToQueue, PublisherEnds
  <1>35. CASE WorkerReturns
    BY <1>35 DEF WorkerReturns
  <1>36. CASE \E r \in BOOLEAN : OpenerHandlerEnds(r)
    BY <1>36 DEF OpenerHandlerEnds, OpenedOver
  <1>37. CASE \E r \in BOOLEAN : ReaderHandlerEnds(r)
    BY <1>37, CloseCallEffect, ReaderHandlerEffect, TaskMember
  <1>38. CASE CloserHandlerReturns
    BY <1>38, DecideSide, HandlerGets, TaskMember DEF CloserHandlerReturns, Decide, CanReturn, CloseSide
  <1>39. CASE CloserHandlerRaises
    BY <1>39, CloserEndsEffect DEF CloserHandlerRaises
  <1>40. CASE \E r \in BOOLEAN : PublisherHandlerEnds(r)
    BY <1>40 DEF PublisherHandlerEnds, PublisherEnds
  <1> QED
    BY <1>0, <1>1, <1>2, <1>3, <1>4, <1>5, <1>6, <1>7, <1>8, <1>9, <1>10, <1>11, <1>12, <1>13, <1>14, <1>15,
       <1>16, <1>17, <1>18, <1>19, <1>20, <1>21, <1>22, <1>23, <1>24, <1>25, <1>26, <1>27, <1>28, <1>29, <1>30,
       <1>31, <1>32, <1>33, <1>34, <1>35, <1>36, <1>37, <1>38, <1>39, <1>40
    DEF Next, HandlerFails, HandlerReturns, OpenerStep, HandoffStep, ReaderStep, CloserStep, PublisherStep,
        DeferrerStep, Tasks


-----------------------------------------------------------------------------
(***************************************************************************)
(* Who delivers what, and when.                                             *)
(***************************************************************************)
LEMMA FilteredEmpty == queue = <<>> => WithoutBytes(queue) = <<>>
  <1> SUFFICES ASSUME queue = <<>> PROVE WithoutBytes(queue) = <<>>
    OBVIOUS
  <1>1. queue \in Seq(Events) /\ Len(queue) = 0
    OBVIOUS
  <1>2. WithoutBytes(queue) \in Seq(Events) /\ Len(WithoutBytes(queue)) <= 0
    BY <1>1, Filtered
  <1> HIDE DEF WithoutBytes
  <1> QED
    BY <1>2

\* Handlers run where their events are emitted.
LEMMA HandlerStep ==
  TypeInv /\ CloseSide /\ EventSide /\ HandlerSide /\ OpenedSide /\ [Next]_vars => HandlerSide'
  <1> SUFFICES ASSUME TypeInv, CloseSide, EventSide, HandlerSide, OpenedSide, [Next]_vars PROVE HandlerSide'
    OBVIOUS
  <1>t. /\ handler \in Handlers /\ ghost \in Ghost /\ args \in Args /\ opening \in BOOLEAN /\ published \in BOOLEAN
        /\ queue \in Seq(Events)
    BY Typed DEF HandlerTypes, CloseTypes, StartTypes, PublishTypes, QueueTypes
  <1> USE <1>t DEF startVars, closeVars, deferVars, publishVars, streamVars, handlerVars, HandlerSide
  <1>0. CASE UNCHANGED vars
    BY <1>0 DEF vars
  <1>1. CASE \/ StartCalled \/ ReadyFails \/ StartCancelled \/ PeerSends \/ PeerFails \/ CallbackRaises
             \/ OpenerResumes \/ OpenerClosed \/ HandoffPublishes \/ DeferrerPublishes \/ HandoffEnds
             \/ DeferrerEnds \/ ReaderEnds \/ ReaderGone
               \/ WriterGone \/ CloserPublished
             \/ (\E t \in Tasks : CloserCancelled(t))
             \/ (\E t \in Tasks : CloseRequested(t))
             \/ (\E t \in Tasks : CallerResumes(t))
    BY <1>1
    DEF StartCalled, ReadyFails, StartCancelled, PeerSends, PeerFails, CallbackRaises, CloserCancelled,
        CloseRequested, CallerResumes, OpenerResumes, OpenerClosed, HandoffPublishes, DeferrerPublishes,
        HandoffEnds, DeferrerEnds, ReaderEnds, ReaderGone, WriterGone, CloserPublished, OpenedOver
  <1>2. CASE ReadsEOF
    BY <1>2 DEF ReadsEOF, ReaderExits
  <1>3. CASE OtherEmits
    BY <1>3 DEF OtherEmits
  <1>4. CASE WorkerTakes
    BY <1>4, HeadBegins DEF WorkerTakes
  <1>5. CASE ReadyReturns
    BY <1>5, InlineEffect, TaskMember, EventMember DEF ReadyReturns, DeliversInline, EmitsToQueue
  <1>6. CASE OpenerEmitsToQueue
    BY <1>6 DEF OpenerEmitsToQueue, EmitsToQueue
  <1>7. CASE OpenerEnds
    BY <1>7 DEF OpenerEnds, OpenedSide
  <1>8. CASE ReaderEmitsBytes
    BY <1>8, InlineEffect, TaskMember, EventMember DEF ReaderEmitsBytes, DeliversInline, EmitsToQueue, AfterEmit
  <1>9. CASE ReaderEmitsErrorInline
    BY <1>9, InlineEffect, TaskMember, EventMember DEF ReaderEmitsErrorInline, DeliversInline
  <1>10. CASE ReaderEmitsErrorToQueue
    BY <1>10 DEF ReaderEmitsErrorToQueue, DeliversInline, EmitsToQueue, ReaderExits
  <1>11. CASE CloserTearsDown
    BY <1>11, FilteredEmpty, TaskMember
    DEF CloserTearsDown, CancelsReader, DeliversToActiveHandler, DeliversInline, ActiveHandler, ConnEvents
  <1>12. CASE CallbackReturns
    BY <1>12, FilteredEmpty DEF CallbackReturns, Decide
  <1>13. CASE CloserRetries
    BY <1>13, FilteredEmpty DEF CloserRetries, Decide
  <1>14. CASE CloserEmitsInline
    BY <1>14, InlineEffect, TaskMember, EventMember DEF CloserEmitsInline
  <1>15. CASE CloserEmitsToQueue
    BY <1>15 DEF CloserEmitsToQueue, DeliversInline
  <1>16. CASE PublisherEmitsInline
    BY <1>16, InlineEffect, TaskMember, EventMember DEF PublisherEmitsInline
  <1>17. CASE PublisherEmitsToQueue
    BY <1>17 DEF PublisherEmitsToQueue, DeliversInline
  <1>18. CASE WorkerReturns
    BY <1>18, ContextClosesType, TaskMember DEF WorkerReturns, CanReturn
  <1>19. CASE \E r \in BOOLEAN : OpenerHandlerEnds(r)
    BY <1>19, ContextClosesType, TaskMember DEF OpenerHandlerEnds, OpenedOver
  <1>20. CASE \E r \in BOOLEAN : ReaderHandlerEnds(r)
    BY <1>20, ReaderHandlerEffect, TaskMember DEF ReaderHandlerEnds
  <1>21. CASE CloserHandlerReturns
    BY <1>21, FilteredEmpty, HandlerGets, TaskMember DEF CloserHandlerReturns, Decide
  <1>22. CASE CloserHandlerRaises
    BY <1>22, HandlerGets, TaskMember DEF CloserHandlerRaises
  <1>23. CASE \E r \in BOOLEAN : PublisherHandlerEnds(r)
    BY <1>23, ContextClosesType, TaskMember DEF PublisherHandlerEnds
  <1> QED
    BY <1>0, <1>1, <1>2, <1>3, <1>4, <1>5, <1>6, <1>7, <1>8, <1>9, <1>10, <1>11, <1>12, <1>13, <1>14, <1>15,
       <1>16, <1>17, <1>18, <1>19, <1>20, <1>21, <1>22, <1>23
    DEF Next, HandlerFails, HandlerReturns, OpenerStep, HandoffStep, ReaderStep, CloserStep, PublisherStep,
        DeferrerStep, Tasks


\* More fields of the history that an update leaves alone.
LEMMA HistoryFields ==
  ASSUME ghost \in Ghost
  PROVE  /\ \A g \in {[ghost EXCEPT !.chunks = @ + 1], [ghost EXCEPT !.others = @ + 1], [ghost EXCEPT !.calls = @ + 1],
                      [ghost EXCEPT !.callbacks = @ + 1], [ghost EXCEPT !.published = @ + 1]} :
              g.opened = ghost.opened /\ g.closed = ghost.closed /\ g.late = ghost.late
         /\ \A b \in BOOLEAN :
              /\ [ghost EXCEPT !.published = @ + (IF b THEN 0 ELSE 1)].opened = ghost.opened
              /\ [ghost EXCEPT !.published = @ + (IF b THEN 0 ELSE 1)].closed = ghost.closed
              /\ [ghost EXCEPT !.published = @ + (IF b THEN 0 ELSE 1)].late = ghost.late
         /\ \A t : /\ OpenedEnded(t).opened = IF handler[t] = "opened" THEN "ended" ELSE ghost.opened
                   /\ OpenedEnded(t).closed = ghost.closed /\ OpenedEnded(t).late = ghost.late
         /\ \A e \in Events :
              /\ Begun(e).opened = IF e = "opened" THEN "begun" ELSE ghost.opened
              /\ Begun(e).closed = (ghost.closed \/ e = "closed")
              /\ Begun(e).late = IF ghost.closed /\ e \in ConnEvents \ {"closed"} THEN ghost.late \cup {e} ELSE ghost.late
  BY DEF Ghost, OpenedEnded, Begun

\* The queue is what is left of the old one, in order, and then possibly event e.
Derived(e) ==
  \E f \in [DOMAIN queue' -> DOMAIN queue \cup {Len(queue) + 1}] :
    /\ \A n \in DOMAIN queue' : queue'[n] = IF f[n] \in DOMAIN queue THEN queue[f[n]] ELSE e
    /\ \A m, n \in DOMAIN queue' : m < n => f[m] < f[n]

LEMMA QueueSame ==
  ASSUME queue \in Seq(Events), UNCHANGED queue, NEW e
  PROVE  Derived(e)
  <1> DEFINE f == [n \in DOMAIN queue' |-> n]
  <1>1. f \in [DOMAIN queue' -> DOMAIN queue \cup {Len(queue) + 1}]
    OBVIOUS
  <1> QED
    BY <1>1 DEF Derived

LEMMA QueueLonger ==
  ASSUME queue \in Seq(Events), NEW e \in Events, queue' = Append(queue, e)
  PROVE  Derived(e)
  <1> DEFINE f == [n \in DOMAIN queue' |-> n]
  <1>1. DOMAIN queue' = 1 .. Len(queue) + 1 /\ DOMAIN queue = 1 .. Len(queue) /\ Len(queue) \in Nat
    OBVIOUS
  <1>2. f \in [DOMAIN queue' -> DOMAIN queue \cup {Len(queue) + 1}]
    BY <1>1
  <1>3. \A n \in DOMAIN queue' : queue'[n] = IF f[n] \in DOMAIN queue THEN queue[f[n]] ELSE e
    BY <1>1
  <1>4. \A m, n \in DOMAIN queue' : m < n => f[m] < f[n]
    OBVIOUS
  <1> QED
    BY <1>2, <1>3, <1>4 DEF Derived

LEMMA QueueShorter ==
  ASSUME queue \in Seq(Events), queue # <<>>, queue' = Tail(queue), NEW e
  PROVE  /\ Derived(e) /\ 1 \in DOMAIN queue /\ queue[1] = Head(queue)
         /\ \A n \in DOMAIN queue' : n + 1 \in DOMAIN queue /\ queue'[n] = queue[n + 1] /\ n + 1 > 1 /\ n \in Nat
  <1> DEFINE f == [n \in DOMAIN queue' |-> n + 1]
  <1>1. /\ 1 \in DOMAIN queue /\ queue[1] = Head(queue) /\ DOMAIN queue \subseteq Nat
        /\ \A n \in DOMAIN queue' : n + 1 \in DOMAIN queue /\ queue'[n] = queue[n + 1] /\ n + 1 > 1 /\ n \in Nat
    OBVIOUS
  <1>2. f \in [DOMAIN queue' -> DOMAIN queue \cup {Len(queue) + 1}]
    BY <1>1
  <1>3. \A n \in DOMAIN queue' : queue'[n] = IF f[n] \in DOMAIN queue THEN queue[f[n]] ELSE e
    BY <1>1
  <1>4. \A m, n \in DOMAIN queue' : m < n => f[m] < f[n]
    BY <1>1
  <1> HIDE DEF f
  <1> QED
    BY <1>1, <1>2, <1>3, <1>4 DEF Derived

LEMMA QueueFiltered ==
  ASSUME queue \in Seq(Events), queue' = WithoutBytes(queue), NEW e
  PROVE  Derived(e)
  <1>1. WithoutBytes(queue) \in Seq(Events)
    BY Filtered
  <1>2. DOMAIN queue' = 1 .. Len(WithoutBytes(queue)) /\ DOMAIN queue = 1 .. Len(queue)
    BY <1>1
  <1>3. PICK f \in [1 .. Len(WithoutBytes(queue)) -> 1 .. Len(queue)] :
          /\ \A n \in 1 .. Len(WithoutBytes(queue)) : WithoutBytes(queue)[n] = queue[f[n]] /\ queue[f[n]] # "bytes"
          /\ \A m, n \in 1 .. Len(WithoutBytes(queue)) : m < n => f[m] < f[n]
    BY Filtered
  <1> HIDE DEF WithoutBytes
  <1>4. f \in [DOMAIN queue' -> DOMAIN queue \cup {Len(queue) + 1}]
    BY <1>2, <1>3
  <1>5. \A n \in DOMAIN queue' : queue'[n] = IF f[n] \in DOMAIN queue THEN queue[f[n]] ELSE e
    BY <1>2, <1>3
  <1> QED
    BY <1>2, <1>3, <1>4, <1>5 DEF Derived

LEMMA QueueReplaced ==
  ASSUME queue \in Seq(Events), NEW e \in Events, queue' = Append(WithoutBytes(queue), e)
  PROVE  Derived(e)
  <1> DEFINE W == WithoutBytes(queue)
  <1>1. W \in Seq(Events) /\ Len(queue) \in Nat
    BY Filtered
  <1>2. PICK f \in [1 .. Len(W) -> 1 .. Len(queue)] :
          /\ \A n \in 1 .. Len(W) : W[n] = queue[f[n]]
          /\ \A m, n \in 1 .. Len(W) : m < n => f[m] < f[n]
    BY Filtered
  <1>3. queue' = Append(W, e)
    OBVIOUS
  <1> HIDE DEF W
  <1>4. /\ DOMAIN queue' = 1 .. Len(W) + 1 /\ DOMAIN queue = 1 .. Len(queue) /\ Len(W) \in Nat
        /\ \A n \in DOMAIN queue' : queue'[n] = IF n \in 1 .. Len(W) THEN W[n] ELSE e
    BY <1>1, <1>3
  <1> DEFINE g == [n \in DOMAIN queue' |-> IF n \in 1 .. Len(W) THEN f[n] ELSE Len(queue) + 1]
  <1>5. g \in [DOMAIN queue' -> DOMAIN queue \cup {Len(queue) + 1}]
    BY <1>1, <1>4
  <1>6. \A n \in DOMAIN queue' : queue'[n] = IF g[n] \in DOMAIN queue THEN queue[g[n]] ELSE e
    BY <1>1, <1>2, <1>4
  <1>7. ASSUME NEW m \in DOMAIN queue', NEW n \in DOMAIN queue', m < n PROVE g[m] < g[n]
    <2>1. m \in 1 .. Len(W) /\ f[m] \in 1 .. Len(queue)
      BY <1>4, <1>7
    <2>2. CASE n \in 1 .. Len(W)
      BY <1>2, <1>7, <2>1, <2>2
    <2>3. CASE n \notin 1 .. Len(W)
      BY <1>1, <2>1, <2>3
    <2> QED
      BY <2>2, <2>3
  <1> HIDE DEF g
  <1> QED
    BY <1>5, <1>6, <1>7 DEF Derived


\* What a change of the queue does to the opened event and the payload in it.
LEMMA OpenedQueue ==
  ASSUME queue \in Seq(Events), queue' \in Seq(Events), OpenedSide, ReaderSide, NEW e, Derived(e), e # "opened"
  PROVE  /\ \A i \in DOMAIN queue' : queue'[i] = "opened" =>
              /\ opener = "opened" /\ ghost.opened = "no"
              /\ \A j \in DOMAIN queue' : queue'[j] = "opened" => i = j
         /\ \A i \in DOMAIN queue' : queue'[i] = "bytes" => reader # "none" \/ e = "bytes"
  <1>1. PICK f \in [DOMAIN queue' -> DOMAIN queue \cup {Len(queue) + 1}] :
          /\ \A n \in DOMAIN queue' : queue'[n] = IF f[n] \in DOMAIN queue THEN queue[f[n]] ELSE e
          /\ \A m, n \in DOMAIN queue' : m < n => f[m] < f[n]
    BY DEF Derived
  <1>2. DOMAIN queue' \subseteq Nat /\ \A n \in DOMAIN queue' : f[n] \in Nat
    BY <1>1
  <1>3. ASSUME NEW i \in DOMAIN queue', queue'[i] = "opened"
        PROVE  f[i] \in DOMAIN queue /\ queue[f[i]] = "opened"
    BY <1>1, <1>3
  <1>4. ASSUME NEW i \in DOMAIN queue', NEW j \in DOMAIN queue', queue'[i] = "opened", queue'[j] = "opened"
        PROVE  i = j
    <2>1. f[i] = f[j]
      BY <1>3, <1>4 DEF OpenedSide
    <2>2. ~(i < j) /\ ~(j < i)
      BY <1>1, <1>2, <2>1
    <2> QED
      BY <1>2, <2>2
  <1>5. \A i \in DOMAIN queue' : queue'[i] = "bytes" => reader # "none" \/ e = "bytes"
    BY <1>1 DEF ReaderSide
  <1> QED
    BY <1>3, <1>4, <1>5 DEF OpenedSide

\* A step in which the opening stays where it is.
LEMMA OpenedKept ==
  ASSUME TypeInv, queue' \in Seq(Events), OpenedSide, ReaderSide, NEW e, Derived(e), e # "opened",
         e = "bytes" => reader # "none",
         UNCHANGED opener, opener = "handoff" /\ ~doomed' => ~doomed, handoff # "none" <=> handoff' # "none",
         ghost'.opened = ghost.opened, reader' # "none" <=> reader # "none",
         \A t \in Workers : \/ handler'[t] = handler[t]
                            \/ handler'[t] = "bytes" /\ reader # "none"
                            \/ handler'[t] \notin {"opened", "bytes"}
  PROVE  OpenedSide' /\ ReaderSide'
  <1>1. queue \in Seq(Events)
    BY Typed DEF QueueTypes
  <1>2. /\ \A i \in DOMAIN queue' : queue'[i] = "opened" =>
              /\ opener = "opened" /\ ghost.opened = "no"
              /\ \A j \in DOMAIN queue' : queue'[j] = "opened" => i = j
        /\ \A i \in DOMAIN queue' : queue'[i] = "bytes" => reader # "none"
    BY <1>1, OpenedQueue
  <1>3. OpenedSide'
    BY <1>2 DEF OpenedSide
  <1>4. ReaderSide'
    BY <1>2 DEF ReaderSide
  <1> QED
    BY <1>3, <1>4


LEMMA AppendsOpened ==
  ASSUME queue \in Seq(Events), EmitsToQueue("opened"), \A i \in DOMAIN queue : queue[i] \notin {"opened", "bytes"}
  PROVE  /\ \A i \in DOMAIN queue' : queue'[i] # "bytes"
         /\ \A i, j \in DOMAIN queue' : queue'[i] = "opened" /\ queue'[j] = "opened" => i = j
         /\ UNCHANGED <<handler, ghost>>
  BY EventMember DEF EmitsToQueue

\* The tear-down cancels a read loop, it does not start one.
LEMMA TearsDownReader == CloserTearsDown => (reader' # "none" <=> reader # "none")
  BY DEF CloserTearsDown, CancelsReader

\* The opened event is the first, and alone until its handler has returned.
LEMMA OpenedStep ==
  /\ TypeInv /\ CloseSide /\ EventSide /\ HandlerSide /\ OpenedSide /\ ReaderSide /\ [Next]_vars
  => (OpenedSide /\ ReaderSide)'
  <1> SUFFICES ASSUME TypeInv, CloseSide, EventSide, HandlerSide, OpenedSide, ReaderSide, [Next]_vars
               PROVE  (OpenedSide /\ ReaderSide)'
    OBVIOUS
  <1>t. /\ handler \in Handlers /\ ghost \in Ghost /\ args \in Args /\ opening \in BOOLEAN /\ published \in BOOLEAN
        /\ queue \in Seq(Events)
    BY Typed DEF HandlerTypes, CloseTypes, StartTypes, PublishTypes, QueueTypes
  <1>q. queue' \in Seq(Events)
    BY TypeStep, TypedPrimed DEF QueueTypes
  <1> USE <1>t, <1>q DEF startVars, closeVars, deferVars, publishVars, streamVars, handlerVars
  <1>0. CASE UNCHANGED vars
    BY <1>0 DEF vars, OpenedSide, ReaderSide
  <1>1. CASE \/ StartCalled \/ ReadyFails \/ StartCancelled \/ PeerFails \/ OpenerResumes \/ OpenerEnds
             \/ OpenerClosed \/ HandoffPublishes \/ DeferrerPublishes \/ HandoffEnds \/ DeferrerEnds
             \/ ReaderEnds \/ ReaderGone
               \/ WriterGone \/ CloserPublished
             \/ (\E t \in Tasks : CloserCancelled(t))
             \/ (\E t \in Tasks : CallerResumes(t))
    <2>1. UNCHANGED <<handler, ghost, queue>> /\ (reader # "none" => reader' # "none")
      BY <1>1
      DEF StartCalled, ReadyFails, StartCancelled, PeerFails, CloserCancelled, CallerResumes, OpenerResumes,
          OpenerEnds, OpenerClosed, HandoffPublishes, DeferrerPublishes, HandoffEnds, DeferrerEnds, ReaderEnds,
          ReaderGone, WriterGone, CloserPublished
    <2>2. ReaderSide'
      BY <2>1 DEF ReaderSide
    <2>3. CASE \/ PeerFails \/ DeferrerPublishes \/ DeferrerEnds \/ ReaderEnds \/ ReaderGone
               \/ WriterGone \/ CloserPublished
               \/ (\E t \in Tasks : CloserCancelled(t))
               \/ (\E t \in Tasks : CallerResumes(t))
      <3>1. UNCHANGED <<opener, doomed, handoff>> /\ (reader' # "none" => reader # "none")
        BY <2>3
        DEF PeerFails, CloserCancelled, CallerResumes, DeferrerPublishes, DeferrerEnds, ReaderEnds, ReaderGone,
            WriterGone, CloserPublished
      <3> QED
        BY <2>1, <2>2, <3>1 DEF OpenedSide
    <2>4. CASE StartCalled \/ ReadyFails \/ OpenerClosed \/ HandoffPublishes \/ HandoffEnds
      <3>1. /\ UNCHANGED reader /\ (handoff' # "none" <=> handoff # "none")
            /\ \/ opener = "idle" /\ opener' = "ready"
               \/ opener = "ready" /\ opener' = "closing"
               \/ opener = "closing" /\ opener' = "done"
               \/ UNCHANGED <<opener, doomed>>
        BY <2>4 DEF StartCalled, ReadyFails, OpenerClosed, HandoffPublishes, HandoffEnds, PublishDeferred
      <3> QED
        BY <2>1, <2>2, <3>1 DEF OpenedSide
    <2>5. CASE StartCancelled \/ OpenerResumes
      BY <2>1, <2>2, <2>5 DEF StartCancelled, OpenerResumes, OpenedOver, OpenedSide
    <2>6. CASE OpenerEnds
      BY <2>1, <2>2, <2>6 DEF OpenerEnds, OpenedSide
    <2> QED
      BY <1>1, <2>2, <2>3, <2>4, <2>5, <2>6
  <1>2. CASE PeerSends
    BY <1>2, HistoryFields DEF PeerSends, OpenedSide, ReaderSide
  <1>3. CASE ReadsEOF
    BY <1>3 DEF ReadsEOF, OpenedSide, ReaderSide, ReaderExits
  <1>4. CASE OtherEmits
    <2>1. Derived("other")
      BY <1>4, QueueLonger, EventMember DEF OtherEmits
    <2> QED
      BY <1>4, <2>1, OpenedKept, HistoryFields DEF OtherEmits
  <1>5. CASE CallbackRaises
    BY <1>5, HistoryFields DEF CallbackRaises, OpenedSide, ReaderSide
  <1>6. CASE \E t \in Tasks : CloseRequested(t)
    BY <1>6, HistoryFields DEF CloseRequested, OpenedSide, ReaderSide
  <1>7. CASE WorkerTakes
    <2>1. /\ 1 \in DOMAIN queue /\ queue[1] = Head(queue)
          /\ \A n \in DOMAIN queue' : n + 1 \in DOMAIN queue /\ queue'[n] = queue[n + 1] /\ n + 1 > 1 /\ n \in Nat
          /\ Derived("none")
      BY <1>7, QueueShorter DEF WorkerTakes
    <2>2. /\ Head(queue) \in Events /\ handler'["worker"] = Head(queue) /\ ghost' = Begun(Head(queue))
          /\ \A u \in Workers \ {"worker"} : handler'[u] = handler[u]
      BY <1>7, HeadBegins
    <2>3. CASE Head(queue) # "opened"
      <3>1. ghost'.opened = ghost.opened
        BY <2>2, <2>3, HistoryFields
      <3>2. handler'["worker"] = "bytes" => reader # "none"
        BY <2>1, <2>2 DEF ReaderSide
      <3> QED
        BY <1>7, <2>1, <2>2, <2>3, <3>1, <3>2, OpenedKept DEF WorkerTakes
    <2>4. CASE Head(queue) = "opened"
      <3>1. opener = "opened" /\ ghost.opened = "no" /\ ghost'.opened = "begun" /\ reader = "none"
        BY <2>1, <2>2, <2>4, HistoryFields DEF OpenedSide
      <3>2. \A n \in DOMAIN queue' : queue'[n] \notin {"opened", "bytes"}
        BY <2>1, <2>4, <3>1 DEF OpenedSide, ReaderSide
      <3>3. \A t \in Workers : handler'[t] # "bytes"
        BY <2>2, <2>4, <3>1 DEF ReaderSide
      <3> QED
        BY <1>7, <3>1, <3>2, <3>3 DEF WorkerTakes, OpenedSide, ReaderSide
    <2> QED
      BY <2>3, <2>4
  <1>8. CASE ReadyReturns
    <2>1. /\ ghost.opened = "no" /\ reader = "none" /\ handoff = "none" /\ opener = "ready"
          /\ \A i \in DOMAIN queue : queue[i] \notin {"opened", "bytes"}
          /\ \A t \in Workers : handler[t] \notin {"opened", "bytes"}
      BY <1>8 DEF ReadyReturns, OpenedSide, ReaderSide
    <2>2. UNCHANGED <<reader, handoff, doomed>>
      BY <1>8 DEF ReadyReturns
    <2>3. CASE opener' \in {"done", "emit"} /\ UNCHANGED handlerVars
      BY <2>1, <2>2, <2>3 DEF OpenedSide, ReaderSide
    <2>4. CASE opener' = "opened" /\ EmitsInline("opener", "opened")
      <3>1. /\ UNCHANGED queue /\ handler'["opener"] = "opened" /\ ghost' = Begun("opened")
            /\ \A u \in Workers \ {"opener"} : handler'[u] = handler[u]
        BY <2>4, InlineEffect, TaskMember, EventMember
      <3>2. ghost'.opened = "begun"
        BY <3>1, HistoryFields, EventMember
      <3> QED
        BY <2>1, <2>2, <2>4, <3>1, <3>2 DEF OpenedSide, ReaderSide
    <2>5. CASE opener' = "opened" /\ EmitsToQueue("opened")
      BY <2>1, <2>2, <2>5, AppendsOpened DEF OpenedSide, ReaderSide
    <2> QED
      BY <1>8, <2>3, <2>4, <2>5 DEF ReadyReturns
  <1>9. CASE OpenerEmitsToQueue
    <2>1. /\ ghost.opened = "no" /\ reader = "none" /\ handoff = "none" /\ opener = "emit"
          /\ \A i \in DOMAIN queue : queue[i] \notin {"opened", "bytes"}
          /\ \A t \in Workers : handler[t] \notin {"opened", "bytes"}
      BY <1>9 DEF OpenerEmitsToQueue, OpenedSide, ReaderSide
    <2> QED
      BY <1>9, <2>1, AppendsOpened DEF OpenerEmitsToQueue, OpenedSide, ReaderSide
  <1>10. CASE ReaderEmitsBytes
    <2>1. reader # "none" /\ reader' # "none"
      BY <1>10 DEF ReaderEmitsBytes, AfterEmit
    <2>2. CASE EmitsInline("reader", "bytes")
      <3>1. /\ UNCHANGED queue /\ handler'["reader"] = "bytes" /\ ghost' = Begun("bytes")
            /\ \A u \in Workers \ {"reader"} : handler'[u] = handler[u]
        BY <2>2, InlineEffect, TaskMember, EventMember
      <3>2. ghost'.opened = ghost.opened /\ Derived("none")
        BY <3>1, HistoryFields, EventMember, QueueSame
      <3> QED
        BY <1>10, <2>1, <3>1, <3>2, OpenedKept DEF ReaderEmitsBytes
    <2>3. CASE EmitsToQueue("bytes")
      <3>1. Derived("bytes")
        BY <2>3, QueueLonger, EventMember DEF EmitsToQueue
      <3> QED
        BY <1>10, <2>1, <2>3, <3>1, OpenedKept DEF ReaderEmitsBytes, EmitsToQueue
    <2> QED
      BY <1>10, <2>2, <2>3 DEF ReaderEmitsBytes
  <1>11. CASE ReaderEmitsErrorInline
    <2>1. /\ UNCHANGED queue /\ handler'["reader"] = "error" /\ \A u \in Workers \ {"reader"} : handler'[u] = handler[u]
          /\ ghost' = Begun("error")
      BY <1>11, InlineEffect, TaskMember, EventMember DEF ReaderEmitsErrorInline
    <2>2. ghost'.opened = ghost.opened /\ Derived("none")
      BY <2>1, HistoryFields, EventMember, QueueSame
    <2> QED
      BY <1>11, <2>1, <2>2, OpenedKept DEF ReaderEmitsErrorInline
  <1>12. CASE ReaderEmitsErrorToQueue
    <2>1. Derived("error")
      BY <1>12, QueueLonger, EventMember DEF ReaderEmitsErrorToQueue, EmitsToQueue, ReaderExits
    <2> QED
      BY <1>12, <2>1, OpenedKept DEF ReaderEmitsErrorToQueue, EmitsToQueue, ReaderExits
  <1>13. CASE CloserTearsDown
    <2>1. Derived("none")
      BY <1>13, QueueFiltered, QueueSame DEF CloserTearsDown
    <2> QED
      BY <1>13, <2>1, OpenedKept, TearsDownReader DEF CloserTearsDown
  <1>14. CASE CallbackReturns
    <2>1. Derived("none")
      BY <1>14, QueueFiltered DEF CallbackReturns, Decide
    <2> QED
      BY <1>14, <2>1, OpenedKept, HistoryFields DEF CallbackReturns, Decide
  <1>15. CASE CloserRetries
    <2>1. Derived("none")
      BY <1>15, QueueFiltered DEF CloserRetries, Decide
    <2> QED
      BY <1>15, <2>1, OpenedKept DEF CloserRetries, Decide
  <1>16. CASE CloserEmitsInline
    <2>1. /\ UNCHANGED queue /\ handler'["closer"] = "error" /\ \A u \in Workers \ {"closer"} : handler'[u] = handler[u]
          /\ ghost' = Begun("error")
      BY <1>16, InlineEffect, TaskMember, EventMember DEF CloserEmitsInline
    <2>2. ghost'.opened = ghost.opened /\ Derived("none")
      BY <2>1, HistoryFields, EventMember, QueueSame
    <2> QED
      BY <1>16, <2>1, <2>2, OpenedKept DEF CloserEmitsInline
  <1>17. CASE CloserEmitsToQueue
    <2>1. Derived("error")
      BY <1>17, QueueReplaced, EventMember DEF CloserEmitsToQueue
    <2> QED
      BY <1>17, <2>1, OpenedKept DEF CloserEmitsToQueue
  <1>18. CASE PublisherEmitsInline
    <2>1. /\ UNCHANGED queue /\ handler'["publisher"] = "closed" /\ \A u \in Workers \ {"publisher"} : handler'[u] = handler[u]
          /\ ghost' = Begun("closed")
      BY <1>18, InlineEffect, TaskMember, EventMember DEF PublisherEmitsInline
    <2>2. ghost'.opened = ghost.opened /\ Derived("none")
      BY <2>1, HistoryFields, EventMember, QueueSame
    <2> QED
      BY <1>18, <2>1, <2>2, OpenedKept DEF PublisherEmitsInline
  <1>19. CASE PublisherEmitsToQueue
    <2>1. Derived("closed")
      BY <1>19, QueueLonger, EventMember DEF PublisherEmitsToQueue, PublisherEnds
    <2> QED
      BY <1>19, <2>1, OpenedKept, HistoryFields DEF PublisherEmitsToQueue, PublisherEnds
  <1>20. CASE WorkerReturns
    <2>1. /\ handler'["worker"] = "none" /\ \A u \in Workers \ {"worker"} : handler'[u] = handler[u]
          /\ ghost' = OpenedEnded("worker") /\ UNCHANGED <<queue, reader, handoff, doomed>>
      BY <1>20, ContextClosesType, TaskMember DEF WorkerReturns
    <2>2. CASE handler["worker"] # "opened"
      <3>1. opener' = opener
        BY <1>20, <2>2 DEF WorkerReturns
      <3> QED
        BY <2>1, <2>2, <3>1, OpenedKept, QueueSame, HistoryFields, TaskMember
    <2>3. CASE handler["worker"] = "opened"
      <3>1. opener = "opened" /\ opener' = "handled" /\ ghost.opened = "begun" /\ ghost'.opened = "ended"
        BY <1>20, <2>1, <2>3, HistoryFields, TaskMember DEF WorkerReturns, OpenedSide
      <3>2. \A t \in Workers : handler'[t] # "opened"
        BY <1>20, <2>1, <2>3 DEF HandlerSide, TaskMember, Workers, WorkerReturns
      <3> QED
        BY <2>1, <3>1, <3>2 DEF OpenedSide, ReaderSide
    <2> QED
      BY <2>2, <2>3
  <1>21. CASE \E r \in BOOLEAN : OpenerHandlerEnds(r)
    <2>1. /\ handler["opener"] = "opened" /\ handler'["opener"] = "none"
          /\ \A u \in Workers \ {"opener"} : handler'[u] = handler[u]
          /\ ghost' = OpenedEnded("opener") /\ UNCHANGED <<queue, reader>>
          /\ opener' = "handoff" /\ handoff' = "run"
      BY <1>21, ContextClosesType, TaskMember DEF OpenerHandlerEnds, CanReturn, OpenedOver, HandlerSide
    <2>2. opener = "opened" /\ ghost.opened = "begun" /\ ghost'.opened = "ended"
      BY <2>1, HistoryFields, TaskMember DEF OpenedSide
    <2>3. \A t \in Workers : handler'[t] # "opened"
      BY <2>1 DEF HandlerSide, Workers
    <2> QED
      BY <2>1, <2>2, <2>3 DEF OpenedSide, ReaderSide
  <1>22. CASE \E r \in BOOLEAN : ReaderHandlerEnds(r)
    <2>1. PICK r \in BOOLEAN : ReaderHandlerEnds(r)
      BY <1>22
    <2>2. /\ UNCHANGED <<opener, doomed, handoff, queue>> /\ handler'["reader"] \in {"none", "error"}
          /\ \A u \in Workers \ {"reader"} : handler'[u] = handler[u]
          /\ reader # "none" /\ reader' # "none"
      BY <2>1, ReaderHandlerEffect DEF HandlerSide
    <2>3. ghost'.opened = ghost.opened
      BY <2>1, ReaderHandlerEffect, HistoryFields, EventMember
    <2> QED
      BY <2>2, <2>3, OpenedKept, QueueSame
  <1>23. CASE CloserHandlerReturns
    <2>1. Derived("none")
      BY <1>23, QueueFiltered DEF CloserHandlerReturns, Decide
    <2> QED
      BY <1>23, <2>1, OpenedKept, HandlerGets, TaskMember DEF CloserHandlerReturns, Decide
  <1>24. CASE CloserHandlerRaises
    <2>1. Derived("none")
      BY <1>24, QueueSame DEF CloserHandlerRaises
    <2> QED
      BY <1>24, <2>1, OpenedKept, HandlerGets, TaskMember DEF CloserHandlerRaises
  <1>25. CASE \E r \in BOOLEAN : PublisherHandlerEnds(r)
    BY <1>25, OpenedKept, QueueSame, ContextClosesType, TaskMember, HistoryFields
    DEF PublisherHandlerEnds, PublisherEnds
  <1> QED
    BY <1>0, <1>1, <1>2, <1>3, <1>4, <1>5, <1>6, <1>7, <1>8, <1>9, <1>10, <1>11, <1>12, <1>13, <1>14, <1>15,
       <1>16, <1>17, <1>18, <1>19, <1>20, <1>21, <1>22, <1>23, <1>24, <1>25
    DEF Next, HandlerFails, HandlerReturns, OpenerStep, HandoffStep, ReaderStep, CloserStep, PublisherStep,
        DeferrerStep, Tasks


\* A call of close(), when no handler closes.
LEMMA OutsideCalls ==
  ASSUME TypeInv, OutsideSide, NEW t \in Tasks, NEW h \in Handlers, NEW o \in BOOLEAN, CloseCall(t, h, o),
         UNCHANGED <<setup, published>>, ~setup.closes /\ t \in Workers => h[t] = "none",
         opening' => opener' \in {"emit", "opened", "handled", "handoff"},
         t = "opener" \/ args.caller = "opener" => opener' \in {"closing", "done"} \/ setup.closes
  PROVE  OutsideSide'
  <1>1. /\ \A u \in Tasks \ {t} : call'[u] = call[u]
        /\ call'[t] \in {"task", "none", "returned"}
        /\ call'[t] = "returned" => t \in Closers /\ published
    BY CloseCallEffect
  <1>2. ~setup.closes => ~InHandler(t, h) /\ ~HandlerOrigin(t, h)
    BY DEF InHandler, HandlerOrigin, ConnEvents
  <1>3. \/ args' = args
        \/ /\ args'.caller = t /\ args'.inline = InHandler(t, h)
           /\ args'.origin = IF HandlerOrigin(t, h) THEN t ELSE "none"
    BY CloseCallEffect DEF closeVars
  <1>4. Closers \subseteq Tasks
    BY DEF Tasks
  <1> QED
    BY <1>1, <1>2, <1>3, <1>4 DEF OutsideSide

\* The decision of the close task: with nobody to blame it waits for the event.
LEMMA OutsideDecides ==
  ASSUME TypeInv, EventSide, OutsideSide, NEW h \in Handlers, Defer(h) \/ PublishNow(h), ~Fresh,
         UNCHANGED <<previous, published, setup, opener, opening>>
  PROVE  OutsideSide'
  <1>1. \/ UNCHANGED <<args, call>>
        \/ /\ args'.caller = "worker" /\ ~args'.inline /\ args'.origin = "none"
           /\ \A t \in Tasks : call'[t] = call[t] \/ call'[t] \in {"resume", "resume_cancelled"}
           /\ published \/ OriginInFlight \/ args.inline \/ Inherited
    BY DecideEffect
  <1>2. ~setup.closes => ~OriginInFlight /\ ~args.inline /\ ~Inherited
    BY DEF OutsideSide, OriginInFlight, Inherited
  <1>3. Closers \subseteq Tasks
    BY DEF Tasks
  <1> QED
    BY <1>1, <1>2, <1>3 DEF OutsideSide

\* Whoever has joined the close of others returns after the event.
LEMMA OutsideStep ==
  /\ TypeInv /\ CloseSide /\ EventSide /\ ToldSide /\ HandlerSide /\ OpenedSide /\ OutsideSide
  /\ [Next]_vars
  => OutsideSide'
  <1> SUFFICES ASSUME TypeInv, CloseSide, EventSide, ToldSide, HandlerSide, OpenedSide, OutsideSide, [Next]_vars
               PROVE  OutsideSide'
    OBVIOUS
  <1>t. /\ handler \in Handlers /\ ghost \in Ghost /\ args \in Args /\ opening \in BOOLEAN /\ published \in BOOLEAN
        /\ queue \in Seq(Events)
    BY Typed DEF HandlerTypes, CloseTypes, StartTypes, PublishTypes, QueueTypes
  <1>c. call \in [Tasks -> CallStates] /\ Closers \subseteq Tasks /\ Closers \cap Workers = {}
    BY Typed, TaskAssumption DEF CallTypes, Tasks
  <1> USE <1>t DEF startVars, closeVars, deferVars, publishVars, streamVars, handlerVars
  <1>0. CASE UNCHANGED vars
    BY <1>0 DEF vars, OutsideSide
  <1>1. CASE \/ StartCalled \/ StartCancelled \/ PeerSends \/ PeerFails \/ OtherEmits \/ CallbackRaises
             \/ WorkerTakes \/ OpenerEmitsToQueue \/ OpenerResumes \/ OpenerClosed \/ ReaderEmitsBytes
             \/ ReaderEmitsErrorInline \/ ReaderEnds \/ CloserTearsDown \/ ReaderGone \/ WriterGone
             \/ CloserEmitsInline \/ PublisherEmitsInline
    <2>1. UNCHANGED <<setup, args, call, published>>
      BY <1>1
      DEF StartCalled, StartCancelled, PeerSends, PeerFails, OtherEmits, CallbackRaises, WorkerTakes,
          OpenerEmitsToQueue, OpenerResumes, OpenerClosed, ReaderEmitsBytes, ReaderEmitsErrorInline, ReaderEnds,
          CloserTearsDown, ReaderGone, WriterGone, CloserEmitsInline, PublisherEmitsInline
    <2>2. \/ UNCHANGED <<opener, opening>>
          \/ opener = "idle" /\ opener' = "ready" /\ UNCHANGED opening
          \/ opener \in {"emit", "handled"} /\ opener' = "handoff"
          \/ opener = "emit" /\ opener' = "opened"
          \/ opener = "closing" /\ opener' = "done" /\ UNCHANGED opening
      BY <1>1
      DEF StartCalled, StartCancelled, PeerSends, PeerFails, OtherEmits, CallbackRaises, WorkerTakes,
          OpenerEmitsToQueue, OpenerResumes, OpenerClosed, ReaderEmitsBytes, ReaderEmitsErrorInline, ReaderEnds,
          CloserTearsDown, ReaderGone, WriterGone, CloserEmitsInline, PublisherEmitsInline, OpenedOver
    <2> QED
      BY <2>1, <2>2 DEF OutsideSide
  <1>2. CASE ReadyFails
    BY <1>2, OutsideCalls, TaskMember DEF ReadyFails, HandlerSide, OpenedSide, OutsideSide
  <1>3. CASE ReadsEOF
    BY <1>3, OutsideCalls, TaskMember DEF ReadsEOF, OutsideSide, ReaderExits, HandlerSide
  <1>4. CASE \E t \in Tasks : CloserCancelled(t)
    BY <1>4, <1>c DEF CloserCancelled, OutsideSide
  <1>5. CASE \E t \in Tasks : CloseRequested(t)
    <2>1. PICK t \in Tasks : CloseRequested(t)
      BY <1>5
    <2>2. ~setup.closes => t \in Closers /\ t \notin Workers /\ t # "opener"
      BY <1>c, <2>1, TaskMember DEF CloseRequested
    <2>3. CloseCall(t, handler, opening) /\ UNCHANGED <<setup, published, opening, opener>>
      BY <2>1 DEF CloseRequested
    <2> QED
      BY <2>2, <2>3, OutsideCalls DEF OutsideSide
  <1>6. CASE \E t \in Tasks : CallerResumes(t)
    BY <1>6, <1>c DEF CallerResumes, OutsideSide, Outcome
  <1>7. CASE ReadyReturns
    BY <1>7 DEF ReadyReturns, OutsideSide
  <1>8. CASE OpenerEnds
    <2>1. opener = "handoff" /\ handler["opener"] = "none" /\ ~opening' /\ UNCHANGED <<setup, published>>
          /\ opener' \in {"closing", "done"}
      BY <1>8, TaskMember DEF OpenerEnds, OpenedSide, HandlerSide
    <2>2. CASE CloseCall("opener", handler, FALSE)
      BY <2>1, <2>2, OutsideCalls, TaskMember
    <2>3. CASE UNCHANGED <<closeVars, call>>
      BY <2>1, <2>3 DEF OutsideSide
    <2> QED
      BY <1>8, <2>2, <2>3 DEF OpenerEnds
  <1>9. CASE HandoffPublishes
    <2>1. \A t \in Tasks : \/ call'[t] = call[t] \/ call'[t] = "none"
                           \/ t \in Closers /\ call'[t] = "returned" /\ published
      BY <1>9, SettleEffect DEF HandoffPublishes, PublishDeferred
    <2> QED
      BY <1>9, <1>c, <2>1 DEF HandoffPublishes, OutsideSide
  <1>10. CASE DeferrerPublishes
    <2>1. \A t \in Tasks : \/ call'[t] = call[t] \/ call'[t] = "none"
                           \/ t \in Closers /\ call'[t] = "returned" /\ published
      BY <1>10, SettleEffect DEF DeferrerPublishes, PublishDeferred
    <2> QED
      BY <1>10, <1>c, <2>1 DEF DeferrerPublishes, OutsideSide
  <1>11. CASE HandoffEnds
    <2>1. \A t \in Tasks : \/ call'[t] = call[t] \/ call'[t] = "none"
                           \/ t \in Closers /\ call'[t] \in {"returned", "raised"} /\ (call'[t] = "returned" => published)
      BY <1>11, SettleEffect DEF HandoffEnds, ToldSide
    <2> QED
      BY <1>11, <1>c, <2>1 DEF HandoffEnds, OutsideSide
  <1>12. CASE DeferrerEnds
    <2>1. \A t \in Tasks : \/ call'[t] = call[t] \/ call'[t] = "none"
                           \/ t \in Closers /\ call'[t] \in {"returned", "raised"} /\ (call'[t] = "returned" => published)
      BY <1>12, SettleEffect DEF DeferrerEnds, ToldSide
    <2> QED
      BY <1>12, <1>c, <2>1 DEF DeferrerEnds, OutsideSide
  <1>13. CASE ReaderEmitsErrorToQueue
    BY <1>13, OutsideCalls, TaskMember
    DEF ReaderEmitsErrorToQueue, OutsideSide, ReaderExits, HandlerSide, EmitsToQueue
  <1>14. CASE CallbackReturns
    <2>1. handler \in Handlers /\ (CanReturn("closer") => closer = "handling")
      BY DEF CanReturn, CloseSide
    <2>2. ~Fresh /\ UNCHANGED <<previous, published, setup, opener, opening>> /\ \E h \in Handlers : Defer(h) \/ PublishNow(h)
      BY <1>14, <2>1, HandlerGets, TaskMember
      DEF CallbackReturns, Decide, CanReturn, CloseSide, Fresh, ConnStates
    <2> QED
      BY <2>2, OutsideDecides
  <1>15. CASE CloserRetries
    <2>1. handler \in Handlers /\ (CanReturn("closer") => closer = "handling")
      BY DEF CanReturn, CloseSide
    <2>2. ~Fresh /\ UNCHANGED <<previous, published, setup, opener, opening>> /\ \E h \in Handlers : Defer(h) \/ PublishNow(h)
      BY <1>15, <2>1, HandlerGets, TaskMember DEF CloserRetries, Decide, CanReturn, CloseSide, Fresh, ConnStates
    <2> QED
      BY <2>2, OutsideDecides
  <1>16. CASE CloserEmitsToQueue
    <2>1. handler \in Handlers /\ (CanReturn("closer") => closer = "handling")
      BY DEF CanReturn, CloseSide
    <2>2. ~Fresh /\ UNCHANGED <<previous, published, setup, opener, opening>> /\ \E h \in Handlers : Defer(h) \/ PublishNow(h)
      BY <1>16, <2>1, HandlerGets, TaskMember
      DEF CloserEmitsToQueue, Decide, CanReturn, CloseSide, Fresh, ConnStates
    <2> QED
      BY <2>2, OutsideDecides
  <1>17. CASE CloserPublished
    BY <1>17, <1>c, CloserEndsEffect DEF CloserPublished, OutsideSide, ToldSide
  <1>18. CASE PublisherEmitsToQueue
    BY <1>18 DEF PublisherEmitsToQueue, OutsideSide, PublisherEnds
  <1>19. CASE WorkerReturns
    BY <1>19, ContextClosesType, TaskMember DEF WorkerReturns, OutsideSide, OpenedSide
  <1>20. CASE \E r \in BOOLEAN : OpenerHandlerEnds(r)
    BY <1>20, ContextClosesType, TaskMember
    DEF OpenerHandlerEnds, OutsideSide, OpenedSide, OpenedOver, HandlerSide, CanReturn
  <1>21. CASE \E r \in BOOLEAN : ReaderHandlerEnds(r)
    <2>1. PICK r \in BOOLEAN : ReaderHandlerEnds(r)
      BY <1>21
    <2>2. handler' \in Handlers /\ UNCHANGED <<setup, published, opening, opener>>
      BY <2>1, ReaderHandlerEffect
    <2>3. CASE /\ UNCHANGED call
               /\ args'.caller = args.caller /\ args'.inline = args.inline /\ args'.origin \in {args.origin, "none"}
      BY <2>2, <2>3 DEF OutsideSide
    <2>4. CASE handler'["reader"] = "none" /\ CloseCall("reader", handler', opening)
      BY <2>2, <2>4, OutsideCalls, TaskMember DEF OutsideSide
    <2> QED
      BY <2>1, <2>3, <2>4, ReaderHandlerEffect
  <1>22. CASE CloserHandlerReturns
    <2>1. handler \in Handlers /\ (CanReturn("closer") => closer = "handling")
      BY DEF CanReturn, CloseSide
    <2>2. ~Fresh /\ UNCHANGED <<previous, published, setup, opener, opening>> /\ \E h \in Handlers : Defer(h) \/ PublishNow(h)
      BY <1>22, <2>1, HandlerGets, TaskMember
      DEF CloserHandlerReturns, Decide, CanReturn, CloseSide, Fresh, ConnStates
    <2> QED
      BY <2>2, OutsideDecides
  <1>23. CASE CloserHandlerRaises
    BY <1>23, <1>c, CloserEndsEffect DEF CloserHandlerRaises, OutsideSide
  <1>24. CASE \E r \in BOOLEAN : PublisherHandlerEnds(r)
    BY <1>24, ContextClosesType, TaskMember DEF PublisherHandlerEnds, OutsideSide, PublisherEnds
  <1> QED
    BY <1>0, <1>1, <1>2, <1>3, <1>4, <1>5, <1>6, <1>7, <1>8, <1>9, <1>10, <1>11, <1>12, <1>13, <1>14, <1>15,
       <1>16, <1>17, <1>18, <1>19, <1>20, <1>21, <1>22, <1>23, <1>24
    DEF Next, HandlerFails, HandlerReturns, OpenerStep, HandoffStep, ReaderStep, CloserStep, PublisherStep,
        DeferrerStep, Tasks


\* What is inductive together: the close, who delivers, and who has been told.
LEMMA CoreInit ==
  Init => /\ CloseSide /\ EventSide /\ ToldSide /\ HandlerSide /\ OpenedSide /\ ReaderSide /\ OutsideSide
  <1> SUFFICES ASSUME Init
               PROVE  /\ CloseSide /\ EventSide /\ ToldSide /\ HandlerSide /\ OpenedSide /\ ReaderSide
                      /\ OutsideSide
    OBVIOUS
  <1>1. /\ handler \in Handlers /\ queue = <<>> /\ DOMAIN queue = {} /\ \A t \in Workers : handler[t] = "none"
        /\ \A t \in Tasks : call[t] = "none"
    BY TypeInit, Typed DEF Init, HandlerTypes
  <1>2. Closers \subseteq Tasks /\ NoArgs.inline = FALSE /\ NoArgs.origin = "none" /\ NoArgs.caller = "worker"
    BY DEF Tasks, NoArgs
  <1> QED
    BY <1>1, <1>2, TaskMember
    DEF Init, CloseSide, EventSide, ToldSide, HandlerSide, OpenedSide, ReaderSide, OutsideSide, Fresh, Before

\* A close() that an outside task called returns after ConnectionClosedEvent is
\* out, when no handler closes: whatever is deferred, retried, cancelled or raised
\* in between, its close task awaits the publication or its future.
THEOREM ExternalCloseSeesClosed == Spec => []ExternalCloseObservesClosed
  <1>1. OutsideSide => ExternalCloseObservesClosed
    BY DEF OutsideSide, ExternalCloseObservesClosed
  <1> QED
    BY <1>1, TypeInit, CoreInit, TypeStep, CloseStep, ToldStep, HandlerStep, OpenedStep, OutsideStep, PTL
    DEF Spec

-----------------------------------------------------------------------------
(***************************************************************************)
(* No read loop after the teardown.                                         *)
(***************************************************************************)
\* A step that tears nothing down, and creates no close task.
LEMMA StreamKept ==
  ASSUME StreamSide, UNCHANGED setup, args'.caller \in {args.caller, "worker"},
         closer' = "none" => closer = "none" \/ args'.caller = "worker",
         Emits' => Emits, TornDown' => TornDown
  PROVE  StreamSide'
  BY DEF StreamSide, Orderly

\* A call of close().
LEMMA StreamCalls ==
  ASSUME TypeInv, StreamSide, NEW t \in Tasks, NEW h \in Handlers, NEW o \in BOOLEAN, CloseCall(t, h, o),
         UNCHANGED setup, Emits' => Emits, t = "reader" => ~Emits'
  PROVE  StreamSide'
  <1>s. state \in ConnStates
    BY Typed DEF CloseTypes
  <1>1. CASE UNCHANGED closeVars
    BY <1>1, StreamKept DEF closeVars, TornDown, Fresh
  <1>2. CASE ~UNCHANGED closeVars
    <2>1. /\ closer = "none" /\ closer' = "start" /\ args'.caller = t
          /\ args'.teardown = (state \notin {"CLOSING", "CLOSED"})
          /\ state' \in {"CLOSING", "CLOSED"}
      BY <1>2, CloseCallEffect
    <2>2. TornDown' => TornDown
      BY <1>s, <2>1 DEF TornDown, Fresh, ConnStates
    <2> QED
      BY <2>1, <2>2 DEF StreamSide, Orderly
  <1> QED
    BY <1>1, <1>2

\* The decision of the close task comes after the teardown.
LEMMA StreamDecides ==
  ASSUME TypeInv, EventSide, StreamSide, NEW h \in Handlers, Defer(h) \/ PublishNow(h), TornDown,
         UNCHANGED <<previous, published, setup, reader>>
  PROVE  StreamSide'
  <1>1. ~Fresh
    BY DEF TornDown
  <1>2. (closer' # "none" /\ UNCHANGED args) \/ args'.caller = "worker"
    BY <1>1, DecideEffect
  <1> QED
    BY <1>2, StreamKept DEF Emits

\* The teardown ends the read loop, or finds it inside its own handler, which ends it.
LEMMA StreamStep ==
  /\ TypeInv /\ CloseSide /\ EventSide /\ HandlerSide /\ OpenedSide /\ OutsideSide /\ StreamSide
  /\ [Next]_vars
  => StreamSide'
  <1> SUFFICES ASSUME TypeInv, CloseSide, EventSide, HandlerSide, OpenedSide, OutsideSide, StreamSide,
                          [Next]_vars
               PROVE  StreamSide'
    OBVIOUS
  <1>t. /\ handler \in Handlers /\ ghost \in Ghost /\ args \in Args /\ opening \in BOOLEAN /\ published \in BOOLEAN
        /\ queue \in Seq(Events)
    BY Typed DEF HandlerTypes, CloseTypes, StartTypes, PublishTypes, QueueTypes
  <1>s. state \in ConnStates
    BY Typed DEF CloseTypes
  <1> USE <1>t, <1>s DEF startVars, closeVars, deferVars, publishVars, streamVars, handlerVars
  <1>0. CASE UNCHANGED vars
    BY <1>0, StreamKept DEF vars, TornDown, Fresh, Emits
  <1>1. CASE \/ PeerSends \/ PeerFails \/ OtherEmits \/ CallbackRaises \/ WorkerTakes
             \/ OpenerEmitsToQueue \/ OpenerResumes \/ OpenerClosed \/ ReaderEmitsErrorInline
             \/ ReaderEnds \/ ReaderGone \/ WriterGone \/ CloserEmitsInline \/ PublisherEmitsInline
             \/ (\E t \in Tasks : CloserCancelled(t))
             \/ (\E t \in Tasks : CallerResumes(t))
    BY <1>1, StreamKept
    DEF PeerSends, PeerFails, OtherEmits, CallbackRaises, CloserCancelled, CallerResumes, WorkerTakes,
        OpenerEmitsToQueue, OpenerResumes, OpenerClosed, ReaderEmitsErrorInline, ReaderEnds, ReaderGone,
        WriterGone, CloserEmitsInline, PublisherEmitsInline, TornDown, Fresh, Emits
  <1>2. CASE StartCalled
    BY <1>2 DEF StartCalled, TornDown, Fresh, Emits, StreamSide, CloseSide
  <1>3. CASE ReadyFails
    BY <1>3, StreamCalls, TaskMember DEF ReadyFails, TornDown, Fresh, Emits
  <1>4. CASE StartCancelled
    BY <1>4, StreamKept DEF StartCancelled, TornDown, Fresh, Emits, OpenedOver
  <1>5. CASE ReadsEOF
    BY <1>5, StreamCalls, StreamKept, TaskMember DEF ReadsEOF, TornDown, Fresh, Emits, ReaderExits
  <1>6. CASE \E t \in Tasks : CloseRequested(t)
    <2>1. PICK t \in Tasks : CloseRequested(t)
      BY <1>6
    <2>2. t = "reader" => ~Emits
      BY <2>1, TaskAssumption, TaskMember DEF CloseRequested, InHandler, HandlerSide, Emits
    <2> QED
      BY <2>1, <2>2, StreamCalls DEF CloseRequested, Emits
  <1>7. CASE ReadyReturns
    BY <1>7, StreamKept DEF ReadyReturns, TornDown, Fresh, Emits
  <1>8. CASE OpenerEnds
    <2>1. reader = "none" /\ UNCHANGED setup
      BY <1>8 DEF OpenerEnds, OpenedSide
    <2>2. CASE CloseCall("opener", handler, FALSE) /\ UNCHANGED reader
      BY <2>1, <2>2, StreamCalls, TaskMember DEF Emits
    <2>3. CASE UNCHANGED closeVars /\ (reader' = reader \/ state = "CONNECTED")
      BY <2>1, <2>3 DEF CloseSide, StreamSide, Fresh, TornDown, Emits, Orderly
    <2> QED
      BY <1>8, <2>2, <2>3 DEF OpenerEnds
  <1>9. CASE HandoffPublishes
    BY <1>9, StreamKept, SettleEffect
    DEF HandoffPublishes, TornDown, Fresh, Emits, PublishDeferred, Finalize, BeginPublication, CloseSide
  <1>10. CASE DeferrerPublishes
    BY <1>10, StreamKept, SettleEffect
    DEF DeferrerPublishes, TornDown, Fresh, Emits, PublishDeferred, Finalize, BeginPublication, CloseSide
  <1>11. CASE HandoffEnds
    BY <1>11, StreamKept, SettleEffect DEF HandoffEnds, TornDown, Fresh, Emits
  <1>12. CASE DeferrerEnds
    BY <1>12, StreamKept, SettleEffect DEF DeferrerEnds, TornDown, Fresh, Emits
  <1>13. CASE ReaderEmitsBytes
    BY <1>13, StreamKept DEF ReaderEmitsBytes, TornDown, Fresh, Emits
  <1>14. CASE ReaderEmitsErrorToQueue
    BY <1>14, StreamCalls, StreamKept, TaskMember
    DEF ReaderEmitsErrorToQueue, TornDown, Fresh, Emits, ReaderExits
  <1>15. CASE CloserTearsDown
    <2>1. /\ state = "CLOSING" /\ closer' # "none" /\ UNCHANGED <<setup, state, args>>
          /\ reader' \in {reader, "cancelled"} /\ closer = "start"
      BY <1>15 DEF CloserTearsDown, CloseSide, Before
    <2>2. Orderly => ~Emits'
      <3> SUFFICES ASSUME Orderly, Emits' PROVE FALSE
        OBVIOUS
      <3>1. reader \in {"reading", "bytes", "error"} /\ reader' = reader /\ ~CancelsReader
        BY <1>15, <2>1 DEF Emits, CloserTearsDown
      <3>2. args.caller # "reader"
        BY <3>1 DEF StreamSide, Emits
      <3>3. ActiveHandler(handler) /\ DeliversInline(args.inline)
        BY <3>1, <3>2 DEF CancelsReader, DeliversToActiveHandler
      <3>4. setup.mode = "INLINE"
        BY <3>3 DEF Orderly, OutsideSide, DeliversInline
      <3>5. PICK u \in Workers : handler[u] # "none"
        BY <3>3 DEF ActiveHandler, ConnEvents
      <3>6. u # "worker" /\ u # "reader" /\ u # "opener"
        BY <3>1, <3>4, <3>5, TaskMember DEF HandlerSide, OpenedSide
      <3>7. u # "closer" /\ u # "publisher"
        BY <2>1, <3>5 DEF CloseSide, EventSide
      <3> QED
        BY <3>6, <3>7 DEF Workers
    <2> QED
      BY <2>1, <2>2 DEF StreamSide, Orderly, Emits
  <1>16. CASE CallbackReturns
    <2>1. CanReturn("closer") => closer = "handling"
      BY DEF CanReturn, CloseSide
    <2>2. TornDown /\ UNCHANGED <<previous, published, setup, reader>> /\ \E h \in Handlers : Defer(h) \/ PublishNow(h)
      BY <1>16, <2>1, HandlerGets, TaskMember
      DEF CallbackReturns, Decide, TornDown, CloseSide, Fresh, ConnStates
    <2> QED
      BY <2>2, StreamDecides
  <1>17. CASE CloserRetries
    <2>1. CanReturn("closer") => closer = "handling"
      BY DEF CanReturn, CloseSide
    <2>2. TornDown /\ UNCHANGED <<previous, published, setup, reader>> /\ \E h \in Handlers : Defer(h) \/ PublishNow(h)
      BY <1>17, <2>1, HandlerGets, TaskMember DEF CloserRetries, Decide, TornDown, CloseSide, Fresh, ConnStates
    <2> QED
      BY <2>2, StreamDecides
  <1>18. CASE CloserEmitsToQueue
    <2>1. CanReturn("closer") => closer = "handling"
      BY DEF CanReturn, CloseSide
    <2>2. TornDown /\ UNCHANGED <<previous, published, setup, reader>> /\ \E h \in Handlers : Defer(h) \/ PublishNow(h)
      BY <1>18, <2>1, HandlerGets, TaskMember
      DEF CloserEmitsToQueue, Decide, TornDown, CloseSide, Fresh, ConnStates
    <2> QED
      BY <2>2, StreamDecides
  <1>19. CASE CloserPublished
    BY <1>19, StreamKept, CloserEndsEffect DEF CloserPublished, TornDown, Fresh, Emits
  <1>20. CASE PublisherEmitsToQueue
    BY <1>20, StreamKept DEF PublisherEmitsToQueue, TornDown, Fresh, Emits, PublisherEnds
  <1>21. CASE WorkerReturns
    BY <1>21, StreamKept, ContextClosesType, TaskMember DEF WorkerReturns, TornDown, Fresh, Emits
  <1>22. CASE \E r \in BOOLEAN : OpenerHandlerEnds(r)
    BY <1>22, StreamKept, ContextClosesType, TaskMember DEF OpenerHandlerEnds, TornDown, Fresh, Emits
  <1>23. CASE \E r \in BOOLEAN : ReaderHandlerEnds(r)
    <2>1. PICK r \in BOOLEAN : ReaderHandlerEnds(r)
      BY <1>23
    <2>2. handler' \in Handlers /\ UNCHANGED setup /\ ~Emits
      BY <2>1, ReaderHandlerEffect DEF HandlerSide, Emits
    <2>3. CASE UNCHANGED <<state, closer>> /\ args'.caller = args.caller /\ args'.teardown = args.teardown
               /\ (~Emits' \/ state = "CONNECTED")
      BY <2>2, <2>3 DEF CloseSide, StreamSide, Fresh, TornDown, Orderly
    <2>4. CASE CloseCall("reader", handler', opening) /\ ~Emits'
      BY <2>2, <2>4, StreamCalls, TaskMember
    <2> QED
      BY <2>1, <2>2, <2>3, <2>4, ReaderHandlerEffect DEF Emits
  <1>24. CASE CloserHandlerReturns
    <2>1. CanReturn("closer") => closer = "handling"
      BY DEF CanReturn, CloseSide
    <2>2. TornDown /\ UNCHANGED <<previous, published, setup, reader>> /\ \E h \in Handlers : Defer(h) \/ PublishNow(h)
      BY <1>24, <2>1, HandlerGets, TaskMember
      DEF CloserHandlerReturns, Decide, TornDown, CloseSide, Fresh, ConnStates
    <2> QED
      BY <2>2, StreamDecides
  <1>25. CASE CloserHandlerRaises
    BY <1>25, StreamKept, CloserEndsEffect
    DEF CloserHandlerRaises, TornDown, Fresh, Emits, CanReturn, CloseSide
  <1>26. CASE \E r \in BOOLEAN : PublisherHandlerEnds(r)
    BY <1>26, StreamKept, ContextClosesType, TaskMember
    DEF PublisherHandlerEnds, TornDown, Fresh, Emits, PublisherEnds
  <1> QED
    BY <1>0, <1>1, <1>2, <1>3, <1>4, <1>5, <1>6, <1>7, <1>8, <1>9, <1>10, <1>11, <1>12, <1>13, <1>14, <1>15,
       <1>16, <1>17, <1>18, <1>19, <1>20, <1>21, <1>22, <1>23, <1>24, <1>25, <1>26
    DEF Next, HandlerFails, HandlerReturns, OpenerStep, HandoffStep, ReaderStep, CloserStep, PublisherStep,
        DeferrerStep, Tasks


-----------------------------------------------------------------------------
(***************************************************************************)
(* Inline, the closed event is delivered alone.                             *)
(***************************************************************************)
Inliners == {"opener", "reader", "closer"}

LEMMA InlineMoved ==
  ASSUME queue \in Seq(Events), queue' \in Seq(Events), InlineSide, UNCHANGED setup,
         NEW e, Derived(e), e = "closed" => state' = "CLOSED",
         state = "CLOSED" => state' = "CLOSED",
         closer' \in {"error", "handling"} => state' = "CLOSING" /\ setup.callbacks,
         ghost'.closed => ghost.closed \/ state' = "CLOSED",
         setup.mode = "INLINE" /\ (publisher' # "none" \/ ghost'.closed) =>
           \A t \in Inliners : handler'[t] = "none"
  PROVE  InlineSide'
  <1>1. \A i \in DOMAIN queue' : queue'[i] = "closed" => state' = "CLOSED"
    <2>1. PICK f \in [DOMAIN queue' -> DOMAIN queue \cup {Len(queue) + 1}] :
            \A n \in DOMAIN queue' : queue'[n] = IF f[n] \in DOMAIN queue THEN queue[f[n]] ELSE e
      BY DEF Derived
    <2> QED
      BY <2>1 DEF InlineSide
  <1> QED
    BY <1>1 DEF InlineSide, Inliners

\* A step that begins no publication and no handler on the tasks that deliver inline.
LEMMA InlineKept ==
  ASSUME queue \in Seq(Events), queue' \in Seq(Events), InlineSide, UNCHANGED setup,
         NEW e, Derived(e), e # "closed",
         state = "CLOSED" => state' = "CLOSED",
         closer' \in {"error", "handling"} =>
           closer \in {"error", "handling"} /\ (state = "CLOSING" => state' = "CLOSING"),
         ghost'.closed = ghost.closed, publisher' # "none" => publisher # "none",
         \A t \in Inliners : handler'[t] \in {handler[t], "none"}
  PROVE  InlineSide'
  <1>1. closer' \in {"error", "handling"} => state' = "CLOSING" /\ setup.callbacks
    BY DEF InlineSide
  <1>2. setup.mode = "INLINE" /\ (publisher' # "none" \/ ghost'.closed) => \A t \in Inliners : handler'[t] = "none"
    BY DEF InlineSide, Inliners
  <1> QED
    BY <1>1, <1>2, InlineMoved

\* A call of close() leaves the error event of the close task alone.
LEMMA CallMoves ==
  ASSUME TypeInv, NEW t \in Tasks, NEW h \in Handlers, NEW o \in BOOLEAN, CloseCall(t, h, o)
  PROVE  /\ state = "CLOSED" => state' = "CLOSED"
         /\ closer' \in {"error", "handling"} =>
              closer \in {"error", "handling"} /\ (state = "CLOSING" => state' = "CLOSING")
  BY CloseCallEffect DEF closeVars

\* The decision begins a publication only when no handler runs, inline.
LEMMA InlineDecides ==
  ASSUME TypeInv, EventSide, InlineSide, HandlerSide', handler' \in Handlers, queue' \in Seq(Events),
         queue \in Seq(Events), Defer(handler') \/ PublishNow(handler'), ~Fresh,
         UNCHANGED <<previous, published, setup>>,
         ghost'.closed = ghost.closed, NEW e, Derived(e), e # "closed",
         \A t \in Inliners : handler'[t] \in {handler[t], "none"}
  PROVE  InlineSide'
  <1>1. /\ state' = "CLOSED" /\ closer' \notin {"error", "handling"}
        /\ publisher' = publisher \/ (publisher = "none" /\ publisher' = "emit")
    BY DecideEffect
  <1>2. CASE publisher' = publisher
    BY <1>1, <1>2, InlineKept
  <1>3. CASE publisher = "none" /\ publisher' = "emit"
    <2>1. PublishNow(handler')
      BY <1>3 DEF Defer
    <2>2. setup.mode = "INLINE" => \A t \in Inliners : handler'[t] \notin ConnEvents
      BY <2>1
      DEF PublishNow, MustDefer, DeliversToActiveHandler, DeliversInline, ActiveHandler, Inliners, Workers
    <2>3. setup.mode = "INLINE" => \A t \in Inliners : handler'[t] = "none"
      BY <2>2 DEF HandlerSide, Inliners, ConnEvents
    <2> QED
      BY <1>1, <2>3, InlineMoved
  <1> QED
    BY <1>1, <1>2, <1>3

\* A publication waits for the handlers, and what would emit next to it has ended.
LEMMA InlineStep ==
  /\ TypeInv /\ CloseSide /\ EventSide /\ HandlerSide /\ OpenedSide /\ StreamSide /\ InlineSide
  /\ [Next]_vars
  => InlineSide'
  <1> SUFFICES ASSUME TypeInv, CloseSide, EventSide, HandlerSide, OpenedSide, StreamSide, InlineSide,
                          [Next]_vars
               PROVE  InlineSide'
    OBVIOUS
  <1>t. /\ handler \in Handlers /\ ghost \in Ghost /\ args \in Args /\ opening \in BOOLEAN /\ published \in BOOLEAN
        /\ queue \in Seq(Events)
    BY Typed DEF HandlerTypes, CloseTypes, StartTypes, PublishTypes, QueueTypes
  <1>n. queue' \in Seq(Events) /\ handler' \in Handlers /\ HandlerSide'
    BY TypeStep, TypedPrimed, HandlerStep DEF QueueTypes, HandlerTypes
  <1> USE <1>t, <1>n
  <1>u. UNCHANGED queue => Derived("none")
    BY QueueSame
  <1>c. state = "CLOSED" => TornDown /\ ~(setup.mode = "INLINE" /\ Emits)
    BY DEF TornDown, Fresh, CloseSide, Before, StreamSide, Orderly
  <1>d. publisher # "none" \/ ghost.closed => state = "CLOSED"
    BY DEF EventSide, InlineSide
  <1> USE DEF startVars, closeVars, deferVars, publishVars, streamVars, handlerVars
  <1>0. CASE UNCHANGED vars
    BY <1>0, <1>u, InlineKept DEF vars
  <1>1. CASE \/ StartCalled \/ StartCancelled \/ PeerFails \/ OpenerResumes \/ OpenerClosed \/ ReaderEnds
             \/ ReaderGone \/ WriterGone
             \/ (\E t \in Tasks : CloserCancelled(t))
             \/ (\E t \in Tasks : CallerResumes(t))
    BY <1>1, <1>u, InlineKept
    DEF StartCalled, StartCancelled, PeerFails, CloserCancelled, CallerResumes, OpenerResumes, OpenerClosed,
        ReaderEnds, ReaderGone, WriterGone
  <1>2. CASE ReadyFails
    BY <1>2, <1>u, InlineKept, CallMoves, TaskMember DEF ReadyFails
  <1>3. CASE PeerSends
    BY <1>3, <1>u, InlineKept, HistoryFields DEF PeerSends
  <1>4. CASE ReadsEOF
    BY <1>4, <1>u, InlineKept, CallMoves, TaskMember DEF ReadsEOF, ReaderExits
  <1>5. CASE OtherEmits
    <2>1. Derived("other") /\ ghost'.closed = ghost.closed
      BY <1>5, QueueLonger, HistoryFields, EventMember DEF OtherEmits
    <2> QED
      BY <1>5, <2>1, InlineKept DEF OtherEmits
  <1>6. CASE CallbackRaises
    <2>1. Derived("none") /\ ghost'.closed = ghost.closed
      BY <1>6, <1>u, HistoryFields DEF CallbackRaises
    <2>2. state = "CLOSING" /\ UNCHANGED state
      BY <1>6 DEF CallbackRaises, CloseSide, Before
    <2>3. publisher = "none" /\ ~ghost.closed
      BY <1>d, <2>2
    <2> QED
      BY <1>6, <2>1, <2>2, <2>3, InlineMoved DEF CallbackRaises
  <1>7. CASE \E t \in Tasks : CloseRequested(t)
    BY <1>7, <1>u, InlineKept, CallMoves, HistoryFields DEF CloseRequested
  <1>8. CASE WorkerTakes
    <2>1. Derived("none") /\ 1 \in DOMAIN queue /\ queue[1] = Head(queue)
      BY <1>8, QueueShorter DEF WorkerTakes
    <2>2. Head(queue) \in Events /\ ghost' = Begun(Head(queue)) /\ UNCHANGED <<setup, state, closer, publisher>>
      BY <1>8, HeadBegins DEF WorkerTakes
    <2>3. ghost'.closed => ghost.closed \/ state' = "CLOSED"
      BY <2>1, <2>2, HistoryFields DEF InlineSide
    <2>4. setup.mode # "INLINE"
      BY <1>8 DEF WorkerTakes, HandlerSide
    <2> QED
      BY <2>1, <2>2, <2>3, <2>4, InlineMoved DEF InlineSide
  <1>9. CASE ReadyReturns
    <2>1. UNCHANGED <<setup, state, closer, publisher>>
      BY <1>9 DEF ReadyReturns
    <2>2. CASE UNCHANGED handlerVars
      BY <1>u, <2>1, <2>2, InlineKept
    <2>3. CASE EmitsToQueue("opened")
      <3>1. Derived("opened") /\ UNCHANGED <<handler, ghost>>
        BY <2>3, QueueLonger, EventMember DEF EmitsToQueue
      <3> QED
        BY <2>1, <3>1, InlineKept
    <2>4. CASE EmitsInline("opener", "opened") /\ state = "CONNECTED"
      <3>1. UNCHANGED queue /\ ghost' = Begun("opened")
        BY <2>4, InlineEffect, TaskMember, EventMember
      <3>2. publisher = "none" /\ ~ghost.closed /\ ~ghost'.closed
        BY <1>d, <2>4, <3>1, HistoryFields, EventMember
      <3>3. Derived("none")
        BY <1>u, <3>1
      <3> QED
        BY <2>1, <3>2, <3>3, InlineMoved DEF InlineSide
    <2> QED
      BY <1>9, <2>2, <2>3, <2>4 DEF ReadyReturns
  <1>10. CASE OpenerEmitsToQueue
    <2>1. Derived("opened") /\ UNCHANGED <<setup, state, closer, publisher, handler, ghost>>
      BY <1>10, QueueLonger, EventMember DEF OpenerEmitsToQueue, EmitsToQueue
    <2> QED
      BY <2>1, InlineKept
  <1>11. CASE OpenerEnds
    BY <1>11, <1>u, InlineKept, CallMoves, TaskMember DEF OpenerEnds
  <1>12. CASE HandoffPublishes
    <2>1. Derived("none") /\ UNCHANGED <<setup, handler, ghost>>
      BY <1>12, <1>u DEF HandoffPublishes
    <2>2. CASE UNCHANGED publisher
      BY <1>12, <2>1, <2>2, InlineKept, SettleEffect
      DEF HandoffPublishes, PublishDeferred, Finalize, BeginPublication
    <2>3. CASE ~UNCHANGED publisher
      <3>1. state = "CLOSED" /\ state' = "CLOSED" /\ UNCHANGED closer /\ handoff = "run"
        BY <1>12, <2>3 DEF HandoffPublishes, PublishDeferred, Finalize, BeginPublication, CloseSide
      <3>2. closer \notin {"error", "handling"} /\ handler["closer"] = "none"
        BY <3>1 DEF InlineSide, CloseSide
      <3>3. handler["opener"] = "none" /\ handler["reader"] = "none"
        BY <3>1, TaskMember DEF OpenedSide, HandlerSide
      <3> QED
        BY <2>1, <3>1, <3>2, <3>3, InlineMoved DEF Inliners
    <2> QED
      BY <2>2, <2>3
  <1>13. CASE DeferrerPublishes
    <2>1. Derived("none") /\ UNCHANGED <<setup, handler, ghost>>
      BY <1>13, <1>u DEF DeferrerPublishes
    <2>2. CASE UNCHANGED publisher
      BY <1>13, <2>1, <2>2, InlineKept, SettleEffect
      DEF DeferrerPublishes, PublishDeferred, Finalize, BeginPublication
    <2>3. CASE ~UNCHANGED publisher
      <3>1. state = "CLOSED" /\ state' = "CLOSED" /\ UNCHANGED closer
        BY <1>13, <2>3 DEF DeferrerPublishes, PublishDeferred, Finalize, BeginPublication, CloseSide
      <3>2. closer \notin {"error", "handling"}
        BY <3>1 DEF InlineSide
      <3>3. \A t \in Inliners : handler[t] = "none"
        BY <1>13, TaskMember DEF DeferrerPublishes, ActiveHandler, HandlerSide, Inliners, ConnEvents
      <3> QED
        BY <2>1, <3>1, <3>2, <3>3, InlineMoved
    <2> QED
      BY <2>2, <2>3
  <1>14. CASE HandoffEnds
    BY <1>14, <1>u, InlineKept, SettleEffect DEF HandoffEnds
  <1>15. CASE DeferrerEnds
    BY <1>15, <1>u, InlineKept, SettleEffect DEF DeferrerEnds
  <1>16. CASE ReaderEmitsBytes
    <2>1. UNCHANGED <<setup, state, closer, publisher>> /\ Emits
      BY <1>16 DEF ReaderEmitsBytes, Emits
    <2>2. CASE EmitsToQueue("bytes")
      <3>1. Derived("bytes") /\ UNCHANGED <<handler, ghost>>
        BY <2>2, QueueLonger, EventMember DEF EmitsToQueue
      <3> QED
        BY <2>1, <3>1, InlineKept
    <2>3. CASE EmitsInline("reader", "bytes") /\ DeliversInline(FALSE)
      <3>1. UNCHANGED queue /\ ghost' = Begun("bytes")
        BY <2>3, InlineEffect, TaskMember, EventMember
      <3>2. publisher = "none" /\ ~ghost.closed /\ ~ghost'.closed
        BY <1>c, <1>d, <2>1, <2>3, <3>1, HistoryFields, EventMember DEF DeliversInline
      <3>3. Derived("none")
        BY <1>u, <3>1
      <3> QED
        BY <2>1, <3>2, <3>3, InlineMoved DEF InlineSide
    <2> QED
      BY <1>16, <2>2, <2>3 DEF ReaderEmitsBytes
  <1>17. CASE ReaderEmitsErrorInline
    <2>1. UNCHANGED <<setup, state, closer, publisher>> /\ Emits /\ setup.mode = "INLINE"
      BY <1>17 DEF ReaderEmitsErrorInline, Emits, DeliversInline
    <2>2. UNCHANGED queue /\ ghost' = Begun("error")
      BY <1>17, InlineEffect, TaskMember, EventMember DEF ReaderEmitsErrorInline
    <2>3. publisher = "none" /\ ~ghost.closed /\ ~ghost'.closed
      BY <1>c, <1>d, <2>1, <2>2, HistoryFields, EventMember
    <2>4. Derived("none")
      BY <1>u, <2>2
    <2> QED
      BY <2>1, <2>3, <2>4, InlineMoved DEF InlineSide
  <1>18. CASE ReaderEmitsErrorToQueue
    <2>1. Derived("error") /\ UNCHANGED <<setup, handler, ghost, publisher>>
      BY <1>18, QueueLonger, EventMember DEF ReaderEmitsErrorToQueue, EmitsToQueue
    <2>2. UNCHANGED closeVars \/ CloseCall("reader", handler, opening)
      BY <1>18 DEF ReaderEmitsErrorToQueue, ReaderExits
    <2> QED
      BY <2>1, <2>2, InlineKept, CallMoves, TaskMember
  <1>19. CASE CloserTearsDown
    <2>1. Derived("none")
      BY <1>19, <1>u, QueueFiltered DEF CloserTearsDown
    <2> QED
      BY <1>19, <2>1, InlineKept DEF CloserTearsDown
  <1>20. CASE CallbackReturns
    <2>1. CanReturn("closer") => closer = "handling"
      BY DEF CanReturn, CloseSide
    <2>2. /\ ~Fresh /\ UNCHANGED <<previous, published, setup>> /\ (Defer(handler') \/ PublishNow(handler'))
          /\ ghost'.closed = ghost.closed /\ \A t \in Inliners : handler'[t] \in {handler[t], "none"}
      BY <1>20, <2>1, HandlerGets, TaskMember, HistoryFields
      DEF CallbackReturns, Decide, CloseSide, Fresh, Inliners
    <2>3. Derived("none")
      BY <1>20, QueueFiltered, EventMember DEF CallbackReturns, Decide
    <2> QED
      BY <2>2, <2>3, InlineDecides
  <1>21. CASE CloserRetries
    <2>1. CanReturn("closer") => closer = "handling"
      BY DEF CanReturn, CloseSide
    <2>2. /\ ~Fresh /\ UNCHANGED <<previous, published, setup>> /\ (Defer(handler') \/ PublishNow(handler'))
          /\ ghost'.closed = ghost.closed /\ \A t \in Inliners : handler'[t] \in {handler[t], "none"}
      BY <1>21, <2>1, HandlerGets, TaskMember, HistoryFields
      DEF CloserRetries, Decide, CloseSide, Fresh, Inliners
    <2>3. Derived("none")
      BY <1>21, QueueFiltered, EventMember DEF CloserRetries, Decide
    <2> QED
      BY <2>2, <2>3, InlineDecides
  <1>22. CASE CloserEmitsInline
    <2>1. UNCHANGED <<setup, state, publisher>> /\ state = "CLOSING" /\ setup.callbacks
      BY <1>22 DEF CloserEmitsInline, InlineSide
    <2>2. UNCHANGED queue /\ ghost' = Begun("error")
      BY <1>22, InlineEffect, TaskMember, EventMember DEF CloserEmitsInline
    <2>3. publisher = "none" /\ ~ghost.closed /\ ~ghost'.closed
      BY <1>d, <2>1, <2>2, HistoryFields, EventMember
    <2>4. Derived("none")
      BY <1>u, <2>2
    <2> QED
      BY <2>1, <2>3, <2>4, InlineMoved DEF InlineSide
  <1>23. CASE CloserEmitsToQueue
    <2>1. CanReturn("closer") => closer = "handling"
      BY DEF CanReturn, CloseSide
    <2>2. /\ ~Fresh /\ UNCHANGED <<previous, published, setup>> /\ (Defer(handler') \/ PublishNow(handler'))
          /\ ghost'.closed = ghost.closed /\ \A t \in Inliners : handler'[t] \in {handler[t], "none"}
      BY <1>23, <2>1, HandlerGets, TaskMember, HistoryFields
      DEF CloserEmitsToQueue, Decide, CloseSide, Fresh, Inliners
    <2>3. Derived("error")
      BY <1>23, QueueReplaced, EventMember DEF CloserEmitsToQueue, Decide
    <2> QED
      BY <2>2, <2>3, InlineDecides
  <1>24. CASE CloserPublished
    BY <1>24, <1>u, InlineKept, CloserEndsEffect DEF CloserPublished
  <1>25. CASE PublisherEmitsInline
    <2>1. /\ UNCHANGED <<setup, state, closer>> /\ publisher # "none" /\ state = "CLOSED"
      BY <1>25 DEF PublisherEmitsInline, EventSide
    <2>2. UNCHANGED queue /\ \A t \in Inliners : handler'[t] = handler[t]
      BY <1>25, InlineEffect, TaskMember, EventMember DEF PublisherEmitsInline, Inliners
    <2>3. Derived("none")
      BY <1>u, <2>2
    <2> QED
      BY <2>1, <2>2, <2>3, InlineMoved DEF InlineSide, Inliners
  <1>26. CASE PublisherEmitsToQueue
    <2>1. Derived("closed") /\ UNCHANGED <<setup, handler, state>> /\ state = "CLOSED" /\ ghost'.closed = ghost.closed
      BY <1>26, QueueLonger, HistoryFields, EventMember DEF PublisherEmitsToQueue, EventSide
    <2>2. publisher' = "none" /\ closer' \notin {"error", "handling"}
      BY <1>26, <2>1 DEF PublisherEmitsToQueue, PublisherEnds, InlineSide
    <2> QED
      BY <2>1, <2>2, InlineMoved DEF InlineSide, Inliners
  <1>27. CASE WorkerReturns
    BY <1>27, <1>u, InlineKept, ContextClosesType, TaskMember, HistoryFields DEF WorkerReturns, Inliners
  <1>28. CASE \E r \in BOOLEAN : OpenerHandlerEnds(r)
    BY <1>28, <1>u, InlineKept, ContextClosesType, TaskMember, HistoryFields DEF OpenerHandlerEnds, Inliners
  <1>29. CASE \E r \in BOOLEAN : ReaderHandlerEnds(r)
    <2>1. PICK r \in BOOLEAN : ReaderHandlerEnds(r)
      BY <1>29
    <2>2. UNCHANGED <<setup, publisher, queue>> /\ \A u \in Workers \ {"reader"} : handler'[u] = handler[u]
      BY <2>1, ReaderHandlerEffect
    <2>3. Derived("none")
      BY <1>u, <2>2
    <2>4. CASE UNCHANGED <<state, closer, ghost>> /\ handler'["reader"] = "none"
      BY <2>2, <2>3, <2>4, InlineKept, TaskMember DEF Inliners
    <2>5. CASE UNCHANGED <<state, closer>> /\ handler["reader"] = "bytes" /\ ghost' = Begun("error")
      <3>1. setup.mode = "INLINE" /\ publisher = "none" /\ ~ghost.closed
        BY <2>5 DEF InlineSide, HandlerSide
      <3>2. ~ghost'.closed
        BY <2>5, <3>1, HistoryFields, EventMember
      <3> QED
        BY <2>2, <2>3, <2>5, <3>1, <3>2, InlineMoved DEF InlineSide
    <2>6. CASE UNCHANGED ghost /\ handler'["reader"] = "none" /\ CloseCall("reader", handler', opening)
      BY <2>2, <2>3, <2>6, InlineKept, CallMoves, TaskMember DEF Inliners
    <2> QED
      BY <2>1, <2>4, <2>5, <2>6, ReaderHandlerEffect
  <1>30. CASE CloserHandlerReturns
    <2>1. CanReturn("closer") => closer = "handling"
      BY DEF CanReturn, CloseSide
    <2>2. /\ ~Fresh /\ UNCHANGED <<previous, published, setup>> /\ (Defer(handler') \/ PublishNow(handler'))
          /\ ghost'.closed = ghost.closed /\ \A t \in Inliners : handler'[t] \in {handler[t], "none"}
      BY <1>30, <2>1, HandlerGets, TaskMember, HistoryFields
      DEF CloserHandlerReturns, Decide, CloseSide, Fresh, Inliners
    <2>3. Derived("none")
      BY <1>30, QueueFiltered, EventMember DEF CloserHandlerReturns, Decide
    <2> QED
      BY <2>2, <2>3, InlineDecides
  <1>31. CASE CloserHandlerRaises
    <2>1. UNCHANGED <<setup, state, publisher, queue, ghost>> /\ closer' = "none"
      BY <1>31, CloserEndsEffect DEF CloserHandlerRaises
    <2>2. \A t \in Inliners : handler'[t] \in {handler[t], "none"}
      BY <1>31, HandlerGets, TaskMember DEF CloserHandlerRaises, Inliners
    <2>3. Derived("none")
      BY <1>u, <2>1
    <2> QED
      BY <2>1, <2>2, <2>3, InlineKept
  <1>32. CASE \E r \in BOOLEAN : PublisherHandlerEnds(r)
    BY <1>32, <1>u, InlineKept, ContextClosesType, TaskMember, HistoryFields
    DEF PublisherHandlerEnds, PublisherEnds, Inliners
  <1> QED
    BY <1>0, <1>1, <1>2, <1>3, <1>4, <1>5, <1>6, <1>7, <1>8, <1>9, <1>10, <1>11, <1>12, <1>13, <1>14, <1>15,
       <1>16, <1>17, <1>18, <1>19, <1>20, <1>21, <1>22, <1>23, <1>24, <1>25, <1>26, <1>27, <1>28, <1>29, <1>30,
       <1>31, <1>32
    DEF Next, HandlerFails, HandlerReturns, OpenerStep, HandoffStep, ReaderStep, CloserStep, PublisherStep,
        DeferrerStep, Tasks


-----------------------------------------------------------------------------
(***************************************************************************)
(* In the background, the closed event comes last.                          *)
(***************************************************************************)
EmitsOpened == {"emit", "opened", "handled"}

\* A step that begins no publication, and does not emit the opened event.
LEMMA PublishKept ==
  ASSUME PublishSide, UNCHANGED <<setup, published>>, Serial => deferrer' \in {deferrer, "none"},
         opener' \in EmitsOpened => opener \in EmitsOpened /\ opening' = opening,
         publisher' # "none" => UNCHANGED <<publisher, inline>>, ghost'.closed => ghost.closed
  PROVE  PublishSide'
  BY DEF PublishSide, Serial, EmitsOpened

\* The decision begins a publication after the opening only, and not inline.
LEMMA SerialDecides ==
  ASSUME OutsideSide, PublishSide, NEW h \in Handlers, Defer(h) \/ PublishNow(h), Serial
  PROVE  /\ UNCHANGED deferrer
         /\ \/ UNCHANGED <<publisher, inline>>
            \/ publisher' = "emit" /\ ~inline' /\ ~opening
  <1>1. ~args.inline /\ ~Inherited /\ ~DeliversToActiveHandler(h)
    BY DEF OutsideSide, Serial, Inherited, DeliversToActiveHandler, DeliversInline
  <1>2. CASE Defer(h)
    BY <1>1, <1>2 DEF Defer, StartsDeferrer
  <1>3. CASE PublishNow(h)
    BY <1>1, <1>3 DEF PublishNow, Finalize, BeginPublication, MustDefer, deferVars
  <1> QED
    BY <1>2, <1>3

LEMMA PublishDecides ==
  ASSUME OutsideSide, PublishSide, NEW h \in Handlers, Defer(h) \/ PublishNow(h),
         UNCHANGED <<setup, published, opener, opening>>, ghost'.closed = ghost.closed
  PROVE  PublishSide'
  BY SerialDecides DEF PublishSide, Serial

\* While start() emits the opened event nothing is published.
LEMMA PublishStep ==
  /\ TypeInv /\ CloseSide /\ EventSide /\ HandlerSide /\ OpenedSide /\ OutsideSide /\ InlineSide
  /\ PublishSide /\ QueueSide /\ [Next]_vars
  => PublishSide'
  <1> SUFFICES ASSUME TypeInv, CloseSide, EventSide, HandlerSide, OpenedSide, OutsideSide, InlineSide,
                          PublishSide, QueueSide, [Next]_vars
               PROVE  PublishSide'
    OBVIOUS
  <1>t. /\ handler \in Handlers /\ ghost \in Ghost /\ args \in Args /\ opening \in BOOLEAN /\ published \in BOOLEAN
        /\ queue \in Seq(Events)
    BY Typed DEF HandlerTypes, CloseTypes, StartTypes, PublishTypes, QueueTypes
  <1> USE <1>t
  <1> USE DEF startVars, closeVars, deferVars, publishVars, streamVars, handlerVars
  <1>0. CASE UNCHANGED vars
    BY <1>0, PublishKept DEF vars
  <1>1. CASE \/ StartCalled \/ ReadyFails \/ PeerFails \/ ReadsEOF \/ OpenerEnds \/ OpenerClosed
             \/ ReaderEnds \/ CloserTearsDown \/ ReaderGone \/ WriterGone \/ CloserPublished
             \/ CloserHandlerRaises
             \/ (\E t \in Tasks : CloserCancelled(t))
    BY <1>1, PublishKept
    DEF StartCalled, ReadyFails, PeerFails, ReadsEOF, CloserCancelled, OpenerEnds, OpenerClosed, ReaderEnds,
        CloserTearsDown, ReaderGone, WriterGone, CloserPublished, CloserHandlerRaises, EmitsOpened
  <1>2. CASE StartCancelled
    BY <1>2, PublishKept DEF StartCancelled, EmitsOpened, OpenedOver
  <1>3. CASE PeerSends
    BY <1>3, PublishKept, HistoryFields DEF PeerSends
  <1>4. CASE OtherEmits
    BY <1>4, PublishKept, HistoryFields DEF OtherEmits
  <1>5. CASE CallbackRaises
    BY <1>5, PublishKept, HistoryFields DEF CallbackRaises
  <1>6. CASE \E t \in Tasks : CloseRequested(t)
    BY <1>6, PublishKept, HistoryFields DEF CloseRequested
  <1>7. CASE \E t \in Tasks : CallerResumes(t)
    <2>1. Serial => deferrer' = deferrer
      BY <1>7 DEF CallerResumes, EnsureWaiter, OutsideSide, Serial
    <2> QED
      BY <1>7, <2>1, PublishKept DEF CallerResumes
  <1>8. CASE WorkerTakes
    <2>1. /\ Head(queue) \in Events /\ ghost' = Begun(Head(queue)) /\ 1 \in DOMAIN queue /\ queue[1] = Head(queue)
          /\ UNCHANGED <<setup, published, deferrer, opener, opening, publisher, inline>>
      BY <1>8, HeadBegins, QueueShorter DEF WorkerTakes
    <2>2. Serial => ~ghost'.closed \/ ghost.closed \/ published
      BY <2>1, HistoryFields DEF QueueSide
    <2> QED
      BY <2>1, <2>2 DEF PublishSide, Serial
  <1>9. CASE ReadyReturns
    <2>1. /\ UNCHANGED <<setup, published, deferrer, publisher, inline>>
          /\ opener' = "done" \/ (state = "CONNECTED" /\ opening')
      BY <1>9 DEF ReadyReturns
    <2>2. state = "CONNECTED" => publisher = "none" /\ ~published /\ ~ghost.closed
      BY DEF EventSide, InlineSide
    <2>3. ghost'.closed => ghost.closed
      BY <1>9, InlineEffect, HistoryFields, TaskMember, EventMember DEF ReadyReturns, EmitsToQueue
    <2> QED
      BY <2>1, <2>2, <2>3 DEF PublishSide, Serial
  <1>10. CASE OpenerEmitsToQueue
    BY <1>10, PublishKept DEF OpenerEmitsToQueue, EmitsOpened, EmitsToQueue
  <1>11. CASE OpenerResumes
    BY <1>11, PublishKept DEF OpenerResumes, EmitsOpened, OpenedOver
  <1>12. CASE HandoffPublishes
    <2>1. /\ UNCHANGED <<setup, published, deferrer, opener, opening, ghost>> /\ opener = "handoff"
          /\ UNCHANGED <<publisher, inline>> \/ publisher' = "emit"
      BY <1>12 DEF HandoffPublishes, PublishDeferred, Finalize, BeginPublication, OpenedSide
    <2> QED
      BY <2>1 DEF PublishSide, Serial
  <1>13. CASE DeferrerPublishes
    BY <1>13 DEF DeferrerPublishes, PublishSide, Serial
  <1>14. CASE HandoffEnds
    BY <1>14, PublishKept DEF HandoffEnds, EmitsOpened
  <1>15. CASE DeferrerEnds
    BY <1>15, PublishKept DEF DeferrerEnds, EmitsOpened
  <1>16. CASE ReaderEmitsBytes
    <2>1. ghost' = ghost \/ ghost' = Begun("bytes")
      BY <1>16, InlineEffect, TaskMember, EventMember DEF ReaderEmitsBytes, EmitsToQueue
    <2>2. ghost'.closed => ghost.closed
      BY <2>1, HistoryFields, EventMember
    <2> QED
      BY <1>16, <2>2, PublishKept DEF ReaderEmitsBytes
  <1>17. CASE ReaderEmitsErrorInline
    <2>1. ghost' = ghost \/ ghost' = Begun("error")
      BY <1>17, InlineEffect, TaskMember, EventMember DEF ReaderEmitsErrorInline
    <2>2. ghost'.closed => ghost.closed
      BY <2>1, HistoryFields, EventMember
    <2> QED
      BY <1>17, <2>2, PublishKept DEF ReaderEmitsErrorInline
  <1>18. CASE ReaderEmitsErrorToQueue
    BY <1>18, PublishKept DEF ReaderEmitsErrorToQueue, EmitsToQueue
  <1>19. CASE CallbackReturns
    <2>1. /\ UNCHANGED <<setup, published, opener, opening>> /\ ghost'.closed = ghost.closed
          /\ \E h \in Handlers : Defer(h) \/ PublishNow(h)
      BY <1>19, HandlerGets, TaskMember, HistoryFields DEF CallbackReturns, Decide
    <2> QED
      BY <2>1, PublishDecides
  <1>20. CASE CloserRetries
    <2>1. /\ UNCHANGED <<setup, published, opener, opening>> /\ ghost'.closed = ghost.closed
          /\ \E h \in Handlers : Defer(h) \/ PublishNow(h)
      BY <1>20, HandlerGets, TaskMember, HistoryFields DEF CloserRetries, Decide
    <2> QED
      BY <2>1, PublishDecides
  <1>21. CASE CloserEmitsInline
    <2>1. ghost' = ghost \/ ghost' = Begun("error")
      BY <1>21, InlineEffect, TaskMember, EventMember DEF CloserEmitsInline
    <2>2. ghost'.closed => ghost.closed
      BY <2>1, HistoryFields, EventMember
    <2> QED
      BY <1>21, <2>2, PublishKept DEF CloserEmitsInline
  <1>22. CASE CloserEmitsToQueue
    <2>1. /\ UNCHANGED <<setup, published, opener, opening>> /\ ghost'.closed = ghost.closed
          /\ \E h \in Handlers : Defer(h) \/ PublishNow(h)
      BY <1>22, HandlerGets, TaskMember, HistoryFields DEF CloserEmitsToQueue, Decide
    <2> QED
      BY <2>1, PublishDecides
  <1>23. CASE PublisherEmitsInline
    <2>1. /\ UNCHANGED <<setup, published, deferrer, opener, opening, inline>> /\ publisher # "none"
          /\ Serial => inline
      BY <1>23 DEF PublisherEmitsInline, DeliversInline, Serial
    <2> QED
      BY <2>1 DEF PublishSide, Serial
  <1>24. CASE PublisherEmitsToQueue
    <2>1. /\ UNCHANGED <<setup, opener, opening>> /\ publisher # "none" /\ publisher' = "none"
          /\ deferrer = "none" => deferrer' = "none"
      BY <1>24 DEF PublisherEmitsToQueue, PublisherEnds
    <2> QED
      BY <2>1 DEF PublishSide, Serial
  <1>25. CASE WorkerReturns
    <2>1. /\ UNCHANGED <<setup, published, deferrer, opening, publisher, inline>> /\ ghost'.closed = ghost.closed
          /\ opener' = opener \/ handler["worker"] = "opened"
      BY <1>25, HistoryFields DEF WorkerReturns
    <2>2. handler["worker"] = "opened" => opener = "opened"
      BY TaskMember DEF OpenedSide
    <2> QED
      BY <2>1, <2>2, PublishKept DEF EmitsOpened
  <1>26. CASE \E r \in BOOLEAN : OpenerHandlerEnds(r)
    BY <1>26, PublishKept, HistoryFields DEF OpenerHandlerEnds, EmitsOpened, OpenedOver
  <1>27. CASE \E r \in BOOLEAN : ReaderHandlerEnds(r)
    <2>1. PICK r \in BOOLEAN : ReaderHandlerEnds(r)
      BY <1>27
    <2>2. UNCHANGED <<setup, published, deferrer, opener, opening, publisher, inline>>
      BY <2>1, ReaderHandlerEffect
    <2>3. ghost' = ghost \/ ghost' = Begun("error")
      BY <2>1, ReaderHandlerEffect
    <2>4. ghost'.closed => ghost.closed
      BY <2>3, HistoryFields, EventMember
    <2> QED
      BY <2>2, <2>4 DEF PublishSide, Serial
  <1>28. CASE CloserHandlerReturns
    <2>1. /\ UNCHANGED <<setup, published, opener, opening>> /\ ghost'.closed = ghost.closed
          /\ \E h \in Handlers : Defer(h) \/ PublishNow(h)
      BY <1>28, HandlerGets, TaskMember, HistoryFields DEF CloserHandlerReturns, Decide
    <2> QED
      BY <2>1, PublishDecides
  <1>29. CASE \E r \in BOOLEAN : PublisherHandlerEnds(r)
    <2>1. /\ UNCHANGED <<setup, opener, opening>> /\ publisher' = "none" /\ handler["publisher"] # "none"
          /\ deferrer = "none" => deferrer' = "none"
      BY <1>29 DEF PublisherHandlerEnds, PublisherEnds, CanReturn
    <2> QED
      BY <2>1 DEF PublishSide, Serial, EventSide
  <1> QED
    BY <1>0, <1>1, <1>2, <1>3, <1>4, <1>5, <1>6, <1>7, <1>8, <1>9, <1>10, <1>11, <1>12, <1>13, <1>14, <1>15,
       <1>16, <1>17, <1>18, <1>19, <1>20, <1>21, <1>22, <1>23, <1>24, <1>25, <1>26, <1>27, <1>28, <1>29
    DEF Next, HandlerFails, HandlerReturns, OpenerStep, HandoffStep, ReaderStep, CloserStep, PublisherStep,
        DeferrerStep, Tasks


\* A step that delivers nothing of the connection on the worker: what it appends
\* comes before the end of the publication.
LEMMA QueueKept ==
  ASSUME queue \in Seq(Events), queue' \in Seq(Events), QueueSide, UNCHANGED setup,
         published => published', reader # "none" => reader' # "none",
         handler'["worker"] \in {handler["worker"], "none"},
         publisher' # "none" /\ inline' => publisher # "none" /\ inline,
         ghost'.closed => ghost.closed, NEW e, Derived(e),
         Serial /\ e # "other" =>
           /\ e = "opened" \/ (e \in {"bytes", "error"} /\ reader' # "none")
           /\ ~published /\ publisher = "none" /\ ~ghost.closed
  PROVE  QueueSide'
  <1> SUFFICES ASSUME Serial, Serial' PROVE QueueSide'
    BY DEF QueueSide, Serial
  <1>1. PICK f \in [DOMAIN queue' -> DOMAIN queue \cup {Len(queue) + 1}] :
          /\ \A n \in DOMAIN queue' : queue'[n] = IF f[n] \in DOMAIN queue THEN queue[f[n]] ELSE e
          /\ \A m, n \in DOMAIN queue' : m < n => f[m] < f[n]
    BY DEF Derived
  <1>2. ASSUME NEW i \in DOMAIN queue', queue'[i] \in {"bytes", "error"} PROVE reader' # "none"
    BY <1>1, <1>2 DEF QueueSide
  <1>3. ASSUME NEW i \in DOMAIN queue', queue'[i] = "closed"
        PROVE  published' /\ \A j \in DOMAIN queue' : j > i => queue'[j] = "other"
    <2>1. f[i] \in DOMAIN queue /\ queue[f[i]] = "closed"
      BY <1>1, <1>3
    <2>2. published /\ e = "other"
      BY <2>1 DEF QueueSide
    <2>3. ASSUME NEW j \in DOMAIN queue', j > i PROVE queue'[j] = "other"
      <3>1. i \in Nat /\ j \in Nat /\ f[i] < f[j]
        BY <1>1, <2>3
      <3>2. f[i] \in Nat /\ f[j] \in Nat /\ f[j] > f[i]
        BY <1>1, <3>1
      <3> QED
        BY <1>1, <2>1, <2>2, <3>2 DEF QueueSide
    <2> QED
      BY <2>2, <2>3
  <1>4. /\ handler'["worker"] \in {"bytes", "error"} => reader' # "none"
        /\ handler'["worker"] = "closed" => published'
    BY DEF QueueSide
  <1>5. ASSUME publisher' # "none", inline'
        PROVE  handler'["worker"] \notin ConnEvents /\ \A i \in DOMAIN queue' : queue'[i] = "other"
    <2>1. e = "other" /\ handler["worker"] \notin ConnEvents /\ \A i \in DOMAIN queue : queue[i] = "other"
      BY <1>5 DEF QueueSide
    <2>2. \A i \in DOMAIN queue' : queue'[i] = "other"
      BY <1>1, <2>1
    <2> QED
      BY <2>1, <2>2 DEF ConnEvents
  <1>6. ASSUME ghost'.closed, NEW i \in DOMAIN queue' PROVE queue'[i] \in {"other", "closed"}
    BY <1>1, <1>6 DEF QueueSide
  <1> QED
    BY <1>2, <1>3, <1>4, <1>5, <1>6 DEF QueueSide

LEMMA QueueDecides ==
  ASSUME queue \in Seq(Events), queue' \in Seq(Events), QueueSide, OutsideSide, PublishSide,
         NEW h \in Handlers, Defer(h) \/ PublishNow(h), UNCHANGED <<setup, published, reader>>,
         handler'["worker"] = handler["worker"], ghost'.closed = ghost.closed,
         NEW e, Derived(e), Serial => e = "other"
  PROVE  QueueSide'
  <1>1. CASE Serial
    <2>1. publisher' # "none" /\ inline' => publisher # "none" /\ inline
      BY <1>1, SerialDecides
    <2> QED
      BY <1>1, <2>1, QueueKept
  <1>2. CASE ~Serial
    BY <1>2 DEF QueueSide, Serial
  <1> QED
    BY <1>1, <1>2

\* After the closed event the connection emits nothing more.
LEMMA QueueStep ==
  /\ TypeInv /\ CloseSide /\ EventSide /\ HandlerSide /\ OpenedSide /\ ReaderSide /\ OutsideSide
  /\ StreamSide /\ InlineSide /\ PublishSide /\ QueueSide /\ [Next]_vars
  => QueueSide'
  <1> SUFFICES ASSUME TypeInv, CloseSide, EventSide, HandlerSide, OpenedSide, ReaderSide, OutsideSide,
                          StreamSide, InlineSide, PublishSide, QueueSide, [Next]_vars
               PROVE  QueueSide'
    OBVIOUS
  <1>t. /\ handler \in Handlers /\ ghost \in Ghost /\ args \in Args /\ opening \in BOOLEAN /\ published \in BOOLEAN
        /\ queue \in Seq(Events)
    BY Typed DEF HandlerTypes, CloseTypes, StartTypes, PublishTypes, QueueTypes
  <1>n. queue' \in Seq(Events)
    BY TypeStep, TypedPrimed DEF QueueTypes
  <1> USE <1>t, <1>n
  <1>u. UNCHANGED queue => Derived("other")
    BY QueueSame
  <1>c. published \/ publisher # "none" \/ ghost.closed => state = "CLOSED" /\ ~Fresh
    BY DEF EventSide, InlineSide, Fresh
  <1>d. state = "CLOSED" /\ Serial => ~Emits
    BY DEF TornDown, Fresh, CloseSide, Before, StreamSide, Orderly, Serial
  <1> USE DEF startVars, closeVars, deferVars, publishVars, streamVars, handlerVars
  <1>0. CASE UNCHANGED vars
    BY <1>0, <1>u, QueueKept DEF vars
  <1>1. CASE \/ StartCalled \/ ReadyFails \/ StartCancelled \/ PeerFails \/ OpenerResumes \/ OpenerEnds
             \/ OpenerClosed \/ HandoffEnds \/ DeferrerEnds \/ ReaderEnds \/ ReaderGone \/ WriterGone
             \/ CloserPublished
             \/ (\E t \in Tasks : CloserCancelled(t))
             \/ (\E t \in Tasks : CallerResumes(t))
    <2>1. UNCHANGED <<setup, published, publisher, inline, queue, handler, ghost>> /\ (reader # "none" => reader' # "none")
      BY <1>1
      DEF StartCalled, ReadyFails, StartCancelled, PeerFails, CloserCancelled, CallerResumes, OpenerResumes,
          OpenerEnds, OpenerClosed, HandoffEnds, DeferrerEnds, ReaderEnds, ReaderGone, WriterGone,
          CloserPublished
    <2> QED
      BY <1>u, <2>1, QueueKept
  <1>2. CASE PeerSends
    BY <1>2, <1>u, QueueKept, HistoryFields DEF PeerSends
  <1>3. CASE ReadsEOF
    BY <1>3, <1>u, QueueKept DEF ReadsEOF, ReaderExits
  <1>4. CASE OtherEmits
    <2>1. Derived("other") /\ (ghost'.closed => ghost.closed)
      BY <1>4, QueueLonger, HistoryFields, EventMember DEF OtherEmits
    <2> QED
      BY <1>4, <2>1, QueueKept DEF OtherEmits
  <1>5. CASE CallbackRaises
    BY <1>5, <1>u, QueueKept, HistoryFields DEF CallbackRaises
  <1>6. CASE \E t \in Tasks : CloseRequested(t)
    BY <1>6, <1>u, QueueKept, HistoryFields DEF CloseRequested
  <1>7. CASE WorkerTakes
    <2>1. /\ 1 \in DOMAIN queue /\ queue[1] = Head(queue)
          /\ \A n \in DOMAIN queue' : n + 1 \in DOMAIN queue /\ queue'[n] = queue[n + 1] /\ n + 1 > 1 /\ n \in Nat
      BY <1>7, QueueShorter DEF WorkerTakes
    <2>2. Head(queue) \in Events /\ handler'["worker"] = Head(queue) /\ ghost' = Begun(Head(queue))
      BY <1>7, HeadBegins
    <2>3. UNCHANGED <<setup, reader, published, publisher, inline>>
      BY <1>7 DEF WorkerTakes
    <2> SUFFICES ASSUME Serial, Serial' PROVE QueueSide'
      BY <2>3 DEF QueueSide, Serial
    <2>4. ASSUME NEW i \in DOMAIN queue'
          PROVE  /\ queue'[i] \in {"bytes", "error"} => reader # "none"
                 /\ queue'[i] = "closed" => published /\ \A j \in DOMAIN queue' : j > i => queue'[j] = "other"
      <3>1. queue'[i] \in {"bytes", "error"} => reader # "none"
        BY <2>1 DEF QueueSide
      <3>2. ASSUME queue'[i] = "closed", NEW j \in DOMAIN queue', j > i PROVE queue'[j] = "other"
        <4>1. i + 1 \in DOMAIN queue /\ j + 1 \in DOMAIN queue /\ j + 1 > i + 1 /\ queue[i + 1] = "closed"
          BY <2>1, <3>2
        <4> QED
          BY <2>1, <4>1 DEF QueueSide
      <3>3. queue'[i] = "closed" => published
        BY <2>1 DEF QueueSide
      <3> QED
        BY <3>1, <3>2, <3>3
    <2>5. /\ handler'["worker"] \in {"bytes", "error"} => reader # "none"
          /\ handler'["worker"] = "closed" => published
      BY <2>1, <2>2 DEF QueueSide
    <2>6. publisher # "none" /\ inline =>
            handler'["worker"] \notin ConnEvents /\ \A i \in DOMAIN queue' : queue'[i] = "other"
      BY <2>1, <2>2 DEF QueueSide, ConnEvents
    <2>7. ASSUME ghost'.closed, NEW i \in DOMAIN queue' PROVE queue'[i] \in {"other", "closed"}
      <3>1. ghost.closed \/ Head(queue) = "closed"
        BY <2>2, <2>7, HistoryFields
      <3> QED
        BY <2>1, <3>1 DEF QueueSide
    <2> QED
      BY <2>3, <2>4, <2>5, <2>6, <2>7 DEF QueueSide
  <1>8. CASE ReadyReturns
    <2>1. UNCHANGED <<setup, published, publisher, inline, reader>>
      BY <1>8 DEF ReadyReturns
    <2>2. CASE UNCHANGED handlerVars
      BY <1>u, <2>1, <2>2, QueueKept
    <2>3. CASE EmitsToQueue("opened") /\ state = "CONNECTED"
      <3>1. Derived("opened") /\ UNCHANGED <<handler, ghost>>
        BY <2>3, QueueLonger, EventMember DEF EmitsToQueue
      <3> QED
        BY <1>c, <2>1, <2>3, <3>1, QueueKept
    <2>4. CASE EmitsInline("opener", "opened")
      <3>1. UNCHANGED queue /\ handler'["worker"] = handler["worker"] /\ ghost' = Begun("opened")
        BY <2>4, InlineEffect, TaskMember, EventMember
      <3>2. Derived("other") /\ (ghost'.closed => ghost.closed)
        BY <1>u, <3>1, HistoryFields, EventMember
      <3> QED
        BY <2>1, <3>1, <3>2, QueueKept
    <2> QED
      BY <1>8, <2>2, <2>3, <2>4 DEF ReadyReturns
  <1>9. CASE OpenerEmitsToQueue
    <2>1. Derived("opened") /\ UNCHANGED <<setup, published, publisher, inline, reader, handler, ghost>>
      BY <1>9, QueueLonger, EventMember DEF OpenerEmitsToQueue, EmitsToQueue
    <2>2. Serial => ~published /\ publisher = "none" /\ ~ghost.closed
      BY <1>9 DEF OpenerEmitsToQueue, PublishSide
    <2> QED
      BY <2>1, <2>2, QueueKept
  <1>10. CASE HandoffPublishes
    <2>1. UNCHANGED <<setup, published, reader, queue, handler, ghost, opener>> /\ opener = "handoff"
      BY <1>10 DEF HandoffPublishes, OpenedSide
    <2>2. CASE UNCHANGED <<publisher, inline>>
      BY <1>u, <2>1, <2>2, QueueKept
    <2>3. CASE ~published
      <3>1. reader = "none" /\ \A t \in Workers : handler[t] # "opened"
        BY <2>1 DEF OpenedSide
      <3>2. Serial => /\ \A i \in DOMAIN queue : queue[i] \notin {"opened", "bytes", "error", "closed"}
                      /\ handler["worker"] \notin {"opened", "bytes", "error", "closed"}
        BY <2>1, <2>3, <3>1, TaskMember DEF QueueSide, OpenedSide
      <3>3. \A i \in DOMAIN queue : queue[i] \in {"opened", "bytes", "error", "closed", "other"}
        BY DEF Events, ConnEvents
      <3> QED
        BY <2>1, <3>2, <3>3 DEF QueueSide, Serial, ConnEvents
    <2> QED
      BY <1>10, <2>2, <2>3 DEF HandoffPublishes, PublishDeferred
  <1>11. CASE DeferrerPublishes
    BY <1>11 DEF DeferrerPublishes, QueueSide, Serial, PublishSide
  <1>12. CASE ReaderEmitsBytes
    <2>1. UNCHANGED <<setup, published, publisher, inline>> /\ Emits /\ reader' # "none"
      BY <1>12 DEF ReaderEmitsBytes, Emits, AfterEmit
    <2>2. CASE EmitsToQueue("bytes")
      <3>1. Derived("bytes") /\ UNCHANGED <<handler, ghost>>
        BY <2>2, QueueLonger, EventMember DEF EmitsToQueue
      <3> QED
        BY <1>c, <1>d, <2>1, <3>1, QueueKept
    <2>3. CASE EmitsInline("reader", "bytes")
      <3>1. UNCHANGED queue /\ handler'["worker"] = handler["worker"] /\ ghost' = Begun("bytes")
        BY <2>3, InlineEffect, TaskMember, EventMember
      <3>2. Derived("other") /\ (ghost'.closed => ghost.closed)
        BY <1>u, <3>1, HistoryFields, EventMember
      <3> QED
        BY <2>1, <3>1, <3>2, QueueKept
    <2> QED
      BY <1>12, <2>2, <2>3 DEF ReaderEmitsBytes
  <1>13. CASE ReaderEmitsErrorInline
    <2>1. /\ UNCHANGED queue /\ handler'["worker"] = handler["worker"]
          /\ ghost' = Begun("error")
      BY <1>13, InlineEffect, TaskMember, EventMember DEF ReaderEmitsErrorInline
    <2>2. Derived("other") /\ (ghost'.closed => ghost.closed)
      BY <1>u, <2>1, HistoryFields, EventMember
    <2> QED
      BY <1>13, <2>1, <2>2, QueueKept DEF ReaderEmitsErrorInline
  <1>14. CASE ReaderEmitsErrorToQueue
    <2>1. UNCHANGED <<setup, published, publisher, inline>> /\ Emits /\ reader' # "none"
      BY <1>14 DEF ReaderEmitsErrorToQueue, Emits, ReaderExits
    <2>2. Derived("error") /\ UNCHANGED <<handler, ghost>>
      BY <1>14, QueueLonger, EventMember DEF ReaderEmitsErrorToQueue, EmitsToQueue
    <2> QED
      BY <1>c, <1>d, <2>1, <2>2, QueueKept
  <1>15. CASE CloserTearsDown
    <2>1. Derived("other")
      BY <1>15, <1>u, QueueFiltered DEF CloserTearsDown
    <2> QED
      BY <1>15, <2>1, QueueKept, TearsDownReader DEF CloserTearsDown
  <1>16. CASE CallbackReturns
    <2>1. /\ UNCHANGED <<setup, published, reader>> /\ ghost'.closed = ghost.closed
          /\ handler'["worker"] = handler["worker"]
          /\ \E h \in Handlers : Defer(h) \/ PublishNow(h)
      BY <1>16, HandlerGets, TaskMember, HistoryFields DEF CallbackReturns, Decide
    <2>2. Derived("other")
      BY <1>16, QueueFiltered, EventMember DEF CallbackReturns, Decide
    <2> QED
      BY <2>1, <2>2, QueueDecides
  <1>17. CASE CloserRetries
    <2>1. /\ UNCHANGED <<setup, published, reader>> /\ ghost'.closed = ghost.closed
          /\ handler'["worker"] = handler["worker"]
          /\ \E h \in Handlers : Defer(h) \/ PublishNow(h)
      BY <1>17, HandlerGets, TaskMember, HistoryFields DEF CloserRetries, Decide
    <2>2. Derived("other")
      BY <1>17, QueueFiltered, EventMember DEF CloserRetries, Decide
    <2> QED
      BY <2>1, <2>2, QueueDecides
  <1>18. CASE CloserEmitsInline
    <2>1. /\ UNCHANGED queue /\ handler'["worker"] = handler["worker"]
          /\ ghost' = Begun("error")
      BY <1>18, InlineEffect, TaskMember, EventMember DEF CloserEmitsInline
    <2>2. Derived("other") /\ (ghost'.closed => ghost.closed)
      BY <1>u, <2>1, HistoryFields, EventMember
    <2> QED
      BY <1>18, <2>1, <2>2, QueueKept DEF CloserEmitsInline
  <1>19. CASE CloserEmitsToQueue
    <2>1. /\ UNCHANGED <<setup, published, reader>> /\ ghost'.closed = ghost.closed
          /\ handler'["worker"] = handler["worker"]
          /\ \E h \in Handlers : Defer(h) \/ PublishNow(h)
      BY <1>19, HandlerGets, TaskMember, HistoryFields DEF CloserEmitsToQueue, Decide
    <2>2. Derived("error")
      BY <1>19, QueueReplaced, EventMember DEF CloserEmitsToQueue, Decide
    <2>3. ~Serial
      BY <1>19 DEF CloserEmitsToQueue, InlineSide, Serial
    <2> QED
      BY <2>1, <2>2, <2>3, QueueDecides
  <1>20. CASE PublisherEmitsInline
    <2>1. UNCHANGED queue /\ handler'["worker"] = handler["worker"]
      BY <1>20, InlineEffect, TaskMember, EventMember DEF PublisherEmitsInline
    <2>2. /\ UNCHANGED <<setup, published, reader, inline>> /\ publisher # "none"
          /\ Serial => inline
      BY <1>20 DEF PublisherEmitsInline, DeliversInline, Serial
    <2> QED
      BY <2>1, <2>2 DEF QueueSide, Serial
  <1>21. CASE PublisherEmitsToQueue
    <2>1. /\ UNCHANGED <<setup, reader, handler>> /\ published' /\ ~published /\ publisher' = "none"
      BY <1>21 DEF PublisherEmitsToQueue, PublisherEnds, EventSide
    <2>2. queue' = Append(queue, "closed") /\ (ghost'.closed => ghost.closed)
      BY <1>21, HistoryFields DEF PublisherEmitsToQueue
    <2>3. /\ DOMAIN queue = 1 .. Len(queue) /\ DOMAIN queue' = 1 .. Len(queue) + 1 /\ Len(queue) \in Nat
          /\ \A i \in DOMAIN queue : queue'[i] = queue[i]
          /\ queue'[Len(queue) + 1] = "closed"
      BY <2>2, EventMember
    <2> SUFFICES ASSUME Serial, Serial' PROVE QueueSide'
      BY <2>1 DEF QueueSide, Serial
    <2>4. \A i \in DOMAIN queue : queue[i] # "closed"
      BY <2>1 DEF QueueSide
    <2>5. \A i \in DOMAIN queue' : i \in DOMAIN queue \/ i = Len(queue) + 1
      BY <2>3
    <2>6. \A i \in DOMAIN queue' : queue'[i] \in {"bytes", "error"} => reader # "none"
      BY <2>3, <2>5 DEF QueueSide
    <2>7. \A i \in DOMAIN queue' : queue'[i] = "closed" => \A j \in DOMAIN queue' : ~(j > i)
      BY <2>3, <2>4, <2>5
    <2>8. ghost.closed => \A i \in DOMAIN queue' : queue'[i] \in {"other", "closed"}
      BY <2>3, <2>5 DEF QueueSide
    <2> QED
      BY <2>1, <2>2, <2>6, <2>7, <2>8 DEF QueueSide
  <1>22. CASE WorkerReturns
    BY <1>22, <1>u, QueueKept, ContextClosesType, TaskMember, HistoryFields DEF WorkerReturns
  <1>23. CASE \E r \in BOOLEAN : OpenerHandlerEnds(r)
    BY <1>23, <1>u, QueueKept, ContextClosesType, TaskMember, HistoryFields DEF OpenerHandlerEnds
  <1>24. CASE \E r \in BOOLEAN : ReaderHandlerEnds(r)
    <2>1. PICK r \in BOOLEAN : ReaderHandlerEnds(r)
      BY <1>24
    <2>2. /\ UNCHANGED <<setup, published, publisher, inline, queue>> /\ handler'["worker"] = handler["worker"]
          /\ ghost' = ghost \/ ghost' = Begun("error")
          /\ reader # "none" => reader' # "none"
      BY <2>1, ReaderHandlerEffect, TaskMember
    <2>3. Derived("other") /\ (ghost'.closed => ghost.closed)
      BY <1>u, <2>2, HistoryFields, EventMember
    <2> QED
      BY <2>2, <2>3, QueueKept
  <1>25. CASE CloserHandlerReturns
    <2>1. /\ UNCHANGED <<setup, published, reader>> /\ ghost'.closed = ghost.closed
          /\ handler'["worker"] = handler["worker"]
          /\ \E h \in Handlers : Defer(h) \/ PublishNow(h)
      BY <1>25, HandlerGets, TaskMember, HistoryFields DEF CloserHandlerReturns, Decide
    <2>2. Derived("other")
      BY <1>25, QueueFiltered, EventMember DEF CloserHandlerReturns, Decide
    <2> QED
      BY <2>1, <2>2, QueueDecides
  <1>26. CASE CloserHandlerRaises
    BY <1>26, <1>u, QueueKept, HandlerGets, TaskMember DEF CloserHandlerRaises
  <1>27. CASE \E r \in BOOLEAN : PublisherHandlerEnds(r)
    <2>1. PICK r \in BOOLEAN : PublisherHandlerEnds(r)
      BY <1>27
    <2>2. /\ UNCHANGED <<setup, queue, reader>> /\ publisher' = "none" /\ (published => published')
      BY <2>1 DEF PublisherHandlerEnds, PublisherEnds
    <2>3. handler'["worker"] = handler["worker"] /\ (ghost'.closed => ghost.closed)
      BY <2>1, ContextClosesType, HistoryFields, TaskMember DEF PublisherHandlerEnds
    <2> QED
      BY <1>u, <2>2, <2>3, QueueKept
  <1> QED
    BY <1>0, <1>1, <1>2, <1>3, <1>4, <1>5, <1>6, <1>7, <1>8, <1>9, <1>10, <1>11, <1>12, <1>13, <1>14, <1>15,
       <1>16, <1>17, <1>18, <1>19, <1>20, <1>21, <1>22, <1>23, <1>24, <1>25, <1>26, <1>27
    DEF Next, HandlerFails, HandlerReturns, OpenerStep, HandoffStep, ReaderStep, CloserStep, PublisherStep,
        DeferrerStep, Tasks


LEMMA LateKept ==
  ASSUME LateSide, UNCHANGED setup, ghost'.late = ghost.late \/ ~OneDeliveringTask
  PROVE  LateSide'
  BY DEF LateSide, OneDeliveringTask
LEMMA LateBegins ==
  ASSUME ghost \in Ghost, LateSide, UNCHANGED setup, NEW e \in Events, ghost' = Begun(e),
         OneDeliveringTask => ~ghost.closed \/ e \in {"closed", "other"}
  PROVE  LateSide'
  <1>1. OneDeliveringTask => ghost'.late = ghost.late
    BY HistoryFields DEF ConnEvents
  <1> QED
    BY <1>1, LateKept

\* So no delivery begins after that of the closed event.
LEMMA LateStep ==
  /\ TypeInv /\ CloseSide /\ EventSide /\ HandlerSide /\ StreamSide /\ InlineSide /\ QueueSide /\ LateSide
  /\ [Next]_vars
  => LateSide'
  <1> SUFFICES ASSUME TypeInv, CloseSide, EventSide, HandlerSide, StreamSide, InlineSide, QueueSide,
                          LateSide, [Next]_vars
               PROVE  LateSide'
    OBVIOUS
  <1>t. /\ handler \in Handlers /\ ghost \in Ghost /\ args \in Args /\ opening \in BOOLEAN /\ published \in BOOLEAN
        /\ queue \in Seq(Events)
    BY Typed DEF HandlerTypes, CloseTypes, StartTypes, PublishTypes, QueueTypes
  <1>d. ghost.closed => state = "CLOSED" /\ ~(setup.mode = "INLINE" /\ Emits)
    BY DEF InlineSide, TornDown, Fresh, CloseSide, Before, StreamSide, Orderly
  <1> USE <1>t
  <1> USE DEF startVars, closeVars, deferVars, publishVars, streamVars, handlerVars
  <1>0. CASE UNCHANGED vars
    BY <1>0, LateKept DEF vars
  <1>1. CASE \/ StartCalled \/ ReadyFails \/ StartCancelled \/ PeerFails \/ ReadsEOF \/ OpenerResumes
             \/ OpenerEnds \/ OpenerClosed \/ HandoffPublishes \/ DeferrerPublishes \/ HandoffEnds
             \/ DeferrerEnds \/ ReaderEnds \/ CloserTearsDown \/ ReaderGone \/ WriterGone
             \/ CloserRetries \/ CloserEmitsToQueue \/ CloserPublished \/ CloserHandlerReturns
             \/ CloserHandlerRaises
             \/ (\E t \in Tasks : CloserCancelled(t))
             \/ (\E t \in Tasks : CallerResumes(t))
    BY <1>1, LateKept
    DEF StartCalled, ReadyFails, StartCancelled, PeerFails, ReadsEOF, CloserCancelled, CallerResumes,
        OpenerResumes, OpenerEnds, OpenerClosed, HandoffPublishes, DeferrerPublishes, HandoffEnds, DeferrerEnds,
        ReaderEnds, CloserTearsDown, ReaderGone, WriterGone, CloserRetries, CloserEmitsToQueue, CloserPublished,
        CloserHandlerReturns, CloserHandlerRaises
  <1>2. CASE PeerSends
    BY <1>2, LateKept, HistoryFields DEF PeerSends
  <1>3. CASE OtherEmits
    BY <1>3, LateKept, HistoryFields DEF OtherEmits
  <1>4. CASE CallbackRaises
    BY <1>4, LateKept, HistoryFields DEF CallbackRaises
  <1>5. CASE \E t \in Tasks : CloseRequested(t)
    BY <1>5, LateKept, HistoryFields DEF CloseRequested
  <1>6. CASE WorkerTakes
    <2>1. /\ 1 \in DOMAIN queue /\ queue[1] = Head(queue) /\ Head(queue) \in Events
          /\ ghost' = Begun(Head(queue)) /\ UNCHANGED setup
      BY <1>6, QueueShorter, HeadBegins DEF WorkerTakes
    <2>2. setup.mode # "INLINE"
      BY <1>6 DEF WorkerTakes, HandlerSide
    <2>3. OneDeliveringTask /\ ghost.closed => Head(queue) \in {"closed", "other"}
      BY <2>1, <2>2 DEF OneDeliveringTask, QueueSide, Serial
    <2> QED
      BY <2>1, <2>3, LateBegins
  <1>7. CASE ReadyReturns
    <2>1. UNCHANGED setup /\ (UNCHANGED ghost \/ ghost' = Begun("opened"))
      BY <1>7, InlineEffect, TaskMember, EventMember DEF ReadyReturns, EmitsToQueue
    <2>2. CASE UNCHANGED ghost
      BY <2>1, <2>2, LateKept
    <2>3. CASE state = "CONNECTED" /\ ghost' = Begun("opened")
      BY <1>d, <2>1, <2>3, LateBegins, EventMember
    <2> QED
      BY <1>7, <2>1, <2>2, <2>3 DEF ReadyReturns
  <1>8. CASE OpenerEmitsToQueue
    BY <1>8, LateKept DEF OpenerEmitsToQueue, EmitsToQueue
  <1>9. CASE ReaderEmitsBytes
    <2>1. UNCHANGED setup /\ (UNCHANGED ghost \/ (ghost' = Begun("bytes") /\ setup.mode = "INLINE" /\ Emits))
      BY <1>9, InlineEffect, TaskMember, EventMember
      DEF ReaderEmitsBytes, EmitsToQueue, DeliversInline, Emits
    <2> QED
      BY <1>d, <2>1, LateKept, LateBegins, EventMember
  <1>10. CASE ReaderEmitsErrorInline
    <2>1. UNCHANGED setup /\ ghost' = Begun("error")
      BY <1>10, InlineEffect, TaskMember, EventMember DEF ReaderEmitsErrorInline
    <2>2. ~ghost.closed
      BY <1>10, <1>d DEF ReaderEmitsErrorInline, Emits, DeliversInline
    <2> QED
      BY <2>1, <2>2, LateBegins, EventMember
  <1>11. CASE ReaderEmitsErrorToQueue
    BY <1>11, LateKept DEF ReaderEmitsErrorToQueue, EmitsToQueue
  <1>12. CASE CallbackReturns
    BY <1>12, LateKept, HistoryFields DEF CallbackReturns
  <1>13. CASE CloserEmitsInline
    <2>1. UNCHANGED setup /\ ghost' = Begun("error")
      BY <1>13, InlineEffect, TaskMember, EventMember DEF CloserEmitsInline
    <2>2. ~ghost.closed
      BY <1>13, <1>d DEF CloserEmitsInline, InlineSide
    <2> QED
      BY <2>1, <2>2, LateBegins, EventMember
  <1>14. CASE PublisherEmitsInline
    <2>1. UNCHANGED setup /\ ghost' = Begun("closed")
      BY <1>14, InlineEffect, TaskMember, EventMember DEF PublisherEmitsInline
    <2> QED
      BY <2>1, LateBegins, EventMember
  <1>15. CASE PublisherEmitsToQueue
    BY <1>15, LateKept, HistoryFields DEF PublisherEmitsToQueue
  <1>16. CASE WorkerReturns
    BY <1>16, LateKept, HistoryFields DEF WorkerReturns
  <1>17. CASE \E r \in BOOLEAN : OpenerHandlerEnds(r)
    BY <1>17, LateKept, HistoryFields DEF OpenerHandlerEnds
  <1>18. CASE \E r \in BOOLEAN : ReaderHandlerEnds(r)
    <2>1. PICK r \in BOOLEAN : ReaderHandlerEnds(r)
      BY <1>18
    <2>2. UNCHANGED setup /\ (UNCHANGED ghost \/ (ghost' = Begun("error") /\ handler["reader"] = "bytes"))
      BY <2>1, ReaderHandlerEffect
    <2>3. ~ghost.closed \/ handler["reader"] # "bytes"
      BY DEF InlineSide, HandlerSide
    <2> QED
      BY <2>2, <2>3, LateKept, LateBegins, EventMember
  <1>19. CASE \E r \in BOOLEAN : PublisherHandlerEnds(r)
    BY <1>19, LateKept, HistoryFields DEF PublisherHandlerEnds
  <1> QED
    BY <1>0, <1>1, <1>2, <1>3, <1>4, <1>5, <1>6, <1>7, <1>8, <1>9, <1>10, <1>11, <1>12, <1>13, <1>14, <1>15,
       <1>16, <1>17, <1>18, <1>19
    DEF Next, HandlerFails, HandlerReturns, OpenerStep, HandoffStep, ReaderStep, CloserStep, PublisherStep,
        DeferrerStep, Tasks

\* The parts of the invariant that remain, in the initial states.
LEMMA OrderInit == Init => StreamSide /\ InlineSide /\ PublishSide /\ QueueSide /\ LateSide
  <1> SUFFICES ASSUME Init PROVE StreamSide /\ InlineSide /\ PublishSide /\ QueueSide /\ LateSide
    OBVIOUS
  <1>1. /\ DOMAIN queue = {} /\ \A t \in Workers : handler[t] = "none"
        /\ NoArgs.caller = "worker" /\ ~ghost.closed /\ ghost.late = {}
    BY DEF Init, NoArgs
  <1> QED
    BY <1>1, TaskMember
    DEF Init, StreamSide, InlineSide, PublishSide, QueueSide, LateSide, Emits, TornDown, Fresh, ConnEvents

\* ConnectionInv is inductive.
LEMMA ConnectionInit == Init => TypeInv /\ ConnectionInv
  BY TypeInit, CoreInit, OrderInit DEF ConnectionInv
LEMMA ConnectionStep == TypeInv /\ ConnectionInv /\ [Next]_vars => (TypeInv /\ ConnectionInv)'
  BY TypeStep, CloseStep, ToldStep, HandlerStep, OpenedStep, OutsideStep, StreamStep, InlineStep, PublishStep,
     QueueStep, LateStep
  DEF ConnectionInv

\* ConnectionOpenedEvent has been handled before the first BytesReceivedEvent is,
\* and after ConnectionClosedEvent the handler gets nothing more of the connection,
\* where one task at a time delivers: whatever the queue held, whoever closed, and
\* however start(), the read loop and the close task interleave.
THEOREM OpenedIsFirstClosedIsLast == Spec => []OpenedFirstClosedLast
  <1>1. ConnectionInv => OpenedFirstClosedLast
    BY DEF ConnectionInv, ReaderSide, OpenedSide, LateSide, OpenedFirstClosedLast
  <1> QED
    BY <1>1, ConnectionInit, ConnectionStep, PTL DEF Spec

\* Two tasks never run a handler of the connection at once, in the same scope.
LEMMA OneHandler ==
  ASSUME TypeInv, ConnectionInv, OneDeliveringTask, NEW t \in Workers, NEW u \in Workers,
         handler[t] \in ConnEvents, handler[u] \in ConnEvents
  PROVE  t = u
  <1> USE DEF ConnectionInv
  <1>1. handler[t] # "none" /\ handler[u] # "none"
    BY DEF ConnEvents
  <1>2. handler["closer"] = "none"
    BY DEF CloseSide, InlineSide, OneDeliveringTask
  <1>3. handler["opener"] = "none" \/ handler["reader"] = "none"
    BY TaskMember DEF HandlerSide, OpenedSide
  <1>4. CASE setup.mode = "INLINE"
    <2>1. handler["worker"] = "none"
      BY <1>4 DEF HandlerSide
    <2>2. handler["publisher"] # "none" => handler["opener"] = "none" /\ handler["reader"] = "none"
      BY <1>4 DEF EventSide, InlineSide
    <2> QED
      BY <1>1, <1>2, <1>3, <2>1, <2>2 DEF Workers
  <1>5. CASE setup.mode # "INLINE"
    <2>1. handler["opener"] = "none" /\ handler["reader"] = "none"
      BY <1>5 DEF HandlerSide
    <2>2. handler["publisher"] # "none" => handler["worker"] \notin ConnEvents
      BY <1>5 DEF EventSide, PublishSide, QueueSide, Serial, OneDeliveringTask
    <2> QED
      BY <1>1, <1>2, <2>1, <2>2 DEF Workers
  <1> QED
    BY <1>4, <1>5

\* "No concurrent event execution inside one connection stream": at most one handler
\* runs where one task at a time delivers, and inline the closed event overlaps none.
THEOREM DispatchIsSequential == Spec => []SequentialDispatch
  <1>1. ASSUME TypeInv, ConnectionInv PROVE SequentialDispatch
    <2> DEFINE H == {t \in Workers : handler[t] \in ConnEvents}
    <2>1. ASSUME OneDeliveringTask PROVE Cardinality(H) <= 1
      <3>1. CASE H = {}
        BY <3>1, FS_EmptySet
      <3>2. CASE H # {}
        <4>1. PICK t \in Workers : t \in H
          BY <3>2
        <4>2. H = {t}
          BY <1>1, <2>1, <4>1, OneHandler
        <4>3. Cardinality({t}) = 1
          BY FS_Singleton
        <4> HIDE DEF H
        <4> QED
          BY <4>2, <4>3
      <3> QED
        BY <3>1, <3>2
    <2>2. ASSUME setup.mode = "INLINE", NEW t \in Workers, NEW u \in Workers,
                 handler[t] = "closed", handler[u] \in ConnEvents
          PROVE  t = u
      <3>1. t = "publisher" /\ publisher # "none"
        BY <1>1, <2>2 DEF ConnectionInv, HandlerSide, EventSide, Workers
      <3>2. u \notin {"opener", "reader", "closer", "worker"}
        BY <1>1, <2>2, <3>1 DEF ConnectionInv, HandlerSide, InlineSide, ConnEvents
      <3> QED
        BY <3>1, <3>2 DEF Workers
    <2> HIDE DEF H
    <2>3. OneDeliveringTask => Cardinality({t \in Workers : handler[t] \in ConnEvents}) <= 1
      BY <2>1 DEF H
    <2> QED
      BY <2>2, <2>3 DEF SequentialDispatch
  <1> QED
    BY <1>1, ConnectionInit, ConnectionStep, PTL DEF Spec
=============================================================================
