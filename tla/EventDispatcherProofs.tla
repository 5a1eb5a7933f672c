------------------------ MODULE EventDispatcherProofs ------------------------
(***************************************************************************)
(* Theorems about EventDispatcher, for every number of producers and        *)
(* controllers, every queue size, every policy and every bound.             *)
(***************************************************************************)
EXTENDS EventDispatcher, FiniteSetTheorems, TLAPS

-----------------------------------------------------------------------------
(***************************************************************************)
(* Type correctness.                                                        *)
(***************************************************************************)

\* A step advances up to three counters at once; each stays a natural number.
LEMMA AdvanceTwo ==
  ASSUME NEW s \in Counters, NEW n \in Nat
  PROVE  [s EXCEPT !.enqueued = @ + 1, !.peak = n] \in Counters
  <1> DEFINE m == s.enqueued + 1
  <1>1. m \in Nat
    BY DEF Counters
  <1> HIDE DEF m
  <1>2. [s EXCEPT !.enqueued = m, !.peak = n] \in Counters
    BY <1>1 DEF Counters
  <1> QED
    BY <1>2 DEF m

LEMMA AdvanceThree ==
  ASSUME NEW s \in Counters, NEW n \in Nat
  PROVE  [s EXCEPT !.enqueued = @ + 1, !.oldest = @ + 1, !.peak = n] \in Counters
  <1> DEFINE m == s.enqueued + 1
             o == s.oldest + 1
  <1>1. m \in Nat /\ o \in Nat
    BY DEF Counters
  <1> HIDE DEF m, o
  <1>2. [s EXCEPT !.enqueued = m, !.oldest = o, !.peak = n] \in Counters
    BY <1>1 DEF Counters
  <1> QED
    BY <1>2 DEF m, o

\* A new event is an event.
LEMMA NewEventType ==
  ASSUME TypeOK, NEW t \in Tasks, NEW k \in KindSet, NEW c \in Controls
  PROVE  NewEvent(t, k, c) \in Event
  <1>1. stats.emitCalls \in Nat
    BY DEF TypeOK, Counters
  <1> QED
    BY <1>1 DEF NewEvent, Event, KindSet, Tasks

LEMMA NoCallType == NoCall \in Event
  BY DEF NoCall, Event, Tasks, Controls

\* _enqueue() preserves the types of what it changes.
LEMMA EnqueueType ==
  ASSUME TypeOK, NEW t \in Tasks, NEW e \in Event, NEW s \in Counters,
         Enqueue(t, e, s)
  PROVE  /\ worker' \in WorkerStates
         /\ queue' \subseteq Event /\ IsFiniteSet(queue')
         /\ pc' \in [Tasks -> Suspensions]
         /\ call' \in [Tasks -> Event]
         /\ verdict' \in [Tasks -> Verdicts]
         /\ stats' \in Counters
  <1> DEFINE f == [e EXCEPT !.ticket = s.enqueued + 1]
  <1>1. f \in Event
    BY DEF Event, Counters
  <1>2. Cardinality(queue) \in Nat
    BY FS_CardinalityType DEF TypeOK
  <1>3. NoCall \in Event
    BY NoCallType
  <1>4. IsFiniteSet(queue \cup {f})
    BY FS_AddElement DEF TypeOK
  <1>5. \A v \in queue : IsFiniteSet((queue \ {v}) \cup {f})
    BY FS_AddElement, FS_RemoveElement DEF TypeOK
  <1>6. Roused \in WorkerStates
    BY DEF Roused, TypeOK, WorkerStates
  <1>7. CASE AppendEvent(t, e, s)
    <2>1. stats' \in Counters
      <3> DEFINE n == Cardinality(queue) + 1
      <3>1. stats' = [s EXCEPT !.enqueued = @ + 1, !.peak = Max2(s.peak, n)]
        BY <1>7 DEF AppendEvent
      <3>2. n \in Nat
        BY <1>2
      <3>3. Max2(s.peak, n) \in Nat
        BY <3>2 DEF Counters, Max2
      <3> HIDE DEF n
      <3> QED
        BY <3>1, <3>3, AdvanceTwo
    <2> QED
      BY <1>7, <2>1, <1>1, <1>3, <1>4, <1>6 DEF AppendEvent, Accepted, TypeOK, Suspensions, Verdicts
  <1>8. CASE WaitForSpace(t, e, s)
    BY <1>8 DEF WaitForSpace, TypeOK, Suspensions
  <1>9. CASE EvictOldest(t, e, s)
    <2>1. stats' \in Counters
      <3> DEFINE n == Cardinality(queue)
      <3>1. stats' = [s EXCEPT !.enqueued = @ + 1, !.oldest = @ + 1, !.peak = Max2(s.peak, n)]
        BY <1>9 DEF EvictOldest
      <3>2. n \in Nat
        BY <1>2
      <3>3. Max2(s.peak, n) \in Nat
        BY <3>2 DEF Counters, Max2
      <3> HIDE DEF n
      <3> QED
        BY <3>1, <3>3, AdvanceThree
    <2>2. PICK v \in Droppable :
             /\ queue' = (queue \ {v}) \cup {f}
             /\ verdict' = [Settled({v}, "dropped") EXCEPT
                              ![t] = IF f.wait THEN "pending" ELSE "none"]
      BY <1>9 DEF EvictOldest
    <2>3. v \in queue
      BY DEF Droppable
    <2>4. Settled({v}, "dropped") \in [Tasks -> Verdicts]
      BY DEF Settled, TypeOK, Verdicts
    <2> QED
      BY <1>9, <2>1, <2>2, <2>3, <2>4, <1>1, <1>3, <1>5, <1>6 DEF EvictOldest, Accepted, TypeOK, Suspensions, Verdicts
  <1>10. CASE DropNewest(t, e, s)
    <2>1. stats' \in Counters
      BY <1>10 DEF DropNewest, Counters
    <2> QED
      BY <1>10, <2>1, <1>3 DEF DropNewest, Refused, TypeOK, Suspensions
  <1>11. CASE DropInStopPhase(t, s)
    <2>1. stats' \in Counters
      BY <1>11 DEF DropInStopPhase, Counters
    <2> QED
      BY <1>11, <2>1, <1>3 DEF DropInStopPhase, Refused, TypeOK, Suspensions
  <1> QED
    BY <1>7, <1>8, <1>9, <1>10, <1>11 DEF Enqueue

\* A call of emit() counts itself, and the failure it reports.
LEMMA CalledType ==
  ASSUME stats \in Counters, NEW e
  PROVE  /\ Called(e) \in Counters
         /\ Called(e).emitCalls = stats.emitCalls + 1 /\ Called(e).peak = stats.peak
         /\ Called(e).enqueued = stats.enqueued /\ Called(e).attempts = stats.attempts
         /\ Called(e).inline = stats.inline /\ Called(e).oldest = stats.oldest
         /\ Called(e).newest = stats.newest /\ Called(e).stop = stats.stop
  <1> DEFINE a == stats.emitCalls + 1
             b == stats.failures + IF e.control = "data" THEN 0 ELSE 1
  <1>1. a \in Nat /\ b \in Nat
    BY DEF Counters
  <1>2. Called(e) = [stats EXCEPT !.emitCalls = a, !.failures = b]
    BY DEF Called
  <1> HIDE DEF b
  <1> QED
    BY <1>1, <1>2 DEF Counters

\* A delivery in the caller is an attempt and touches no counter of the queue.
LEMMA InlineCounts ==
  ASSUME stats \in Counters, NEW t, NEW e, NEW below, EmitInline(t, e, below)
  PROVE  /\ stats' \in Counters
         /\ stats'.emitCalls = stats.emitCalls + 1 /\ stats'.attempts = stats.attempts + 1
         /\ stats'.enqueued = stats.enqueued /\ stats'.peak = stats.peak
         /\ stats'.oldest = stats.oldest /\ stats'.newest = stats.newest
         /\ stats'.stop = stats.stop
  <1> DEFINE s == Called(e)
             b == s.attempts + 1
             c == s.inline + IF DispatchMode = "INLINE" THEN 0 ELSE 1
  <1>1. /\ s \in Counters /\ s.emitCalls = stats.emitCalls + 1 /\ s.peak = stats.peak
        /\ s.enqueued = stats.enqueued /\ s.attempts = stats.attempts
        /\ s.oldest = stats.oldest /\ s.newest = stats.newest /\ s.stop = stats.stop
    BY CalledType
  <1>2. stats' = [s EXCEPT !.attempts = b, !.inline = c]
    BY DEF EmitInline
  <1> HIDE DEF s
  <1>3. b \in Nat /\ c \in Nat
    BY <1>1 DEF Counters
  <1>4. b = stats.attempts + 1
    BY <1>1
  <1> HIDE DEF b, c
  <1> QED
    BY <1>1, <1>2, <1>3, <1>4 DEF Counters

\* emit() and emit_and_wait() preserve the types of what they change.
LEMMA EmitType ==
  ASSUME TypeOK, NEW t \in Tasks, NEW e \in Event, NEW below \in Seq(Frame),
         Emit(t, e, below), cpc' \in [Controllers -> ControllerStates],
         settings' = settings
  PROVE  TypeOK'
  <1>0. stats \in Counters
    BY DEF TypeOK
  <1>1. UNCHANGED <<gen, stopping, current, cgen, cres>>
    BY DEF Emit
  <1>2. CASE EmitInline(t, e, below)
    <2>1. FrameOf(e) \in Frame
      BY DEF FrameOf, Frame, FrameKinds, Event
    <2>2. stack' \in [Tasks -> Seq(Frame)]
      BY <1>2, <2>1 DEF EmitInline, TypeOK
    <2>3. stats' \in Counters
      BY <1>0, <1>2, InlineCounts
    <2>4. ghost' \in History
      BY <1>2 DEF EmitInline, TypeOK, Event, History
    <2> QED
      BY <1>1, <1>2, <2>2, <2>3, <2>4 DEF EmitInline, TypeOK
  <1>3. CASE EmitToQueue(t, e, below)
    <2> DEFINE s == Called(e)
    <2>1. s \in Counters
      BY <1>0, CalledType
    <2>2. Enqueue(t, e, s)
      BY <1>3 DEF EmitToQueue
    <2>3. stack' \in [Tasks -> Seq(Frame)]
      BY <1>3 DEF EmitToQueue, TypeOK
    <2> HIDE DEF s
    <2>4. /\ worker' \in WorkerStates
          /\ queue' \subseteq Event /\ IsFiniteSet(queue')
          /\ pc' \in [Tasks -> Suspensions]
          /\ call' \in [Tasks -> Event]
          /\ verdict' \in [Tasks -> Verdicts]
          /\ stats' \in Counters
      BY <2>1, <2>2, EnqueueType
    <2> QED
      BY <1>1, <1>3, <2>3, <2>4 DEF EmitToQueue, TypeOK
  <1> QED
    BY <1>2, <1>3 DEF Emit

LEMMA SettledType ==
  ASSUME TypeOK, NEW S, NEW o \in {"handled", "dropped", "failed"}
  PROVE  Settled(S, o) \in [Tasks -> Verdicts]
  BY DEF Settled, TypeOK, Verdicts

LEMMA ContextChangedType ==
  ASSUME TypeOK, ContextChanged
  PROVE  cpc' \in [Controllers -> ControllerStates]
  BY DEF ContextChanged, TypeOK, ControllerStates

LEMMA NotifyType ==
  ASSUME NEW pcs \in [Tasks -> Suspensions],
         NotifyNotFull(pcs)
  PROVE  pc' \in [Tasks -> Suspensions]
  BY DEF NotifyNotFull, Suspensions

LEMMA PopType ==
  ASSUME TypeOK, NEW t \in Tasks, stack[t] # <<>>
  PROVE  /\ Pop(stack[t]) \in Seq(Frame)
         /\ Top(stack[t]) \in Frame
         /\ Len(stack[t]) \in 1..Len(stack[t])
  BY DEF TypeOK, Pop, Top

LEMMA CloseContextType ==
  ASSUME TypeOK, NEW t \in Tasks, stack[t] # <<>>, CloseContext(t)
  PROVE  /\ worker' \in WorkerStates
         /\ current' \in Event
         /\ stack' \in [Tasks -> Seq(Frame)]
         /\ verdict' \in [Tasks -> Verdicts]
         /\ cpc' \in [Controllers -> ControllerStates]
         /\ ghost' \in History
  <1>1. stack' \in [Tasks -> Seq(Frame)]
    BY PopType DEF CloseContext, TypeOK
  <1>2. verdict' \in [Tasks -> Verdicts]
    <2>1. Settled({current}, "handled")
            \in [Tasks -> Verdicts]
      BY SettledType
    <2> QED
      BY <2>1 DEF CloseContext, TypeOK
  <1>3. cpc' \in [Controllers -> ControllerStates]
    BY ContextChangedType DEF CloseContext
  <1>4. ghost' \in History
    BY DEF CloseContext, TypeOK, Event, History
  <1>5. worker' \in WorkerStates /\ current' \in Event
    BY NoCallType DEF CloseContext, TypeOK, WorkerStates
  <1> QED
    BY <1>1, <1>2, <1>3, <1>4, <1>5

LEMMA StopWithoutWaitingType ==
  ASSUME TypeOK, StopWithoutWaiting, stack' \in [Tasks -> Seq(Frame)], settings' = settings
  PROVE  TypeOK'
  <1>1. Cardinality(queue) \in Nat
    BY FS_CardinalityType DEF TypeOK
  <1>2. Settled(queue, "dropped")
            \in [Tasks -> Verdicts]
    BY SettledType
  <1>3. IsFiniteSet({})
    BY FS_EmptySet
  <1>4. CASE worker = "none"
    BY <1>4 DEF StopWithoutWaiting, TypeOK
  <1>5. CASE worker # "none"
    <2>1. stats' \in Counters
      <3> DEFINE n == Cardinality(queue)
      <3> HIDE DEF n
      <3>1. stats' = [stats EXCEPT !.stop = @ + n]
        BY <1>5 DEF StopWithoutWaiting, n
      <3>2. n \in Nat
        BY <1>1 DEF n
      <3>3. stats \in Counters
        BY DEF TypeOK
      <3> QED
        BY <3>1, <3>2, <3>3, SMTT(30) DEF Counters
    <2>2. pc' \in [Tasks -> Suspensions]
      BY <1>5 DEF StopWithoutWaiting, AllWoken, TypeOK, Suspensions
    <2> QED
      BY <1>2, <1>3, <1>5, <2>1, <2>2 DEF StopWithoutWaiting, Roused, TypeOK, WorkerStates
  <1> QED
    BY <1>4, <1>5

\* Every step of the dispatcher preserves the type invariant.
LEMMA TypeStep == TypeOK /\ [Next]_vars => TypeOK'
  <1> SUFFICES ASSUME TypeOK, [Next]_vars PROVE TypeOK'
    OBVIOUS
  <1>s. stats \in Counters
    BY DEF TypeOK
  <1>g. ghost \in History
    BY DEF TypeOK
  <1>0. /\ NoCall \in Event
        /\ Producers \subseteq Tasks
        /\ Worker \in Tasks
        /\ Kinds \subseteq KindSet
        /\ Plain \in KindSet
        /\ gen \in Nat
        /\ stack \in [Tasks -> Seq(Frame)]
        /\ <<>> \in Seq(Frame)
    BY NoCallType, KindAssumption DEF TypeOK, Tasks, Plain, KindSet
  <1>1. ASSUME NEW t \in Producers, ProducerEmits(t) PROVE TypeOK'
    <2>1. PICK k \in Kinds : Emit(t, NewEvent(t, k, "data"), <<>>)
      BY <1>1 DEF ProducerEmits
    <2>2. NewEvent(t, k, "data") \in Event
      BY <1>0, NewEventType DEF Controls
    <2>3. cpc' \in [Controllers -> ControllerStates] /\ settings' = settings
      BY <1>1 DEF ProducerEmits, TypeOK
    <2>4. t \in Tasks /\ <<>> \in Seq(Frame)
      BY <1>0
    <2> QED
      BY <2>1, <2>2, <2>3, <2>4, EmitType
  <1>2. ASSUME NEW t \in Tasks, ProducerRetries(t) PROVE TypeOK'
    <2>1. call[t] \in Event /\ Enqueue(t, call[t], stats)
      BY <1>2 DEF ProducerRetries, TypeOK
    <2>2. /\ worker' \in WorkerStates
          /\ queue' \subseteq Event /\ IsFiniteSet(queue')
          /\ pc' \in [Tasks -> Suspensions]
          /\ call' \in [Tasks -> Event]
          /\ verdict' \in [Tasks -> Verdicts]
          /\ stats' \in Counters
      BY <1>s, <2>1, EnqueueType
    <2> QED
      BY <1>2, <2>2 DEF ProducerRetries, TypeOK
  <1>3. ASSUME NEW t \in Tasks, BarrierReturns(t) PROVE TypeOK'
    <2>1. cpc' \in [Controllers -> ControllerStates]
      BY <1>3, ContextChangedType DEF BarrierReturns, TypeOK
    <2>2. stack' \in [Tasks -> Seq(Frame)]
      BY <1>3 DEF BarrierReturns, TypeOK
    <2> QED
      BY <1>0, <1>3, <2>1, <2>2 DEF BarrierReturns, TypeOK, Suspensions, Verdicts
  <1>4. ASSUME NEW t \in Producers, CancelBarrier(t) PROVE TypeOK'
    BY <1>0, <1>4 DEF CancelBarrier, TypeOK, Suspensions
  <1>5. ASSUME NEW t \in Producers, CancelBlocked(t) PROVE TypeOK'
    <2>1. cpc' \in [Controllers -> ControllerStates]
      BY <1>5, ContextChangedType DEF CancelBlocked
    <2>2. pc' \in [Tasks -> Suspensions]
      <3> DEFINE gone == [pc EXCEPT ![t] = "run"]
      <3>1. gone \in [Tasks -> Suspensions]
        BY DEF TypeOK, Suspensions
      <3>2. pc' = gone \/ NotifyNotFull(gone)
        BY <1>5 DEF CancelBlocked
      <3> HIDE DEF gone
      <3> QED
        BY <3>1, <3>2, NotifyType
    <2>3. stack' \in [Tasks -> Seq(Frame)] /\ call' \in [Tasks -> Event]
      BY <1>0, <1>5 DEF CancelBlocked, TypeOK
    <2>4. ghost' \in History
      BY <1>g, <1>5 DEF CancelBlocked, History
    <2> QED
      BY <1>5, <2>1, <2>2, <2>3, <2>4 DEF CancelBlocked, TypeOK
  <1>6. CASE WorkerTakes
    <2>1. PICK e \in queue :
            /\ queue' = queue \ {e}
            /\ current' = e
            /\ stack' = [stack EXCEPT ![Worker] = <<FrameOf(e)>>]
            /\ ghost' = [ghost EXCEPT !.begun[e.task] = e.id]
      BY <1>6 DEF WorkerTakes
    <2>2. e \in Event
      BY DEF TypeOK
    <2>3. IsFiniteSet(queue') /\ queue' \subseteq Event
      BY <2>1, FS_RemoveElement DEF TypeOK
    <2>4. FrameOf(e) \in Frame
      BY <2>2 DEF FrameOf, Frame, FrameKinds, Event
    <2>5. stack' \in [Tasks -> Seq(Frame)]
      BY <1>0, <2>1, <2>4 DEF TypeOK
    <2>6. ghost' \in History
      BY <2>1, <2>2 DEF TypeOK, Event, History
    <2>7. stats' \in Counters
      BY <1>s, <1>6 DEF WorkerTakes, Counters
    <2>8. pc' \in [Tasks -> Suspensions]
      BY <1>6, NotifyType DEF WorkerTakes, TypeOK
    <2> QED
      BY <1>6, <2>1, <2>2, <2>3, <2>5, <2>6, <2>7, <2>8 DEF WorkerTakes, TypeOK, WorkerStates
  <1>7. CASE WorkerSleeps
    BY <1>7 DEF WorkerSleeps, TypeOK, WorkerStates
  <1>8. CASE WorkerExits
    BY <1>8 DEF WorkerExits, TypeOK, WorkerStates
  <1>9. CASE WorkerAborts
    <2>1. verdict' \in [Tasks -> Verdicts]
      BY <1>9, SettledType DEF WorkerAborts
    <2>2. cpc' \in [Controllers -> ControllerStates]
      BY <1>9, ContextChangedType DEF WorkerAborts
    <2>3. IsFiniteSet(queue') /\ queue' \subseteq Event
      BY <1>9, FS_EmptySet DEF WorkerAborts
    <2>4. Cardinality(queue) \in Nat
      BY FS_CardinalityType DEF TypeOK
    <2>5. ghost' \in History
      <3> DEFINE n == Cardinality(queue)
      <3>1. ghost' = [ghost EXCEPT !.abandoned = @ + n]
        BY <1>9 DEF WorkerAborts
      <3> HIDE DEF n
      <3>2. n \in Nat
        BY <2>4 DEF n
      <3> QED
        BY <1>g, <3>1, <3>2 DEF History
    <2>6. stack' \in [Tasks -> Seq(Frame)]
      BY <1>0, <1>9 DEF WorkerAborts
    <2> QED
      BY <1>0, <1>9, <2>1, <2>2, <2>3, <2>5, <2>6 DEF WorkerAborts, TypeOK, WorkerStates
  <1>10. ASSUME NEW t \in Tasks, HandlerReturns(t) PROVE TypeOK'
    <2>1. stack[t] # <<>> /\ CloseContext(t)
      BY <1>10 DEF HandlerReturns, InHandler
    <2> QED
      BY <1>10, <2>1, CloseContextType DEF HandlerReturns, TypeOK
  <1>11. ASSUME NEW t \in Tasks, HandlerFailsQuietly(t) PROVE TypeOK'
    <2>1. stack[t] # <<>> /\ CloseContext(t)
      BY <1>11 DEF HandlerFailsQuietly, InHandler
    <2>2. stats' \in Counters
      BY <1>s, <1>11 DEF HandlerFailsQuietly, Counters
    <2> QED
      BY <1>11, <2>1, <2>2, CloseContextType DEF HandlerFailsQuietly, TypeOK
  <1>12. ASSUME NEW t \in Tasks, HandlerEmits(t) PROVE TypeOK'
    <2>1. PICK k \in Kinds : Emit(t, NewEvent(t, k, "data"), stack[t])
      BY <1>12 DEF HandlerEmits
    <2>2. NewEvent(t, k, "data") \in Event
      BY <1>0, NewEventType DEF Controls
    <2>3. /\ cpc' \in [Controllers -> ControllerStates]
          /\ stack[t] \in Seq(Frame)
          /\ settings' = settings
      BY <1>12 DEF HandlerEmits, TypeOK
    <2> QED
      BY <2>1, <2>2, <2>3, EmitType
  <1>13. ASSUME NEW t \in Tasks, stack[t] # <<>>
         PROVE  BelowControl(t) \in Seq(Frame) /\ ControlEvent(t) \in Event
    <2>1. Pop(stack[t]) \in Seq(Frame) /\ Top(stack[t]) \in Frame
      BY <1>13, PopType
    <2>2. [kind |-> "stopcb", res |-> Top(stack[t]).res] \in Frame
      BY <2>1 DEF Frame, FrameKinds
    <2>3. ControlEvent(t) \in Event
      BY <1>0, NewEventType DEF ControlEvent, Controls
    <2> QED
      BY <2>1, <2>2, <2>3 DEF BelowControl
  <1>14. ASSUME NEW t \in Tasks, InlineHandlerFails(t) PROVE TypeOK'
    <2>1. /\ stack[t] # <<>>
          /\ Emit(t, ControlEvent(t), BelowControl(t))
          /\ ContextChanged
          /\ settings' = settings
      BY <1>14 DEF InlineHandlerFails, InHandler
    <2> QED
      BY <1>13, <2>1, ContextChangedType, EmitType
  <1>15. CASE WorkerHandlerFails
    <2>1. stack[Worker] # <<>>
      BY <1>15 DEF WorkerHandlerFails, InHandler
    <2>2. BelowControl(Worker) \in Seq(Frame) /\ ControlEvent(Worker) \in Event
      BY <1>0, <1>13, <2>1
    <2>3. FrameOf(ControlEvent(Worker)) \in Frame
      BY <2>2 DEF FrameOf, Frame, FrameKinds, Event
    <2>4. stack' \in [Tasks -> Seq(Frame)]
      BY <1>0, <1>15, <2>2, <2>3 DEF WorkerHandlerFails, TypeOK
    <2>5. stats' \in Counters
      <3> DEFINE a == stats.failures + 1
                 b == stats.attempts + 1
      <3>1. stats' = [stats EXCEPT !.failures = a, !.attempts = b]
        BY <1>15 DEF WorkerHandlerFails
      <3>2. a \in Nat /\ b \in Nat
        BY <1>s DEF Counters
      <3> HIDE DEF a, b
      <3> QED
        BY <1>s, <3>1, <3>2 DEF Counters
    <2>6. ghost' \in History
      BY <1>g, <1>15 DEF WorkerHandlerFails, History
    <2>7. cpc' \in [Controllers -> ControllerStates]
      BY <1>15, ContextChangedType DEF WorkerHandlerFails
    <2> QED
      BY <1>15, <2>4, <2>5, <2>6, <2>7 DEF WorkerHandlerFails, TypeOK
  <1>16. ASSUME NEW t \in Tasks, HandlerStops(t) PROVE TypeOK'
    BY <1>16, StopWithoutWaitingType DEF HandlerStops, TypeOK
  <1>17. ASSUME NEW t \in Tasks, StopCallback(t) PROVE TypeOK'
    <2>1. stack[t] # <<>> /\ settings' = settings
      BY <1>17 DEF StopCallback, InHandler
    <2>2. stack' \in [Tasks -> Seq(Frame)]
      <3> DEFINE n == Len(stack[t])
                 changed == [stack[t] EXCEPT ![n].kind = "stopcbdone"]
      <3>1. stack[t] \in Seq(Frame) /\ n \in 1..n
        BY <2>1, PopType DEF TypeOK
      <3>2. [stack[t][n] EXCEPT !.kind = "stopcbdone"] \in Frame
        <4>1. stack[t][n] \in Frame
          BY <3>1
        <4> HIDE DEF n
        <4> QED
          BY <4>1 DEF Frame, FrameKinds
      <3>3. changed \in Seq(Frame)
        BY <3>1, <3>2
      <3>4. stack' = [stack EXCEPT ![t] = changed]
        BY <1>17 DEF StopCallback
      <3> HIDE DEF changed
      <3> QED
        BY <3>3, <3>4 DEF TypeOK
    <2>3. CASE StopWithoutWaiting
      BY <2>1, <2>2, <2>3, StopWithoutWaitingType
    <2>4. CASE UNCHANGED <<worker, gen, stopping, queue, current, pc, call, verdict,
                           cpc, cgen, cres, stats, ghost>>
      BY <2>1, <2>2, <2>4 DEF TypeOK
    <2> QED
      BY <1>17, <2>3, <2>4 DEF StopCallback
  <1>18. ASSUME NEW c \in Controllers, Start(c) PROVE TypeOK'
    <2>1. gen' \in Nat
      BY <1>0, <1>18 DEF Start
    <2> QED
      BY <1>18, <2>1 DEF Start, TypeOK, WorkerStates
  <1>19. ASSUME NEW c \in Controllers, StopCalled(c) PROVE TypeOK'
    <2>1. CASE worker = "none"
      BY <1>19, <2>1 DEF StopCalled, TypeOK
    <2>2. CASE worker # "none"
      <3>1. pc' \in [Tasks -> Suspensions]
        BY <1>19, <2>2 DEF StopCalled, AllWoken, TypeOK, Suspensions
      <3>2. worker' \in WorkerStates
        BY <1>19, <2>2 DEF StopCalled, Roused, TypeOK, WorkerStates
      <3> QED
        BY <1>19, <2>2, <3>1, <3>2 DEF StopCalled, TypeOK, ControllerStates
    <2> QED
      BY <2>1, <2>2
  <1>20. ASSUME NEW c \in Controllers, StopReturns(c) PROVE TypeOK'
    BY <1>20 DEF StopReturns, TypeOK, ControllerStates
  <1>21. ASSUME NEW c \in Controllers, StopCancelled(c) PROVE TypeOK'
    BY <1>21 DEF StopCancelled, TypeOK, ControllerStates
  <1>22. ASSUME NEW c \in Controllers, StopFromHandlerOrigin(c) PROVE TypeOK'
    BY <1>22, StopWithoutWaitingType DEF StopFromHandlerOrigin, TypeOK
  <1>23. ASSUME NEW c \in Controllers, NEW r \in Tasks, DropQueuedEventsForResource(c, r)
         PROVE  TypeOK'
    <2> DEFINE dropped == {e \in queue : e.bytes /\ e.res = r}
    <2>1. IsFiniteSet(dropped) /\ IsFiniteSet(queue \ dropped)
      BY FS_Subset, FS_Difference DEF TypeOK
    <2>2. Cardinality(dropped) \in Nat
      BY <2>1, FS_CardinalityType
    <2>3. Settled(dropped, "dropped") \in [Tasks -> Verdicts]
      BY SettledType
    <2>4. stats' \in Counters
      <3> DEFINE n == Cardinality(dropped)
      <3>1. stats' = [stats EXCEPT !.stop = @ + n]
        BY <1>23 DEF DropQueuedEventsForResource
      <3> HIDE DEF n
      <3>2. n \in Nat
        BY <2>2 DEF n
      <3> QED
        BY <1>s, <3>1, <3>2 DEF Counters
    <2>5. pc' \in [Tasks -> Suspensions]
      BY <1>23 DEF DropQueuedEventsForResource, AllWoken, TypeOK, Suspensions
    <2> QED
      BY <1>23, <2>1, <2>3, <2>4, <2>5 DEF DropQueuedEventsForResource, TypeOK
  <1>24. ASSUME NEW c \in Controllers, NEW r \in Tasks, WaitForHandlerContext(c, r)
         PROVE  TypeOK'
    BY <1>24 DEF WaitForHandlerContext, TypeOK, ControllerStates
  <1>25. ASSUME NEW c \in Controllers, HandlerContextRecheck(c) PROVE TypeOK'
    BY <1>0, <1>25 DEF HandlerContextRecheck, TypeOK, ControllerStates
  <1>26. CASE UNCHANGED vars
    BY <1>26 DEF vars, TypeOK
  <1> QED
    BY <1>1, <1>2, <1>3, <1>4, <1>5, <1>6, <1>7, <1>8, <1>9, <1>10, <1>11, <1>12, <1>14,
       <1>15, <1>16, <1>17, <1>18, <1>19, <1>20, <1>21, <1>22, <1>23, <1>24, <1>25, <1>26
    DEF Next, WorkerLoop, HandlerStep, ProducerStep, ControllerStep

LEMMA TypeInit == Init => TypeOK
  <1> SUFFICES ASSUME Init PROVE TypeOK
    OBVIOUS
  <1>1. NoCall \in Event
    BY NoCallType
  <1>2. IsFiniteSet(queue) /\ queue \subseteq Event
    BY FS_EmptySet DEF Init
  <1>3. stack \in [Tasks -> Seq(Frame)]
    BY DEF Init
  <1>4. ghost \in History
    BY DEF Init, History
  <1>5. stats \in Counters
    BY DEF Init, Counters
  <1> QED
    BY <1>1, <1>2, <1>3, <1>4, <1>5
    DEF Init, TypeOK, WorkerStates, Suspensions, Verdicts, ControllerStates, Tasks

\* The state of the dispatcher keeps its types in every reachable state.
THEOREM TypeCorrect == Spec => []TypeOK
  BY TypeInit, TypeStep, PTL DEF Spec

-----------------------------------------------------------------------------
(***************************************************************************)
(* The bounded queue.  A step that appends does so under the capacity       *)
(* check, or replaces an event of a full queue; nothing else adds events.   *)
(***************************************************************************)

\* One pass of _enqueue() keeps the queue within its bound.
LEMMA EnqueueBounded ==
  ASSUME TypeOK, QueueBounded, NEW t \in Tasks, NEW e \in Event, NEW s \in Counters,
         s.peak = stats.peak, Enqueue(t, e, s)
  PROVE  QueueBounded'
  <1> DEFINE f == [e EXCEPT !.ticket = s.enqueued + 1]
             n == Cardinality(queue)
  <1>1. n \in Nat /\ IsFiniteSet(queue)
    BY FS_CardinalityType DEF TypeOK
  <1>2. n <= s.peak /\ s.peak <= MaxPending /\ s.peak \in Nat /\ MaxPending \in Nat
    BY BoundAssumption DEF QueueBounded, Counters
  <1>3. CASE AppendEvent(t, e, s)
    <2>1. queue' = queue \cup {f} /\ n < MaxPending
      BY <1>3 DEF AppendEvent, HasRoom
    <2>2. Cardinality(queue') \in {n, n + 1}
      BY <1>1, <2>1, FS_AddElement
    <2>3. stats'.peak = Max2(s.peak, n + 1)
      BY <1>3 DEF AppendEvent, Counters
    <2> HIDE DEF n, f
    <2> QED
      BY <1>1, <1>2, <2>1, <2>2, <2>3 DEF QueueBounded, Max2
  <1>4. CASE EvictOldest(t, e, s)
    <2>1. PICK v \in queue : queue' = (queue \ {v}) \cup {f}
      BY <1>4 DEF EvictOldest, Droppable
    <2>2. IsFiniteSet(queue \ {v}) /\ Cardinality(queue \ {v}) = n - 1
      BY <1>1, FS_RemoveElement
    <2>3. Cardinality(queue') \in {n - 1, n}
      <3>1. Cardinality((queue \ {v}) \cup {f}) \in {n - 1, (n - 1) + 1}
        BY <2>2, FS_AddElement
      <3> QED
        BY <1>1, <2>1, <3>1
    <2>4. stats'.peak = Max2(s.peak, n)
      BY <1>4 DEF EvictOldest, Counters
    <2> HIDE DEF n, f
    <2> QED
      BY <1>1, <1>2, <2>3, <2>4 DEF QueueBounded, Max2
  <1>5. CASE WaitForSpace(t, e, s) \/ DropNewest(t, e, s) \/ DropInStopPhase(t, s)
    <2>1. queue' = queue /\ stats'.peak = s.peak
      BY <1>5 DEF WaitForSpace, DropNewest, DropInStopPhase, Counters
    <2> QED
      BY <2>1 DEF QueueBounded
  <1> QED
    BY <1>3, <1>4, <1>5 DEF Enqueue

\* So does a call of emit() or emit_and_wait().
LEMMA EmitBounded ==
  ASSUME TypeOK, QueueBounded, NEW t \in Tasks, NEW e \in Event, NEW below,
         Emit(t, e, below)
  PROVE  QueueBounded'
  <1>1. stats \in Counters
    BY DEF TypeOK
  <1>2. CASE EmitInline(t, e, below)
    <2>1. queue' = queue /\ stats'.peak = stats.peak
      BY <1>1, <1>2, InlineCounts DEF EmitInline
    <2> QED
      BY <2>1 DEF QueueBounded
  <1>3. CASE EmitToQueue(t, e, below)
    <2> DEFINE s == Called(e)
    <2>1. s \in Counters /\ s.peak = stats.peak
      BY <1>1, CalledType
    <2>2. Enqueue(t, e, s)
      BY <1>3 DEF EmitToQueue
    <2> HIDE DEF s
    <2> QED
      BY <2>1, <2>2, EnqueueBounded
  <1> QED
    BY <1>2, <1>3 DEF Emit

\* A queue that only shrinks stays within its bound.
LEMMA ShrinkBounded ==
  ASSUME TypeOK, QueueBounded, queue' \subseteq queue, stats'.peak = stats.peak
  PROVE  QueueBounded'
  <1>1. Cardinality(queue') <= Cardinality(queue)
    BY FS_Subset DEF TypeOK
  <1>2. Cardinality(queue) \in Nat /\ Cardinality(queue') \in Nat /\ stats.peak \in Nat
    BY FS_CardinalityType, FS_Subset DEF TypeOK, Counters
  <1> QED
    BY <1>1, <1>2 DEF QueueBounded

LEMMA BoundedStep == TypeOK /\ QueueBounded /\ [Next]_vars => QueueBounded'
  <1> SUFFICES ASSUME TypeOK, QueueBounded, [Next]_vars PROVE QueueBounded'
    OBVIOUS
  <1>s. stats \in Counters
    BY DEF TypeOK
  <1>k. /\ \A t \in Tasks, k \in Kinds : NewEvent(t, k, "data") \in Event
        /\ \A t \in Tasks : ControlEvent(t) \in Event
        /\ Producers \subseteq Tasks
    BY NewEventType, KindAssumption DEF ControlEvent, Controls, Plain, KindSet, Tasks
  <1>1. ASSUME NEW t \in Tasks,
               ProducerEmits(t) \/ HandlerEmits(t) \/ InlineHandlerFails(t)
        PROVE  QueueBounded'
    BY <1>1, <1>k, EmitBounded DEF ProducerEmits, HandlerEmits, InlineHandlerFails
  <1>2. ASSUME NEW t \in Tasks, ProducerRetries(t) PROVE QueueBounded'
    <2>1. call[t] \in Event /\ Enqueue(t, call[t], stats)
      BY <1>2 DEF ProducerRetries, TypeOK
    <2> QED
      BY <1>s, <2>1, EnqueueBounded
  <1>3. CASE WorkerTakes
    <2>1. queue' \subseteq queue
      BY <1>3 DEF WorkerTakes
    <2>2. stats'.peak = stats.peak
      BY <1>s, <1>3 DEF WorkerTakes, Counters
    <2> QED
      BY <2>1, <2>2, ShrinkBounded
  <1>4. ASSUME NEW t \in Tasks, HandlerFailsQuietly(t) PROVE QueueBounded'
    <2>1. queue' = queue /\ stats'.peak = stats.peak
      BY <1>s, <1>4 DEF HandlerFailsQuietly, Counters
    <2> QED
      BY <2>1 DEF QueueBounded
  <1>5. CASE WorkerHandlerFails
    <2>1. queue' = queue /\ stats'.peak = stats.peak
      BY <1>s, <1>5 DEF WorkerHandlerFails, Counters
    <2> QED
      BY <2>1 DEF QueueBounded
  <1>6. CASE StopWithoutWaiting
    <2>1. queue' \subseteq queue
      BY <1>6 DEF StopWithoutWaiting
    <2>2. stats'.peak = stats.peak
      BY <1>s, <1>6 DEF StopWithoutWaiting, Counters
    <2> QED
      BY <2>1, <2>2, ShrinkBounded
  <1>7. ASSUME NEW c \in Controllers, NEW r \in Tasks, DropQueuedEventsForResource(c, r)
        PROVE  QueueBounded'
    <2>1. queue' \subseteq queue
      BY <1>7 DEF DropQueuedEventsForResource
    <2>2. stats'.peak = stats.peak
      BY <1>s, <1>7 DEF DropQueuedEventsForResource, Counters
    <2> QED
      BY <2>1, <2>2, ShrinkBounded
  <1>8. CASE WorkerAborts
    <2>1. queue' \subseteq queue /\ stats'.peak = stats.peak
      BY <1>8 DEF WorkerAborts
    <2> QED
      BY <2>1, ShrinkBounded
  <1>9. CASE UNCHANGED <<queue, stats>>
    BY <1>9 DEF QueueBounded
  <1>10. ASSUME NEW t \in Tasks, BarrierReturns(t) \/ CancelBarrier(t) \/ CancelBlocked(t)
                                   \/ HandlerReturns(t)
         PROVE  QueueBounded'
    BY <1>9, <1>10 DEF BarrierReturns, CancelBarrier, CancelBlocked, HandlerReturns
  <1>11. ASSUME NEW t \in Tasks, HandlerStops(t) \/ StopCallback(t) PROVE QueueBounded'
    BY <1>6, <1>9, <1>11 DEF HandlerStops, StopCallback
  <1>12. CASE WorkerSleeps \/ WorkerExits
    BY <1>9, <1>12 DEF WorkerSleeps, WorkerExits
  <1>13. ASSUME NEW c \in Controllers,
                \/ Start(c) \/ StopCalled(c) \/ StopCancelled(c) \/ StopReturns(c)
                \/ StopFromHandlerOrigin(c) \/ HandlerContextRecheck(c)
                \/ \E r \in Tasks : WaitForHandlerContext(c, r)
         PROVE  QueueBounded'
    BY <1>6, <1>9, <1>13 DEF Start, StopCalled, StopCancelled, StopReturns,
       StopFromHandlerOrigin, HandlerContextRecheck, WaitForHandlerContext
  <1>14. CASE UNCHANGED vars
    BY <1>9, <1>14 DEF vars
  <1> QED
    BY <1>k, <1>1, <1>2, <1>3, <1>4, <1>5, <1>7, <1>8, <1>10, <1>11, <1>12, <1>13, <1>14
    DEF Next, WorkerLoop, HandlerStep, ProducerStep, ControllerStep

\* Whatever the policy and however many producers race for a freed slot, the
\* queue never holds more than max_pending_events, and queue_peak is its
\* high-water mark.
THEOREM QueueIsBounded == Spec => []QueueBounded
  <1>1. Init => QueueBounded
    BY FS_EmptySet, BoundAssumption DEF Init, QueueBounded
  <1> QED
    BY <1>1, TypeCorrect, BoundedStep, PTL DEF Spec

-----------------------------------------------------------------------------
(***************************************************************************)
(* Accounting.  Tickets are fresh, so an append really adds an event; and a *)
(* producer leaves the set of suspended producers in the step that queues,  *)
(* drops or forgets its event.                                              *)
(***************************************************************************)
Suspended == Blocked \cup Woken

Tickets == \A e \in queue : e.ticket <= stats.enqueued

Accounted(s) == s.attempts + Cardinality(queue) + s.oldest + s.newest + s.stop
                  + Cardinality(Suspended)

LEMMA SuspendedFinite ==
  ASSUME TypeOK
  PROVE  IsFiniteSet(Suspended) /\ Cardinality(Suspended) \in Nat
  <1>1. IsFiniteSet(Tasks)
    BY TaskAssumption, FS_AddElement DEF Tasks
  <1>2. Suspended \subseteq Tasks
    BY DEF Suspended, Blocked, Woken
  <1> QED
    BY <1>1, <1>2, FS_Subset, FS_CardinalityType

\* A producer that resumes leaves the suspended set.
LEMMA SuspendedLeaves ==
  ASSUME TypeOK, NEW t \in Tasks, NEW x \in {"run", "await"}, pc' = [pc EXCEPT ![t] = x]
  PROVE  Cardinality(Suspended')
           = Cardinality(Suspended) - IF t \in Suspended THEN 1 ELSE 0
  <1>1. Suspended' = Suspended \ {t}
    BY DEF Suspended, Blocked, Woken, TypeOK
  <1>2. IsFiniteSet(Suspended) /\ Cardinality(Suspended) \in Nat
    BY SuspendedFinite
  <1>3. CASE t \in Suspended
    BY <1>1, <1>2, <1>3, FS_RemoveElement
  <1>4. CASE t \notin Suspended
    <2>1. Suspended' = Suspended
      BY <1>1, <1>4
    <2> QED
      BY <1>2, <1>4, <2>1
  <1> QED
    BY <1>3, <1>4

\* One that goes to sleep joins it.
LEMMA SuspendedJoins ==
  ASSUME TypeOK, NEW t \in Tasks, pc' = [pc EXCEPT ![t] = "blocked"]
  PROVE  Cardinality(Suspended')
           = Cardinality(Suspended) + IF t \in Suspended THEN 0 ELSE 1
  <1>1. Suspended' = Suspended \cup {t}
    BY DEF Suspended, Blocked, Woken, TypeOK
  <1>2. IsFiniteSet(Suspended) /\ Cardinality(Suspended) \in Nat
    BY SuspendedFinite
  <1>3. Cardinality(Suspended \cup {t})
          = IF t \in Suspended THEN Cardinality(Suspended) ELSE Cardinality(Suspended) + 1
    BY <1>2, FS_AddElement
  <1> QED
    BY <1>1, <1>2, <1>3

\* A notification moves producers inside it.
LEMMA SuspendedKeeps ==
  ASSUME TypeOK, pc' = pc \/ pc' = AllWoken \/ NotifyNotFull(pc)
  PROVE  Suspended' = Suspended
  <1>1. CASE pc' = pc
    BY <1>1 DEF Suspended, Blocked, Woken
  <1>2. CASE pc' = AllWoken
    BY <1>2 DEF Suspended, Blocked, Woken, AllWoken, TypeOK
  <1>3. CASE NotifyNotFull(pc)
    <2>1. pc' = pc \/ \E w \in Blocked : pc' = [pc EXCEPT ![w] = "woken"]
      BY <1>3 DEF NotifyNotFull, Blocked
    <2>2. ASSUME NEW w \in Blocked, pc' = [pc EXCEPT ![w] = "woken"]
          PROVE  Suspended' = Suspended
      BY <2>2 DEF Suspended, Blocked, Woken, TypeOK
    <2> QED
      BY <1>1, <2>1, <2>2
  <1> QED
    BY <1>1, <1>2, <1>3

\* A pass of _enqueue() accounts for a call that was not yet counted as
\* suspended, and only moves one that was.
LEMMA EnqueueAccounts ==
  ASSUME TypeOK, Tickets, NEW t \in Tasks, NEW e \in Event, NEW s \in Counters,
         s.enqueued = stats.enqueued, Enqueue(t, e, s)
  PROVE  /\ Accounted(stats)' = Accounted(s) + IF t \in Suspended THEN 0 ELSE 1
         /\ stats'.emitCalls = s.emitCalls
         /\ Tickets'
  <1> DEFINE f == [e EXCEPT !.ticket = s.enqueued + 1]
             n == Cardinality(queue)
             m == Cardinality(Suspended)
             d == IF t \in Suspended THEN 1 ELSE 0
             z == IF t \in Suspended THEN 0 ELSE 1
  <1>1. n \in Nat /\ IsFiniteSet(queue) /\ queue \subseteq Event
    BY FS_CardinalityType DEF TypeOK
  <1>2. m \in Nat
    BY SuspendedFinite
  <1>3. f \in Event /\ f.ticket = s.enqueued + 1 /\ s.enqueued \in Nat
    BY DEF Event, Counters
  <1>4. f \notin queue
    BY <1>1, <1>3 DEF Tickets, Event
  <1>5. z = 1 - d /\ d \in {0, 1}
    OBVIOUS
  <1>6. CASE AppendEvent(t, e, s)
    <2>1. queue' = queue \cup {f}
      BY <1>6 DEF AppendEvent
    <2>2. Cardinality(queue') = n + 1
      BY <1>1, <1>4, <2>1, FS_AddElement
    <2>3. Cardinality(Suspended') = m - d
      BY <1>6, SuspendedLeaves DEF AppendEvent, Accepted
    <2>4. /\ stats'.enqueued = s.enqueued + 1 /\ stats'.emitCalls = s.emitCalls
          /\ stats'.attempts = s.attempts /\ stats'.oldest = s.oldest
          /\ stats'.newest = s.newest /\ stats'.stop = s.stop
      BY <1>6 DEF AppendEvent, Counters
    <2>5. Tickets'
      <3>1. \A x \in queue : x.ticket <= s.enqueued + 1
        BY <1>1, <1>3 DEF Tickets, Event
      <3>2. f.ticket <= s.enqueued + 1
        BY <1>3
      <3> HIDE DEF f
      <3>3. \A x \in queue' : x.ticket <= s.enqueued + 1
        BY <2>1, <3>1, <3>2
      <3> QED
        BY <2>4, <3>3 DEF Tickets
    <2> HIDE DEF n, m, d, z, f
    <2>6. Accounted(stats)' = Accounted(s) + z
      BY <1>1, <1>2, <1>5, <2>2, <2>3, <2>4 DEF Accounted, Counters, n, m
    <2> QED
      BY <2>4, <2>5, <2>6 DEF z
  <1>7. CASE EvictOldest(t, e, s)
    <2>1. PICK v \in queue : queue' = (queue \ {v}) \cup {f}
      BY <1>7 DEF EvictOldest, Droppable
    <2>2. IsFiniteSet(queue \ {v}) /\ Cardinality(queue \ {v}) = n - 1
      BY <1>1, FS_RemoveElement
    <2>3. Cardinality(queue') = (n - 1) + 1
      BY <1>4, <2>1, <2>2, FS_AddElement
    <2>4. Cardinality(Suspended') = m - d
      BY <1>7, SuspendedLeaves DEF EvictOldest, Accepted
    <2>5. /\ stats'.enqueued = s.enqueued + 1 /\ stats'.emitCalls = s.emitCalls
          /\ stats'.attempts = s.attempts /\ stats'.oldest = s.oldest + 1
          /\ stats'.newest = s.newest /\ stats'.stop = s.stop
      BY <1>7 DEF EvictOldest, Counters
    <2>6. Tickets'
      <3>1. \A x \in queue : x.ticket <= s.enqueued + 1
        BY <1>1, <1>3 DEF Tickets, Event
      <3>2. f.ticket <= s.enqueued + 1
        BY <1>3
      <3> HIDE DEF f
      <3>3. \A x \in queue' : x.ticket <= s.enqueued + 1
        BY <2>1, <3>1, <3>2
      <3> QED
        BY <2>5, <3>3 DEF Tickets
    <2> HIDE DEF n, m, d, z, f
    <2>7. Accounted(stats)' = Accounted(s) + z
      BY <1>1, <1>2, <1>5, <2>3, <2>4, <2>5 DEF Accounted, Counters, n, m
    <2> QED
      BY <2>5, <2>6, <2>7 DEF z
  <1>8. CASE WaitForSpace(t, e, s)
    <2>1. queue' = queue /\ stats' = s
      BY <1>8 DEF WaitForSpace
    <2>2. Cardinality(Suspended') = m + z
      BY <1>8, SuspendedJoins DEF WaitForSpace
    <2> HIDE DEF n, m, d, z, f
    <2>3. Accounted(stats)' = Accounted(s) + z
      BY <1>1, <1>2, <1>5, <2>1, <2>2 DEF Accounted, Counters, n, m
    <2> QED
      BY <2>1, <2>3 DEF z, Tickets
  <1>9. CASE DropNewest(t, e, s)
    <2>1. queue' = queue
      BY <1>9 DEF DropNewest
    <2>2. Cardinality(Suspended') = m - d
      BY <1>9, SuspendedLeaves DEF DropNewest, Refused
    <2>3. /\ stats'.enqueued = s.enqueued /\ stats'.emitCalls = s.emitCalls
          /\ stats'.attempts = s.attempts /\ stats'.oldest = s.oldest
          /\ stats'.newest = s.newest + 1 /\ stats'.stop = s.stop
      BY <1>9 DEF DropNewest, Counters
    <2> HIDE DEF n, m, d, z, f
    <2>4. Accounted(stats)' = Accounted(s) + z
      BY <1>1, <1>2, <1>5, <2>1, <2>2, <2>3 DEF Accounted, Counters, n, m
    <2> QED
      BY <2>1, <2>3, <2>4 DEF z, Tickets
  <1>10. CASE DropInStopPhase(t, s)
    <2>1. queue' = queue
      BY <1>10 DEF DropInStopPhase
    <2>2. Cardinality(Suspended') = m - d
      BY <1>10, SuspendedLeaves DEF DropInStopPhase, Refused
    <2>3. /\ stats'.enqueued = s.enqueued /\ stats'.emitCalls = s.emitCalls
          /\ stats'.attempts = s.attempts /\ stats'.oldest = s.oldest
          /\ stats'.newest = s.newest /\ stats'.stop = s.stop + 1
      BY <1>10 DEF DropInStopPhase, Counters
    <2> HIDE DEF n, m, d, z, f
    <2>4. Accounted(stats)' = Accounted(s) + z
      BY <1>1, <1>2, <1>5, <2>1, <2>2, <2>3 DEF Accounted, Counters, n, m
    <2> QED
      BY <2>1, <2>3, <2>4 DEF z, Tickets
  <1> QED
    BY <1>6, <1>7, <1>8, <1>9, <1>10 DEF Enqueue

\* The accounting equation before and after a step, in terms of Accounted.
LEMMA Balance ==
  /\ EveryEmitAccountedFor
       <=> stats.emitCalls + ghost.direct
             = Accounted(stats) + ghost.cancelled + ghost.abandoned
  /\ EveryEmitAccountedFor'
       <=> stats'.emitCalls + ghost'.direct
             = Accounted(stats)' + ghost'.cancelled + ghost'.abandoned
  BY DEF EveryEmitAccountedFor, Accounted, Suspended

\* The types of its terms.
LEMMA BalanceType ==
  ASSUME TypeOK
  PROVE  /\ stats \in Counters
         /\ Cardinality(queue) \in Nat /\ Cardinality(Suspended) \in Nat
         /\ Accounted(stats) \in Nat
         /\ ghost.direct \in Nat /\ ghost.cancelled \in Nat /\ ghost.abandoned \in Nat
  <1>1. stats \in Counters /\ ghost \in History
    BY DEF TypeOK
  <1>2. Cardinality(queue) \in Nat /\ Cardinality(Suspended) \in Nat
    BY SuspendedFinite, FS_CardinalityType DEF TypeOK
  <1> QED
    BY <1>1, <1>2 DEF Accounted, Counters, History

\* A call of emit() or emit_and_wait() from a running task is accounted for.
LEMMA EmitAccounts ==
  ASSUME TypeOK, Tickets, EveryEmitAccountedFor, NEW t \in Tasks, NEW e \in Event, NEW below,
         pc[t] = "run", Emit(t, e, below)
  PROVE  EveryEmitAccountedFor' /\ Tickets'
  <1>1. stats \in Counters /\ ghost \in History
    BY DEF TypeOK
  <1>2. t \notin Suspended
    BY DEF Suspended, Blocked, Woken
  <1>n. /\ stats \in Counters
        /\ Cardinality(queue) \in Nat /\ Cardinality(Suspended) \in Nat
        /\ Accounted(stats) \in Nat
        /\ ghost.direct \in Nat /\ ghost.cancelled \in Nat /\ ghost.abandoned \in Nat
    BY BalanceType
  <1>3. CASE EmitInline(t, e, below)
    <2>1. /\ stats'.enqueued = stats.enqueued /\ stats'.emitCalls = stats.emitCalls + 1
          /\ stats'.attempts = stats.attempts + 1 /\ stats'.oldest = stats.oldest
          /\ stats'.newest = stats.newest /\ stats'.stop = stats.stop
      BY <1>1, <1>3, InlineCounts
    <2>2. queue' = queue
      BY <1>3 DEF EmitInline
    <2>3. Suspended' = Suspended
      BY <1>3, SuspendedKeeps DEF EmitInline
    <2>4. /\ ghost'.direct = ghost.direct /\ ghost'.cancelled = ghost.cancelled
          /\ ghost'.abandoned = ghost.abandoned
      BY <1>1, <1>3 DEF EmitInline, History
    <2>5. Accounted(stats)' = Accounted(stats) + 1
      BY <1>n, <2>1, <2>2, <2>3 DEF Accounted, Counters
    <2>6. EveryEmitAccountedFor'
      BY <1>n, <2>1, <2>4, <2>5, Balance DEF Counters
    <2> QED
      BY <2>1, <2>2, <2>6 DEF Tickets
  <1>4. CASE EmitToQueue(t, e, below)
    <2> DEFINE s == Called(e)
    <2>1. /\ s \in Counters /\ s.emitCalls = stats.emitCalls + 1
          /\ s.enqueued = stats.enqueued
          /\ s.attempts = stats.attempts /\ s.oldest = stats.oldest
          /\ s.newest = stats.newest /\ s.stop = stats.stop
      BY <1>1, CalledType
    <2>2. Enqueue(t, e, s) /\ ghost' = ghost
      BY <1>4 DEF EmitToQueue
    <2> HIDE DEF s
    <2>3. /\ Accounted(stats)' = Accounted(s) + 1
          /\ stats'.emitCalls = s.emitCalls
          /\ Tickets'
      BY <1>2, <2>1, <2>2, EnqueueAccounts
    <2>4. Accounted(s) = Accounted(stats)
      BY <2>1 DEF Accounted
    <2>5. EveryEmitAccountedFor'
      BY <1>n, <2>1, <2>2, <2>3, <2>4, Balance DEF Counters
    <2> QED
      BY <2>3, <2>5
  <1> QED
    BY <1>3, <1>4 DEF Emit

\* So is what a stop that does not wait drops from the queue.
LEMMA StopAccounts ==
  ASSUME TypeOK, Tickets, EveryEmitAccountedFor, StopWithoutWaiting
  PROVE  EveryEmitAccountedFor' /\ Tickets'
  <1>1. stats \in Counters /\ ghost \in History /\ ghost' = ghost
    BY DEF TypeOK, StopWithoutWaiting
  <1>n. /\ stats \in Counters
        /\ Cardinality(queue) \in Nat /\ Cardinality(Suspended) \in Nat
        /\ Accounted(stats) \in Nat
        /\ ghost.direct \in Nat /\ ghost.cancelled \in Nat /\ ghost.abandoned \in Nat
    BY BalanceType
  <1>2. Suspended' = Suspended
    BY SuspendedKeeps DEF StopWithoutWaiting
  <1>3. CASE worker = "none"
    BY <1>1, <1>2, <1>3 DEF StopWithoutWaiting, EveryEmitAccountedFor, Tickets, Suspended
  <1>4. CASE worker # "none"
    <2>1. queue' = {} /\ Cardinality(queue') = 0
      BY <1>4, FS_EmptySet DEF StopWithoutWaiting
    <2>2. /\ stats'.emitCalls = stats.emitCalls
          /\ stats'.attempts = stats.attempts /\ stats'.oldest = stats.oldest
          /\ stats'.newest = stats.newest /\ stats'.stop = stats.stop + Cardinality(queue)
      BY <1>1, <1>4 DEF StopWithoutWaiting, Counters
    <2>3. Accounted(stats)' = Accounted(stats)
      BY <1>n, <1>2, <2>1, <2>2 DEF Accounted, Counters
    <2>4. EveryEmitAccountedFor'
      BY <1>1, <2>2, <2>3, Balance
    <2> QED
      BY <2>1, <2>4 DEF Tickets
  <1> QED
    BY <1>3, <1>4

\* A step that leaves the queue, the counters and the history alone and only
\* notifies keeps the accounts.
LEMMA QuietAccounts ==
  ASSUME TypeOK, Tickets, EveryEmitAccountedFor, queue' = queue, stats' = stats,
         /\ ghost'.direct = ghost.direct /\ ghost'.cancelled = ghost.cancelled
         /\ ghost'.abandoned = ghost.abandoned,
         Suspended' = Suspended
  PROVE  EveryEmitAccountedFor' /\ Tickets'
  <1>1. Accounted(stats)' = Accounted(stats)
    BY DEF Accounted
  <1> QED
    BY <1>1, Balance DEF Tickets

LEMMA AccountStep ==
  TypeOK /\ Tickets /\ EveryEmitAccountedFor /\ [Next]_vars
    => Tickets' /\ EveryEmitAccountedFor'
  <1> SUFFICES ASSUME TypeOK, Tickets, EveryEmitAccountedFor, [Next]_vars
               PROVE  EveryEmitAccountedFor' /\ Tickets'
    OBVIOUS
  <1>n. /\ stats \in Counters
        /\ Cardinality(queue) \in Nat /\ Cardinality(Suspended) \in Nat
        /\ Accounted(stats) \in Nat
        /\ ghost.direct \in Nat /\ ghost.cancelled \in Nat /\ ghost.abandoned \in Nat
    BY BalanceType
  <1>g. ghost \in History
    BY DEF TypeOK
  <1>q. IsFiniteSet(queue)
    BY DEF TypeOK
  <1>k. /\ \A t \in Tasks, k \in Kinds : NewEvent(t, k, "data") \in Event
        /\ \A t \in Tasks : ControlEvent(t) \in Event
        /\ Producers \subseteq Tasks
    BY NewEventType, KindAssumption DEF ControlEvent, Controls, Plain, KindSet, Tasks
  <1>1. ASSUME NEW t \in Tasks,
               ProducerEmits(t) \/ HandlerEmits(t) \/ InlineHandlerFails(t)
        PROVE  EveryEmitAccountedFor' /\ Tickets'
    BY <1>1, <1>k, EmitAccounts DEF ProducerEmits, HandlerEmits, InlineHandlerFails, InHandler
  <1>2. ASSUME NEW t \in Tasks, ProducerRetries(t) PROVE EveryEmitAccountedFor' /\ Tickets'
    <2>1. call[t] \in Event /\ Enqueue(t, call[t], stats) /\ ghost' = ghost
      BY <1>2 DEF ProducerRetries, TypeOK
    <2>2. t \in Suspended
      BY <1>2 DEF ProducerRetries, Suspended, Woken
    <2>3. /\ Accounted(stats)' = Accounted(stats) + 0
          /\ stats'.emitCalls = stats.emitCalls
          /\ Tickets'
      BY <1>n, <2>1, <2>2, EnqueueAccounts
    <2> QED
      BY <1>n, <2>1, <2>3, Balance
  <1>3. CASE WorkerTakes
    <2>1. PICK e \in queue : queue' = queue \ {e} /\ ghost' = [ghost EXCEPT !.begun[e.task] = e.id]
      BY <1>3 DEF WorkerTakes
    <2>2. Cardinality(queue') = Cardinality(queue) - 1
      BY <1>q, <2>1, FS_RemoveElement
    <2>3. /\ stats'.enqueued = stats.enqueued /\ stats'.emitCalls = stats.emitCalls
          /\ stats'.attempts = stats.attempts + 1 /\ stats'.oldest = stats.oldest
          /\ stats'.newest = stats.newest /\ stats'.stop = stats.stop
      BY <1>n, <1>3 DEF WorkerTakes, Counters
    <2>4. Suspended' = Suspended
      BY <1>3, SuspendedKeeps DEF WorkerTakes
    <2>5. Accounted(stats)' = Accounted(stats)
      BY <1>n, <2>2, <2>3, <2>4 DEF Accounted, Counters
    <2>6. /\ ghost'.direct = ghost.direct /\ ghost'.cancelled = ghost.cancelled
          /\ ghost'.abandoned = ghost.abandoned
      BY <1>g, <2>1 DEF History
    <2> QED
      BY <2>1, <2>3, <2>5, <2>6, Balance DEF Tickets
  <1>4. CASE WorkerAborts
    <2>1. Cardinality(queue') = 0 /\ queue' = {} /\ stats' = stats
      BY <1>4, FS_EmptySet DEF WorkerAborts
    <2>2. Suspended' = Suspended
      BY <1>4, SuspendedKeeps DEF WorkerAborts
    <2>3. Accounted(stats)' + Cardinality(queue) = Accounted(stats)
      BY <1>n, <2>1, <2>2 DEF Accounted, Counters
    <2>4. /\ ghost'.direct = ghost.direct /\ ghost'.cancelled = ghost.cancelled
          /\ ghost'.abandoned = ghost.abandoned + Cardinality(queue)
      BY <1>g, <1>4 DEF WorkerAborts, History
    <2>5. Accounted(stats)' \in Int
      BY <1>n, <2>1, <2>2 DEF Accounted, Counters
    <2> QED
      BY <1>n, <2>1, <2>3, <2>4, <2>5, Balance DEF Tickets
  <1>5. ASSUME NEW t \in Tasks, CancelBlocked(t) PROVE EveryEmitAccountedFor' /\ Tickets'
    <2> DEFINE gone == [pc EXCEPT ![t] = "run"]
    <2>1. queue' = queue /\ stats' = stats
      BY <1>5 DEF CancelBlocked
    <2>2. t \in Suspended
      BY <1>5 DEF CancelBlocked, Suspended, Blocked, Woken
    <2>3. Suspended' = Suspended \ {t}
      <3>1. CASE pc' = gone
        BY <3>1 DEF Suspended, Blocked, Woken, TypeOK
      <3>2. CASE NotifyNotFull(gone)
        <4>1. pc' = gone \/ \E w \in {x \in Tasks : gone[x] = "blocked"} :
                                pc' = [gone EXCEPT ![w] = "woken"]
          BY <3>2 DEF NotifyNotFull
        <4>2. ASSUME NEW w \in Tasks, gone[w] = "blocked", pc' = [gone EXCEPT ![w] = "woken"]
              PROVE  Suspended' = Suspended \ {t}
          BY <4>2 DEF Suspended, Blocked, Woken, TypeOK
        <4> QED
          BY <3>1, <4>1, <4>2
      <3> QED
        BY <1>5, <3>1, <3>2 DEF CancelBlocked
    <2>4. Cardinality(Suspended') = Cardinality(Suspended) - 1
      BY <2>2, <2>3, SuspendedFinite, FS_RemoveElement
    <2>5. Accounted(stats)' = Accounted(stats) - 1
      BY <1>n, <2>1, <2>4 DEF Accounted, Counters
    <2>6. /\ ghost'.direct = ghost.direct /\ ghost'.cancelled = ghost.cancelled + 1
          /\ ghost'.abandoned = ghost.abandoned
      BY <1>g, <1>5 DEF CancelBlocked, History
    <2> QED
      BY <1>n, <2>1, <2>5, <2>6, Balance DEF Tickets
  <1>6. ASSUME NEW t \in Tasks, BarrierReturns(t) \/ CancelBarrier(t)
        PROVE  EveryEmitAccountedFor' /\ Tickets'
    <2>1. queue' = queue /\ stats' = stats /\ ghost' = ghost
      BY <1>6 DEF BarrierReturns, CancelBarrier
    <2>2. Suspended' = Suspended
      BY <1>6 DEF BarrierReturns, CancelBarrier, Suspended, Blocked, Woken, TypeOK
    <2> QED
      BY <2>1, <2>2, QuietAccounts
  <1>7. ASSUME NEW t \in Tasks, HandlerReturns(t) PROVE EveryEmitAccountedFor' /\ Tickets'
    <2>1. queue' = queue /\ stats' = stats /\ pc' = pc
      BY <1>7 DEF HandlerReturns
    <2>2. /\ ghost'.direct = ghost.direct /\ ghost'.cancelled = ghost.cancelled
          /\ ghost'.abandoned = ghost.abandoned
      BY <1>g, <1>7 DEF HandlerReturns, CloseContext, History
    <2> QED
      BY <2>1, <2>2, SuspendedKeeps, QuietAccounts
  <1>8. ASSUME NEW t \in Tasks, HandlerFailsQuietly(t) PROVE EveryEmitAccountedFor' /\ Tickets'
    <2>1. queue' = queue /\ pc' = pc
      BY <1>8 DEF HandlerFailsQuietly
    <2>2. /\ ghost'.direct = ghost.direct /\ ghost'.cancelled = ghost.cancelled
          /\ ghost'.abandoned = ghost.abandoned
      BY <1>g, <1>8 DEF HandlerFailsQuietly, CloseContext, History
    <2>3. /\ stats'.enqueued = stats.enqueued /\ stats'.emitCalls = stats.emitCalls
          /\ stats'.attempts = stats.attempts /\ stats'.oldest = stats.oldest
          /\ stats'.newest = stats.newest /\ stats'.stop = stats.stop
      BY <1>n, <1>8 DEF HandlerFailsQuietly, Counters
    <2>4. Accounted(stats)' = Accounted(stats)
      BY <2>1, <2>3, SuspendedKeeps DEF Accounted
    <2> QED
      BY <2>1, <2>2, <2>3, <2>4, Balance DEF Tickets
  <1>9. CASE WorkerHandlerFails
    <2>1. queue' = queue /\ pc' = pc
      BY <1>9 DEF WorkerHandlerFails
    <2>2. /\ ghost'.direct = ghost.direct + 1 /\ ghost'.cancelled = ghost.cancelled
          /\ ghost'.abandoned = ghost.abandoned
      BY <1>g, <1>9 DEF WorkerHandlerFails, History
    <2>3. /\ stats'.enqueued = stats.enqueued /\ stats'.emitCalls = stats.emitCalls
          /\ stats'.attempts = stats.attempts + 1 /\ stats'.oldest = stats.oldest
          /\ stats'.newest = stats.newest /\ stats'.stop = stats.stop
      BY <1>n, <1>9 DEF WorkerHandlerFails, Counters
    <2>4. Suspended' = Suspended
      BY <2>1, SuspendedKeeps
    <2>5. Accounted(stats)' = Accounted(stats) + 1
      BY <1>n, <2>1, <2>3, <2>4 DEF Accounted, Counters
    <2>6. stats.emitCalls \in Nat
      BY <1>n DEF Counters
    <2> QED
      BY <1>n, <2>1, <2>2, <2>3, <2>5, <2>6, Balance DEF Tickets
  <1>10. ASSUME NEW c \in Controllers, NEW r \in Tasks, DropQueuedEventsForResource(c, r)
         PROVE  EveryEmitAccountedFor' /\ Tickets'
    <2> DEFINE dropped == {e \in queue : e.bytes /\ e.res = r}
    <2>1. queue' = queue \ dropped /\ pc' = AllWoken /\ ghost' = ghost
      BY <1>10 DEF DropQueuedEventsForResource
    <2>2. /\ Cardinality(queue') = Cardinality(queue) - Cardinality(dropped)
          /\ Cardinality(dropped) \in Nat
      <3>1. queue \cap dropped = dropped /\ dropped \in SUBSET queue
        OBVIOUS
      <3>2. Cardinality(queue \ dropped) = Cardinality(queue) - Cardinality(queue \cap dropped)
        BY <1>q, FS_Difference
      <3>3. IsFiniteSet(dropped)
        BY <1>q, <3>1, FS_Subset
      <3> HIDE DEF dropped
      <3> QED
        BY <2>1, <3>1, <3>2, <3>3, FS_CardinalityType
    <2>3. stats' = [stats EXCEPT !.stop = @ + Cardinality(dropped)]
      BY <1>10 DEF DropQueuedEventsForResource
    <2>4. Suspended' = Suspended
      BY <2>1, SuspendedKeeps
    <2> HIDE DEF dropped
    <2>5. /\ stats'.enqueued = stats.enqueued /\ stats'.emitCalls = stats.emitCalls
          /\ stats'.attempts = stats.attempts /\ stats'.oldest = stats.oldest
          /\ stats'.newest = stats.newest /\ stats'.stop = stats.stop + Cardinality(dropped)
      BY <1>n, <2>3 DEF Counters
    <2>6. Accounted(stats)' = Accounted(stats)
      BY <1>n, <2>2, <2>4, <2>5 DEF Accounted, Counters
    <2> QED
      BY <2>1, <2>5, <2>6, Balance DEF Tickets
  <1>11. ASSUME UNCHANGED <<queue, stats, ghost>>, pc' = pc \/ pc' = AllWoken
         PROVE  EveryEmitAccountedFor' /\ Tickets'
    BY <1>11, SuspendedKeeps, QuietAccounts
  <1>12. CASE StopWithoutWaiting
    BY <1>12, StopAccounts
  <1>13. ASSUME NEW t \in Tasks, HandlerStops(t) \/ StopCallback(t)
         PROVE  EveryEmitAccountedFor' /\ Tickets'
    BY <1>11, <1>12, <1>13 DEF HandlerStops, StopCallback
  <1>14. CASE WorkerSleeps \/ WorkerExits
    BY <1>11, <1>14 DEF WorkerSleeps, WorkerExits
  <1>15. ASSUME NEW c \in Controllers,
                \/ Start(c) \/ StopCalled(c) \/ StopCancelled(c) \/ StopReturns(c)
                \/ StopFromHandlerOrigin(c) \/ HandlerContextRecheck(c)
                \/ \E r \in Tasks : WaitForHandlerContext(c, r)
         PROVE  EveryEmitAccountedFor' /\ Tickets'
    BY <1>11, <1>12, <1>15 DEF Start, StopCalled, StopCancelled, StopReturns,
       StopFromHandlerOrigin, HandlerContextRecheck, WaitForHandlerContext
  <1>16. CASE UNCHANGED vars
    BY <1>11, <1>16 DEF vars
  <1> QED
    BY <1>k, <1>1, <1>2, <1>3, <1>4, <1>5, <1>6, <1>7, <1>8, <1>9, <1>10, <1>13, <1>14,
       <1>15, <1>16
    DEF Next, WorkerLoop, HandlerStep, ProducerStep, ControllerStep

\* The balance, and fresh tickets, in every state.
LEMMA AccountsInvariant == Spec => [](Tickets /\ EveryEmitAccountedFor)
  <1>1. Init => Tickets /\ EveryEmitAccountedFor
    <2> SUFFICES ASSUME Init PROVE Tickets /\ EveryEmitAccountedFor
      OBVIOUS
    <2>1. Blocked \cup Woken = {} /\ queue = {} /\ Cardinality({}) = 0
      BY FS_EmptySet DEF Init, Blocked, Woken
    <2>2. /\ stats.emitCalls = 0 /\ stats.attempts = 0 /\ stats.oldest = 0
          /\ stats.newest = 0 /\ stats.stop = 0
      BY DEF Init
    <2>3. ghost.direct = 0 /\ ghost.cancelled = 0 /\ ghost.abandoned = 0
      BY DEF Init
    <2> QED
      BY <2>1, <2>2, <2>3 DEF Tickets, EveryEmitAccountedFor
  <1> QED
    BY <1>1, TypeCorrect, AccountStep, PTL DEF Spec

\* The published counters account for every emit call exactly once, under
\* every policy, through stop, restart, cancellation, cleanup and worker abort.
THEOREM CountersAddUp == Spec => []EveryEmitAccountedFor
  BY AccountsInvariant, PTL
=============================================================================
