------------------------ MODULE EventDispatcherPromises ------------------------
(***************************************************************************)
(* What the dispatcher promises, for every number of producers and           *)
(* controllers, every queue size, policy and bound.  First, without aborting *)
(* workers: no wake-up of its two conditions is lost, emit_and_wait() never  *)
(* waits on an event nobody holds, and stop admits nothing.  Then, with and  *)
(* without: it implements the mailbox, its barriers tell the truth and no    *)
(* wake-up of wait_for_handler_context() is lost.                            *)
(***************************************************************************)
EXTENDS EventDispatcherProofs

\* What the worker's side needs: the worker is suspended only in its own loop,
\* and outside a delivery no handler context is open on it.
WorkerSide == /\ WorkerNeverWaitsOnItself
              /\ NoSleepingOnTheJob
              /\ worker # "busy" => stack[Worker] = <<>>

\* What the producers' side needs: a worker that is gone has left nothing to
\* wait for, and a producer it still owes a retry finds the queue closed.
Gone == worker = "none" => queue = {} /\ Blocked = {} /\ (~stopping => Woken = {})
ProducerSide == ~AllowAbort => StopReleasesProducers /\ Gone

\* What one pass of _enqueue() does to the state the conditions are about.
LEMMA EnqueueEffect ==
  ASSUME TypeOK, NEW t \in Tasks, NEW e, NEW s, Enqueue(t, e, s)
  PROVE  /\ \E p \in {"run", "await", "blocked"} :
              /\ pc' = [pc EXCEPT ![t] = p]
              /\ p = "blocked" => ~stopping /\ queue # {} /\ queue' = queue
         /\ \/ worker' = Roused /\ queue' # {} /\ ~stopping
            \/ worker' = worker /\ queue' = queue /\ (stopping \/ queue # {})
         /\ stopping => pc' = [pc EXCEPT ![t] = "run"]
  <1>1. CASE AppendEvent(t, e, s)
    BY <1>1 DEF AppendEvent, Accepting, Accepted
  <1>2. CASE EvictOldest(t, e, s)
    BY <1>2 DEF EvictOldest, Accepting, Accepted
  <1>3. CASE DropInStopPhase(t, s)
    BY <1>3 DEF DropInStopPhase, Accepting, Refused
  <1>4. ASSUME ~HasRoom PROVE queue # {}
    BY <1>4, FS_EmptySet, BoundAssumption DEF HasRoom
  <1>5. CASE WaitForSpace(t, e, s)
    BY <1>4, <1>5 DEF WaitForSpace, Accepting
  <1>6. CASE DropNewest(t, e, s)
    BY <1>4, <1>6 DEF DropNewest, Accepting, Refused
  <1> QED
    BY <1>1, <1>2, <1>3, <1>5, <1>6 DEF Enqueue

\* emit() delivers in the caller or passes through _enqueue().
LEMMA EmitEffect ==
  ASSUME TypeOK, NEW t \in Tasks, NEW e, NEW below, Emit(t, e, below)
  PROVE  /\ stopping' = stopping
         /\ \A u \in Tasks \ {t} : stack'[u] = stack[u]
         /\ \/ UNCHANGED <<worker, queue, pc>>
            \/ /\ stack' = [stack EXCEPT ![t] = below]
               /\ ~DeliversInline(t)
               /\ \E s : Enqueue(t, e, s)
  BY DEF Emit, EmitInline, EmitToQueue, TypeOK

-----------------------------------------------------------------------------
\* Every action keeps WorkerSide.
LEMMA WorkerSideStep == TypeOK /\ WorkerSide /\ [Next]_vars => WorkerSide'
  <1> SUFFICES ASSUME TypeOK, WorkerSide, [Next]_vars PROVE WorkerSide'
    OBVIOUS
  <1> USE DEF WorkerSide, WorkerNeverWaitsOnItself, NoSleepingOnTheJob
  <1>w. /\ Worker \in Tasks /\ Producers \subseteq Tasks /\ Worker \notin Producers
        /\ pc \in [Tasks -> Suspensions] /\ stack \in [Tasks -> Seq(Frame)]
        /\ worker \in WorkerStates
    BY TaskAssumption DEF Tasks, TypeOK
  <1>1. ASSUME NEW t \in Producers, ProducerEmits(t) \/ InlineHandlerFails(t) \/ HandlerEmits(t)
        PROVE  WorkerSide'
    <2>1. PICK e, below : Emit(t, e, below)
      BY <1>1 DEF ProducerEmits, InlineHandlerFails, HandlerEmits
    <2>2. stack'[Worker] = stack[Worker] /\ stopping' = stopping
      BY <1>w, <2>1, EmitEffect
    <2>3. CASE UNCHANGED <<worker, queue, pc>>
      BY <2>2, <2>3
    <2>4. ASSUME NEW s, Enqueue(t, e, s) PROVE WorkerSide'
      BY <1>w, <2>2, <2>4, EnqueueEffect DEF Roused
    <2> QED
      BY <1>w, <2>1, <2>3, <2>4, EmitEffect
  <1>2. CASE HandlerEmits(Worker)
    <2>1. worker = "busy"
      BY <1>2 DEF HandlerEmits, InHandler
    <2>2. PICK e : Emit(Worker, e, stack[Worker])
      BY <1>2 DEF HandlerEmits
    <2>3. CASE UNCHANGED <<worker, queue, pc>>
      BY <2>1, <2>3
    <2>4. ASSUME NEW s, Enqueue(Worker, e, s), ~DeliversInline(Worker) PROVE WorkerSide'
      <3>1. stopping
        BY <2>4 DEF DeliversInline
      <3> QED
        BY <1>w, <2>1, <2>4, <3>1, EnqueueEffect DEF Roused
    <2> QED
      BY <1>w, <2>2, <2>3, <2>4, EmitEffect
  <1>3. ASSUME NEW t \in Tasks, ProducerRetries(t) PROVE WorkerSide'
    <2>1. t # Worker /\ stack' = stack /\ stopping' = stopping /\ Enqueue(t, call[t], stats)
      BY <1>3 DEF ProducerRetries
    <2> QED
      BY <1>w, <2>1, EnqueueEffect DEF Roused
  <1>4. ASSUME NEW t \in Tasks, BarrierReturns(t) \/ CancelBarrier(t) PROVE WorkerSide'
    BY <1>w, <1>4 DEF BarrierReturns, CancelBarrier
  <1>5. ASSUME NEW t \in Tasks, CancelBlocked(t) PROVE WorkerSide'
    BY <1>w, <1>5 DEF CancelBlocked, NotifyNotFull
  <1>6. CASE WorkerTakes
    BY <1>w, <1>6 DEF WorkerTakes, NotifyNotFull
  <1>7. CASE WorkerSleeps \/ WorkerExits
    BY <1>7 DEF WorkerSleeps, WorkerExits
  <1>8. CASE WorkerAborts
    BY <1>w, <1>8 DEF WorkerAborts
  <1>9. ASSUME NEW t \in Tasks, HandlerReturns(t) \/ HandlerFailsQuietly(t) PROVE WorkerSide'
    <2>1. InHandler(t) /\ CloseContext(t) /\ UNCHANGED <<stopping, queue, pc>>
      BY <1>9 DEF HandlerReturns, HandlerFailsQuietly
    <2>2. CASE t # Worker
      BY <1>w, <2>1, <2>2 DEF CloseContext
    <2>3. CASE t = Worker
      <3>1. worker = "busy"
        BY <2>1, <2>3 DEF InHandler
      <3>2. Len(stack[Worker]) = 1 => Pop(stack[Worker]) = <<>>
        BY <1>w DEF Pop
      <3> QED
        BY <1>w, <2>1, <2>3, <3>1, <3>2 DEF CloseContext
    <2> QED
      BY <2>2, <2>3
  <1>10. CASE WorkerHandlerFails
    BY <1>w, <1>10 DEF WorkerHandlerFails, InHandler
  <1>11. ASSUME StopWithoutWaiting, NEW t \in Tasks, stack[t] # <<>>,
                \A u \in Tasks \ {t} : stack'[u] = stack[u]
         PROVE  WorkerSide'
    BY <1>w, <1>11 DEF StopWithoutWaiting, Roused, AllWoken
  <1>12. ASSUME NEW t \in Tasks, HandlerStops(t) \/ StopCallback(t) PROVE WorkerSide'
    <2>1. stack[t] # <<>> /\ \A u \in Tasks \ {t} : stack'[u] = stack[u]
      BY <1>w, <1>12 DEF HandlerStops, StopCallback, InHandler
    <2>2. CASE StopWithoutWaiting
      BY <1>11, <2>1, <2>2
    <2>3. CASE UNCHANGED <<worker, stopping, queue, pc>>
      BY <1>w, <2>1, <2>3
    <2> QED
      BY <1>12, <2>2, <2>3 DEF HandlerStops, StopCallback
  <1>13. ASSUME NEW c \in Controllers, StopFromHandlerOrigin(c) PROVE WorkerSide'
    BY <1>w, <1>13 DEF StopFromHandlerOrigin, StopWithoutWaiting, Roused, AllWoken
  <1>14. ASSUME NEW c \in Controllers, Start(c) \/ StopCalled(c) PROVE WorkerSide'
    BY <1>w, <1>14 DEF Start, StopCalled, Roused, AllWoken
  <1>15. ASSUME NEW c \in Controllers, NEW r \in Tasks, DropQueuedEventsForResource(c, r)
         PROVE  WorkerSide'
    BY <1>w, <1>15 DEF DropQueuedEventsForResource, AllWoken
  <1>16. CASE UNCHANGED <<worker, stopping, queue, pc, stack>>
    BY <1>16
  <1>17. ASSUME NEW c \in Controllers,
                \/ StopCancelled(c) \/ StopReturns(c) \/ HandlerContextRecheck(c)
                \/ \E r \in Tasks : WaitForHandlerContext(c, r)
         PROVE  WorkerSide'
    BY <1>16, <1>17 DEF StopCancelled, StopReturns, HandlerContextRecheck, WaitForHandlerContext
  <1>18. CASE UNCHANGED vars
    BY <1>16, <1>18 DEF vars
  <1>19. ASSUME NEW t \in Tasks, HandlerEmits(t) \/ InlineHandlerFails(t) PROVE WorkerSide'
    <2>1. t \in Producers \/ (t = Worker /\ HandlerEmits(Worker))
      BY <1>19 DEF InlineHandlerFails, Tasks
    <2> QED
      BY <1>1, <1>2, <1>19, <2>1
  <1> QED
    BY <1>w, <1>1, <1>3, <1>4, <1>5, <1>6, <1>7, <1>8, <1>9, <1>10, <1>12, <1>13, <1>14, <1>15,
       <1>17, <1>18, <1>19
    DEF Next, WorkerLoop, HandlerStep, ProducerStep, ControllerStep

\* Hence every reachable state has it.
LEMMA WorkerSideInvariant == Spec => []WorkerSide
  <1>1. Init => WorkerSide
    BY DEF Init, WorkerSide, WorkerNeverWaitsOnItself, NoSleepingOnTheJob, Tasks
  <1> QED
    BY <1>1, TypeCorrect, WorkerSideStep, PTL DEF Spec

\* The worker is never suspended in the dispatcher's own emit path, whatever
\* its handlers emit and however they fail: it cannot wait for itself.
THEOREM WorkerIsFree == Spec => []WorkerNeverWaitsOnItself
  BY WorkerSideInvariant, PTL DEF WorkerSide

\* No notification of _queue_not_empty is lost: a worker that sleeps has an
\* empty queue and no stop to notice.
THEOREM WorkerIsAwake == Spec => []NoSleepingOnTheJob
  BY WorkerSideInvariant, PTL DEF WorkerSide

-----------------------------------------------------------------------------
\* Every action keeps ProducerSide.
LEMMA ProducerSideStep == TypeOK /\ ProducerSide /\ [Next]_vars => ProducerSide'
  <1> SUFFICES ASSUME TypeOK, StopReleasesProducers, Gone, ~AllowAbort, [Next]_vars
               PROVE  (StopReleasesProducers /\ Gone)'
    BY DEF ProducerSide
  <1> DEFINE Goal == (StopReleasesProducers /\ Gone)'
  <1> USE DEF StopReleasesProducers, Gone, Blocked, Woken
  <1>w. /\ Worker \in Tasks /\ Producers \subseteq Tasks
        /\ pc \in [Tasks -> Suspensions] /\ worker \in WorkerStates /\ stopping \in BOOLEAN
    BY DEF Tasks, TypeOK
  <1>e. ASSUME NEW t \in Tasks, NEW e, NEW s, Enqueue(t, e, s), stopping' = stopping,
               worker = "none" => stopping
        PROVE  Goal
    <2>1. PICK p \in {"run", "await", "blocked"} :
            /\ pc' = [pc EXCEPT ![t] = p]
            /\ p = "blocked" => ~stopping /\ queue # {} /\ queue' = queue
      BY <1>e, EnqueueEffect
    <2>2. CASE stopping
      <3>1. /\ pc' = [pc EXCEPT ![t] = "run"]
            /\ worker' = worker /\ queue' = queue
        BY <1>e, <2>2, EnqueueEffect
      <3> QED
        BY <1>w, <1>e, <2>2, <3>1
    <2>3. CASE ~stopping
      <3>1. worker' = worker \/ worker' = Roused
        BY <1>e, EnqueueEffect
      <3>2. worker' # "none"
        BY <1>w, <1>e, <2>3, <3>1 DEF Roused
      <3> QED
        BY <1>e, <2>3, <3>2
    <2> QED
      BY <2>2, <2>3
  <1>n. CASE UNCHANGED <<worker, stopping, queue, pc>>
    BY <1>n
  <1>1. ASSUME NEW t \in Tasks, ProducerEmits(t) \/ InlineHandlerFails(t) \/ HandlerEmits(t)
        PROVE  Goal
    <2>1. PICK e, below : Emit(t, e, below)
      BY <1>1 DEF ProducerEmits, InlineHandlerFails, HandlerEmits
    <2>2. stopping' = stopping
      BY <2>1, EmitEffect
    <2>3. ASSUME NEW s, Enqueue(t, e, s), ~DeliversInline(t) PROVE Goal
      <3>1. worker = "none" => stopping
        BY <2>3 DEF DeliversInline
      <3> QED
        BY <1>e, <2>2, <2>3, <3>1
    <2>4. CASE UNCHANGED <<worker, queue, pc>>
      BY <1>n, <2>2, <2>4
    <2> QED
      BY <2>1, <2>3, <2>4, EmitEffect
  <1>2. ASSUME NEW t \in Tasks, ProducerRetries(t) PROVE Goal
    <2>1. Enqueue(t, call[t], stats) /\ stopping' = stopping /\ (worker = "none" => stopping)
      BY <1>2 DEF ProducerRetries
    <2> QED
      BY <1>e, <2>1
  <1>3. ASSUME NEW t \in Tasks, BarrierReturns(t) \/ CancelBarrier(t) PROVE Goal
    <2>1. UNCHANGED <<worker, stopping, queue>>
          /\ \E p \in {"run", "await_cancelled"} : pc' = [pc EXCEPT ![t] = p]
      BY <1>3 DEF BarrierReturns, CancelBarrier
    <2> QED
      BY <1>w, <2>1
  <1>4. ASSUME NEW t \in Tasks, CancelBlocked(t) PROVE Goal
    <2>1. UNCHANGED <<worker, stopping, queue>>
      BY <1>4 DEF CancelBlocked
    <2>2. worker = "none" => stopping
      BY <1>4 DEF CancelBlocked
    <2>3. \A u \in Tasks : pc'[u] = "blocked" => pc[u] = "blocked"
      BY <1>w, <1>4 DEF CancelBlocked, NotifyNotFull
    <2> QED
      BY <2>1, <2>2, <2>3
  <1>5. CASE WorkerTakes
    <2>1. worker' = "busy" /\ stopping' = stopping
      BY <1>5 DEF WorkerTakes
    <2>2. \A u \in Tasks : pc'[u] = "blocked" => pc[u] = "blocked"
      BY <1>w, <1>5 DEF WorkerTakes, NotifyNotFull
    <2> QED
      BY <2>1, <2>2
  <1>6. CASE WorkerSleeps \/ WorkerExits
    BY <1>6 DEF WorkerSleeps, WorkerExits
  <1>7. ASSUME NEW t \in Tasks, HandlerReturns(t) \/ HandlerFailsQuietly(t) PROVE Goal
    <2>1. CloseContext(t) /\ UNCHANGED <<stopping, queue, pc>>
      BY <1>7 DEF HandlerReturns, HandlerFailsQuietly
    <2>2. worker' = "ready" \/ worker' = worker
      BY <2>1 DEF CloseContext
    <2> QED
      BY <2>1, <2>2
  <1>8. CASE WorkerHandlerFails
    BY <1>8 DEF WorkerHandlerFails
  <1>9. ASSUME stopping' = TRUE, pc' = AllWoken, worker' = Roused, worker # "none" PROVE Goal
    BY <1>w, <1>9 DEF AllWoken, Roused
  <1>10. ASSUME stopping' = TRUE, worker = "none", UNCHANGED <<worker, queue, pc>> PROVE Goal
    BY <1>10
  <1>11. CASE StopWithoutWaiting
    BY <1>9, <1>10, <1>11 DEF StopWithoutWaiting
  <1>12. ASSUME NEW t \in Tasks, HandlerStops(t) \/ StopCallback(t) PROVE Goal
    BY <1>n, <1>11, <1>12 DEF HandlerStops, StopCallback
  <1>13. ASSUME NEW c \in Controllers, Start(c) PROVE Goal
    BY <1>13 DEF Start
  <1>14. ASSUME NEW c \in Controllers, StopCalled(c) PROVE Goal
    BY <1>9, <1>10, <1>14 DEF StopCalled
  <1>15. ASSUME NEW c \in Controllers, NEW r \in Tasks, DropQueuedEventsForResource(c, r)
         PROVE  Goal
    <2>1. UNCHANGED <<worker, stopping>> /\ pc' = AllWoken /\ queue # {}
      BY <1>15 DEF DropQueuedEventsForResource
    <2> QED
      BY <1>w, <2>1 DEF AllWoken
  <1>16. ASSUME NEW c \in Controllers,
                \/ StopFromHandlerOrigin(c) \/ StopCancelled(c) \/ StopReturns(c)
                \/ HandlerContextRecheck(c) \/ \E r \in Tasks : WaitForHandlerContext(c, r)
         PROVE  Goal
    BY <1>n, <1>11, <1>16 DEF StopFromHandlerOrigin, StopCancelled, StopReturns,
       HandlerContextRecheck, WaitForHandlerContext
  <1>17. CASE WorkerAborts
    BY <1>17 DEF WorkerAborts
  <1>18. CASE UNCHANGED vars
    BY <1>n, <1>18 DEF vars
  <1> QED
    BY <1>w, <1>1, <1>2, <1>3, <1>4, <1>5, <1>6, <1>7, <1>8, <1>12, <1>13, <1>14, <1>15, <1>16,
       <1>17, <1>18
    DEF Next, WorkerLoop, HandlerStep, ProducerStep, ControllerStep

\* Hence every reachable state has it.
LEMMA ProducerSideInvariant == Spec => []ProducerSide
  <1>1. Init => ProducerSide
    BY DEF Init, ProducerSide, StopReleasesProducers, Gone, Blocked, Woken
  <1> QED
    BY <1>1, TypeCorrect, ProducerSideStep, PTL DEF Spec

\* Unless a worker dies of a BaseException, stop() "release[s] blocked
\* producers", by any of its forms, and none blocks again before a restart.
THEOREM StopReleases == Spec => [](~AllowAbort => StopReleasesProducers)
  <1>1. ProducerSide => (~AllowAbort => StopReleasesProducers)
    BY DEF ProducerSide
  <1> QED
    BY <1>1, ProducerSideInvariant, PTL

\* Unless a worker dies of a BaseException, it ends with an empty queue and no
\* open handler context, and nothing is appended after it.
THEOREM WorkerLeavesNothing == Spec => [](~AllowAbort => NothingLeftBehind)
  <1>1. ProducerSide /\ WorkerSide => (~AllowAbort => NothingLeftBehind)
    BY DEF ProducerSide, WorkerSide, Gone, NothingLeftBehind
  <1> QED
    BY <1>1, ProducerSideInvariant, WorkerSideInvariant, PTL

-----------------------------------------------------------------------------
\* The space side: what a Condition that passes a cancelled wake-up on ensures.
SpaceSide == ~AllowAbort /\ ConditionRenotifies => NoLostSpaceWakeup

\* Every action keeps SpaceSide: whoever blocks does so on a queue that is not
\* empty, and whoever empties the queue notifies.
LEMMA SpaceSideStep ==
  TypeOK /\ ProducerSide /\ SpaceSide /\ [Next]_vars /\ ProducerSide' => SpaceSide'
  <1> SUFFICES ASSUME TypeOK, StopReleasesProducers, Gone, NoLostSpaceWakeup, ~AllowAbort,
                      ConditionRenotifies, [Next]_vars, StopReleasesProducers'
               PROVE  NoLostSpaceWakeup'
    BY DEF ProducerSide, SpaceSide
  <1> USE DEF StopReleasesProducers, NoLostSpaceWakeup, Blocked, Woken
  <1>w. Producers \subseteq Tasks /\ pc \in [Tasks -> Suspensions] /\ stopping \in BOOLEAN
    BY DEF Tasks, TypeOK
  <1>n. CASE UNCHANGED <<queue, pc>>
    BY <1>n
  <1>a. CASE pc' = AllWoken
    BY <1>w, <1>a DEF AllWoken
  <1>e. ASSUME NEW t \in Tasks, NEW e, NEW s, Enqueue(t, e, s), stopping' = stopping
        PROVE  NoLostSpaceWakeup'
    <2>1. queue' # {} \/ stopping
      BY <1>e, EnqueueEffect
    <2> QED
      BY <1>e, <2>1
  <1>1. ASSUME NEW t \in Tasks, ProducerEmits(t) \/ InlineHandlerFails(t) \/ HandlerEmits(t)
        PROVE  NoLostSpaceWakeup'
    <2>1. PICK e, below : Emit(t, e, below)
      BY <1>1 DEF ProducerEmits, InlineHandlerFails, HandlerEmits
    <2> QED
      BY <1>n, <1>e, <2>1, EmitEffect
  <1>2. ASSUME NEW t \in Tasks, ProducerRetries(t) PROVE NoLostSpaceWakeup'
    BY <1>e, <1>2 DEF ProducerRetries
  <1>3. ASSUME NEW t \in Tasks, BarrierReturns(t) \/ CancelBarrier(t) PROVE NoLostSpaceWakeup'
    <2>1. /\ queue' = queue
          /\ pc[t] \in {"await", "await_cancelled"}
          /\ \E p \in {"run", "await_cancelled"} : pc' = [pc EXCEPT ![t] = p]
      BY <1>3 DEF BarrierReturns, CancelBarrier
    <2> QED
      BY <1>w, <2>1
  <1>4. ASSUME NEW t \in Tasks, CancelBlocked(t) PROVE NoLostSpaceWakeup'
    <2> DEFINE gone == [pc EXCEPT ![t] = "run"]
    <2>1. NotifyNotFull(gone)
      BY <1>4 DEF CancelBlocked
    <2> QED
      BY <1>w, <2>1 DEF NotifyNotFull
  <1>5. CASE WorkerTakes
    <2>1. NotifyNotFull(pc)
      BY <1>5 DEF WorkerTakes
    <2> QED
      BY <1>w, <2>1 DEF NotifyNotFull
  <1>6. ASSUME NEW t \in Tasks, HandlerReturns(t) \/ HandlerFailsQuietly(t)
        PROVE  NoLostSpaceWakeup'
    BY <1>n, <1>6 DEF HandlerReturns, HandlerFailsQuietly
  <1>7. CASE WorkerSleeps \/ WorkerExits \/ WorkerHandlerFails
    BY <1>n, <1>7 DEF WorkerSleeps, WorkerExits, WorkerHandlerFails
  <1>8. CASE StopWithoutWaiting
    BY <1>n, <1>a, <1>8 DEF StopWithoutWaiting
  <1>9. ASSUME NEW t \in Tasks, HandlerStops(t) \/ StopCallback(t) PROVE NoLostSpaceWakeup'
    BY <1>n, <1>8, <1>9 DEF HandlerStops, StopCallback
  <1>10. ASSUME NEW c \in Controllers,
                \/ Start(c) \/ StopCalled(c) \/ StopFromHandlerOrigin(c) \/ StopCancelled(c)
                \/ StopReturns(c) \/ HandlerContextRecheck(c)
                \/ \E r \in Tasks : DropQueuedEventsForResource(c, r) \/ WaitForHandlerContext(c, r)
         PROVE  NoLostSpaceWakeup'
    BY <1>n, <1>a, <1>8, <1>10 DEF Start, StopCalled, StopFromHandlerOrigin, StopCancelled,
       StopReturns, HandlerContextRecheck, DropQueuedEventsForResource, WaitForHandlerContext
  <1>11. CASE WorkerAborts
    BY <1>11 DEF WorkerAborts
  <1>12. CASE UNCHANGED vars
    BY <1>n, <1>12 DEF vars
  <1> QED
    BY <1>w, <1>1, <1>2, <1>3, <1>4, <1>5, <1>6, <1>7, <1>9, <1>10, <1>11, <1>12
    DEF Next, WorkerLoop, HandlerStep, ProducerStep, ControllerStep

\* On a Condition that passes a cancelled waiter's notification on, no
\* notification of _queue_not_full is lost: while a producer is blocked, a pop
\* is still to come or another producer has been notified.
THEOREM SpaceIsAnnounced ==
  Spec => [](~AllowAbort /\ ConditionRenotifies => NoLostSpaceWakeup)
  <1>1. Init => SpaceSide
    BY DEF Init, SpaceSide, NoLostSpaceWakeup, Blocked
  <1>2. Spec => []SpaceSide
    BY <1>1, TypeCorrect, ProducerSideInvariant, SpaceSideStep, PTL DEF Spec
  <1> QED
    BY <1>2 DEF SpaceSide

-----------------------------------------------------------------------------
(***************************************************************************)
(* Barriers and the closed queue.                                           *)
(***************************************************************************)
\* A suspended call is about an event of its own task, and a pending future is
\* attached to the event of a call that awaits it.
Calls == \A t \in Tasks :
           /\ pc[t] # "run" => call[t].task = t
           /\ verdict[t] = "pending" => pc[t] \in {"await", "await_cancelled"} /\ call[t].wait

\* Settling the futures of S leaves only those pending that are not in S.
LEMMA SettledPending ==
  ASSUME NEW S, NEW o \in {"handled", "dropped", "failed"}, NEW u \in Tasks,
         Settled(S, o)[u] = "pending"
  PROVE  /\ verdict[u] = "pending"
         /\ \A e \in S : ~(e.wait /\ e.task = u)
  BY DEF Settled

\* One pass of _enqueue() for a call of t about an event of t.
LEMMA EnqueueCalls ==
  ASSUME TypeOK, Calls, NEW t \in Tasks, NEW e \in Event, NEW s \in Counters, e.task = t,
         pc[t] \in {"run", "woken"}, Enqueue(t, e, s)
  PROVE  Calls'
  <1> DEFINE f == [e EXCEPT !.ticket = s.enqueued + 1]
  <1>w. /\ pc \in [Tasks -> Suspensions] /\ call \in [Tasks -> Event]
        /\ verdict \in [Tasks -> Verdicts]
    BY DEF TypeOK
  <1>f. f.task = t /\ f.wait = e.wait
    BY DEF Event
  <1> HIDE DEF f
  <1>1. ASSUME Accepted(t, f), \A u \in Tasks \ {t} : verdict'[u] = "pending" => verdict[u] = "pending",
               verdict'[t] = (IF f.wait THEN "pending" ELSE "none")
        PROVE  Calls'
    BY <1>w, <1>f, <1>1 DEF Accepted, Calls
  <1>2. CASE AppendEvent(t, e, s)
    BY <1>w, <1>1, <1>2 DEF AppendEvent, f
  <1>3. CASE EvictOldest(t, e, s)
    <2>1. PICK v \in Droppable :
            verdict' = [Settled({v}, "dropped") EXCEPT ![t] = IF f.wait THEN "pending" ELSE "none"]
      BY <1>3 DEF EvictOldest, f
    <2>2. \A u \in Tasks \ {t} : verdict'[u] = "pending" => verdict[u] = "pending"
      BY <2>1, SettledPending DEF Settled
    <2>3. verdict'[t] = (IF f.wait THEN "pending" ELSE "none")
      BY <2>1 DEF Settled
    <2> QED
      BY <1>1, <1>3, <2>2, <2>3 DEF EvictOldest, f
  <1>4. CASE WaitForSpace(t, e, s)
    BY <1>w, <1>4 DEF WaitForSpace, Calls
  <1>5. CASE DropNewest(t, e, s) \/ DropInStopPhase(t, s)
    BY <1>w, <1>5 DEF DropNewest, DropInStopPhase, Refused, Calls
  <1> QED
    BY <1>2, <1>3, <1>4, <1>5 DEF Enqueue

\* It strands no barrier: what it evicts it also reports.
LEMMA EnqueueHolds ==
  ASSUME TypeOK, Calls, NoStrandedBarrier, NEW t \in Tasks, NEW e \in Event, NEW s \in Counters,
         e.task = t, pc[t] \in {"run", "woken"}, worker = "none" => stopping,
         current' = current, Enqueue(t, e, s)
  PROVE  NoStrandedBarrier'
  <1> DEFINE f == [e EXCEPT !.ticket = s.enqueued + 1]
  <1>w. /\ pc \in [Tasks -> Suspensions] /\ call \in [Tasks -> Event]
        /\ verdict \in [Tasks -> Verdicts] /\ worker \in WorkerStates
    BY DEF TypeOK
  <1> HIDE DEF f
  <1>1. CASE AppendEvent(t, e, s)
    <2>1. /\ worker # "none" /\ worker' = Roused /\ queue' = queue \cup {f} /\ Accepted(t, f)
          /\ verdict' = [verdict EXCEPT ![t] = IF f.wait THEN "pending" ELSE "none"]
      BY <1>1 DEF AppendEvent, Accepting, f
    <2> QED
      BY <1>w, <2>1 DEF Accepted, Roused, NoStrandedBarrier
  <1>2. CASE EvictOldest(t, e, s)
    <2>1. worker # "none" /\ worker' = Roused /\ Accepted(t, f)
      BY <1>2 DEF EvictOldest, Accepting, f
    <2>2. PICK v \in Droppable :
            /\ queue' = (queue \ {v}) \cup {f}
            /\ verdict' = [Settled({v}, "dropped") EXCEPT ![t] = IF f.wait THEN "pending" ELSE "none"]
      BY <1>2 DEF EvictOldest, f
    <2>3. ASSUME NEW u \in Tasks, u # t, verdict'[u] = "pending"
          PROVE  call'[u] \in queue' \/ (worker' = "busy" /\ current' = call'[u])
      <3>1. Settled({v}, "dropped")[u] = "pending"
        BY <2>2, <2>3 DEF Settled
      <3>2. verdict[u] = "pending" /\ ~(v.wait /\ v.task = u)
        BY <3>1, SettledPending
      <3>3. call[u] # v
        BY <3>2 DEF Calls
      <3>4. call'[u] = call[u]
        BY <1>w, <2>1, <2>3 DEF Accepted
      <3> QED
        BY <2>1, <2>2, <3>2, <3>3, <3>4 DEF NoStrandedBarrier, Roused
    <2>4. verdict'[t] = "pending" => call'[t] \in queue'
      BY <1>w, <2>1, <2>2 DEF Accepted, Settled
    <2>5. worker' # "none"
      BY <2>1 DEF Roused
    <2> QED
      BY <2>3, <2>4, <2>5 DEF NoStrandedBarrier
  <1>3. CASE WaitForSpace(t, e, s) \/ DropNewest(t, e, s) \/ DropInStopPhase(t, s)
    <2>1. verdict[t] # "pending"
      BY DEF Calls
    <2>2. UNCHANGED <<worker, queue, verdict>> /\ \A u \in Tasks \ {t} : call'[u] = call[u]
      BY <1>w, <1>3 DEF WaitForSpace, DropNewest, DropInStopPhase, Refused
    <2> QED
      BY <2>1, <2>2 DEF NoStrandedBarrier
  <1> QED
    BY <1>1, <1>2, <1>3 DEF Enqueue

\* An emit of a task that is not suspended.
LEMMA EmitCalls ==
  ASSUME TypeOK, Calls, NEW t \in Tasks, NEW e \in Event, NEW below, e.task = t,
         pc[t] = "run", Emit(t, e, below)
  PROVE  /\ Calls'
         /\ NoStrandedBarrier => NoStrandedBarrier'
  <1>1. CASE EmitInline(t, e, below)
    BY <1>1 DEF Emit, EmitInline, Calls, NoStrandedBarrier
  <1>2. CASE EmitToQueue(t, e, below)
    <2> DEFINE s == Called(e)
    <2>1. s \in Counters
      BY CalledType DEF TypeOK
    <2>2. Enqueue(t, e, s) /\ (worker = "none" => stopping) /\ current' = current
      BY <1>2 DEF EmitToQueue, DeliversInline, Emit
    <2> HIDE DEF s
    <2> QED
      BY <2>1, <2>2, EnqueueCalls, EnqueueHolds
  <1> QED
    BY <1>1, <1>2 DEF Emit

-----------------------------------------------------------------------------
\* Futures that are settled, or left alone, with the calls unchanged.
LEMMA SettlingCalls ==
  ASSUME TypeOK, Calls, call' = call,
         pc' = pc \/ pc' = AllWoken \/ NotifyNotFull(pc),
         verdict' = verdict \/ \E S : \E o \in {"handled", "dropped", "failed"} :
                                         verdict' = Settled(S, o)
  PROVE  Calls'
  <1>1. \A u \in Tasks : verdict'[u] = "pending" => verdict[u] = "pending"
    BY SettledPending
  <1>2. \A u \in Tasks : \/ pc'[u] = pc[u]
                         \/ pc[u] = "blocked" /\ pc'[u] = "woken"
    BY DEF TypeOK, AllWoken, NotifyNotFull
  <1> QED
    BY <1>1, <1>2 DEF Calls

\* Dropping queued events with their futures strands nobody.
LEMMA DroppingHolds ==
  ASSUME TypeOK, Calls, NoStrandedBarrier, NEW S \in SUBSET queue,
         queue' = queue \ S, verdict' = Settled(S, "dropped"),
         worker' = worker \/ worker' = Roused, UNCHANGED <<call, current>>
  PROVE  NoStrandedBarrier'
  <1> SUFFICES ASSUME NEW u \in Tasks, verdict'[u] = "pending"
               PROVE  /\ worker' # "none"
                      /\ call[u] \in queue' \/ (worker' = "busy" /\ current' = call[u])
    BY DEF NoStrandedBarrier
  <1>1. verdict[u] = "pending" /\ \A e \in S : ~(e.wait /\ e.task = u)
    BY SettledPending
  <1>2. call[u] \notin S
    BY <1>1 DEF Calls
  <1> QED
    BY <1>1, <1>2 DEF NoStrandedBarrier, Roused

\* The invariant that is inductive: a holder for every pending future, and calls
\* that are about their own task's event.
Held == (~AllowAbort => NoStrandedBarrier) /\ Calls

\* Every action keeps Held.
LEMMA HeldStep == TypeOK /\ WorkerSide /\ ProducerSide /\ Held /\ [Next]_vars => Held'
  <1> SUFFICES ASSUME TypeOK, WorkerSide, ProducerSide, Calls, ~AllowAbort => NoStrandedBarrier,
                      [Next]_vars
               PROVE  Calls' /\ (~AllowAbort => NoStrandedBarrier')
    BY DEF Held
  <1> DEFINE Goal == Calls' /\ (~AllowAbort => NoStrandedBarrier')
  <1>w. /\ Worker \in Tasks /\ Producers \subseteq Tasks
        /\ pc \in [Tasks -> Suspensions] /\ call \in [Tasks -> Event]
        /\ verdict \in [Tasks -> Verdicts] /\ worker \in WorkerStates
        /\ stats \in Counters /\ stopping \in BOOLEAN
    BY DEF Tasks, TypeOK
  <1>k. /\ \A t \in Tasks, k \in Kinds : NewEvent(t, k, "data") \in Event
        /\ \A t \in Tasks, k \in Kinds : NewEvent(t, k, "data").task = t
        /\ \A t \in Tasks : ControlEvent(t) \in Event /\ ControlEvent(t).task = t
    <2>1. \A t \in Tasks, k \in Kinds : NewEvent(t, k, "data") \in Event
      BY NewEventType, KindAssumption DEF Controls
    <2>2. \A t \in Tasks : ControlEvent(t) \in Event
      BY NewEventType DEF ControlEvent, Controls, Plain, KindSet
    <2> QED
      BY <2>1, <2>2 DEF ControlEvent, NewEvent
  <1>n. CASE UNCHANGED <<worker, queue, current, pc, call, verdict>>
    BY <1>n DEF Calls, NoStrandedBarrier
  <1>1. ASSUME NEW t \in Tasks, ProducerEmits(t) \/ HandlerEmits(t) \/ InlineHandlerFails(t)
        PROVE  Goal
    <2>1. PICK e \in Event : e.task = t /\ pc[t] = "run" /\ \E below : Emit(t, e, below)
      BY <1>k, <1>1 DEF ProducerEmits, HandlerEmits, InlineHandlerFails, InHandler
    <2> QED
      BY <2>1, EmitCalls
  <1>2. ASSUME NEW t \in Tasks, ProducerRetries(t) PROVE Goal
    <2>1. /\ call[t] \in Event /\ call[t].task = t /\ pc[t] = "woken"
          /\ Enqueue(t, call[t], stats) /\ current' = current
      BY <1>w, <1>2 DEF ProducerRetries, Calls
    <2>2. ~AllowAbort => (worker = "none" => stopping)
      BY <2>1 DEF ProducerSide, Gone, Woken
    <2> QED
      BY <1>w, <2>1, <2>2, EnqueueCalls, EnqueueHolds
  <1>3. ASSUME NEW t \in Tasks, BarrierReturns(t) PROVE Goal
    BY <1>w, <1>3 DEF BarrierReturns, Calls, NoStrandedBarrier
  <1>4. ASSUME NEW t \in Tasks, CancelBarrier(t) PROVE Goal
    BY <1>w, <1>4 DEF CancelBarrier, Calls, NoStrandedBarrier
  <1>5. ASSUME NEW t \in Tasks, CancelBlocked(t) PROVE Goal
    <2>1. /\ UNCHANGED <<worker, queue, current, verdict>>
          /\ call' = [call EXCEPT ![t] = NoCall]
          /\ pc[t] \in {"blocked", "woken"}
      BY <1>5 DEF CancelBlocked
    <2>2. /\ pc'[t] = "run"
          /\ \A u \in Tasks \ {t} : pc'[u] = pc[u] \/ (pc[u] = "blocked" /\ pc'[u] = "woken")
      BY <1>w, <1>5 DEF CancelBlocked, NotifyNotFull
    <2> QED
      BY <1>w, <2>1, <2>2 DEF Calls, NoStrandedBarrier
  <1>6. CASE WorkerTakes
    <2>1. Calls'
      BY <1>6, SettlingCalls DEF WorkerTakes
    <2>2. ASSUME NoStrandedBarrier PROVE NoStrandedBarrier'
      BY <1>6, <2>2 DEF WorkerTakes, NoStrandedBarrier
    <2> QED
      BY <2>1, <2>2
  <1>7. CASE WorkerSleeps \/ WorkerExits
    BY <1>7 DEF WorkerSleeps, WorkerExits, Calls, NoStrandedBarrier
  <1>8. CASE WorkerAborts
    <2>1. AllowAbort /\ call' = call /\ pc' = pc /\ verdict' = Settled({current} \cup queue, "failed")
      BY <1>8 DEF WorkerAborts
    <2> QED
      BY <2>1, SettlingCalls
  <1>9. ASSUME NEW t \in Tasks, HandlerReturns(t) \/ HandlerFailsQuietly(t) PROVE Goal
    <2>1. CloseContext(t) /\ InHandler(t) /\ UNCHANGED <<queue, pc, call>>
      BY <1>9 DEF HandlerReturns, HandlerFailsQuietly
    <2>2. CASE UNCHANGED <<worker, current, verdict>>
      BY <1>n, <2>1, <2>2
    <2>3. CASE /\ t = Worker /\ worker' = "ready" /\ verdict' = Settled({current}, "handled")
      <3>1. Calls'
        BY <2>1, <2>3, SettlingCalls
      <3>2. ASSUME NoStrandedBarrier, NEW u \in Tasks, verdict'[u] = "pending"
            PROVE  call[u] \in queue
        <4>1. verdict[u] = "pending" /\ ~(current.wait /\ current.task = u)
          BY <2>3, <3>2, SettledPending
        <4>2. call[u] # current
          BY <4>1 DEF Calls
        <4> QED
          BY <3>2, <4>1, <4>2 DEF NoStrandedBarrier
      <3> QED
        BY <2>1, <2>3, <3>1, <3>2 DEF NoStrandedBarrier
    <2> QED
      BY <2>1, <2>2, <2>3 DEF CloseContext
  <1>10. CASE WorkerHandlerFails
    BY <1>n, <1>10 DEF WorkerHandlerFails
  <1>11. CASE StopWithoutWaiting
    <2>1. CASE worker = "none"
      BY <1>n, <1>11, <2>1 DEF StopWithoutWaiting
    <2>2. CASE worker # "none"
      <3>1. /\ worker' = Roused /\ pc' = AllWoken /\ verdict' = Settled(queue, "dropped")
            /\ queue' = queue \ queue /\ UNCHANGED <<call, current>>
        BY <1>11, <2>2 DEF StopWithoutWaiting
      <3> QED
        BY <3>1, SettlingCalls, DroppingHolds
    <2> QED
      BY <2>1, <2>2
  <1>12. ASSUME NEW t \in Tasks, HandlerStops(t) \/ StopCallback(t) PROVE Goal
    BY <1>n, <1>11, <1>12 DEF HandlerStops, StopCallback
  <1>13. ASSUME NEW c \in Controllers, Start(c) PROVE Goal
    BY <1>13 DEF Start, Calls, NoStrandedBarrier
  <1>14. ASSUME NEW c \in Controllers, StopCalled(c) PROVE Goal
    <2>1. /\ UNCHANGED <<queue, current, call, verdict>>
          /\ worker' = worker \/ worker' = Roused
          /\ pc' = pc \/ pc' = AllWoken
      BY <1>14 DEF StopCalled
    <2> QED
      BY <2>1, SettlingCalls DEF NoStrandedBarrier, Roused
  <1>15. ASSUME NEW c \in Controllers, NEW r \in Tasks, DropQueuedEventsForResource(c, r)
         PROVE  Goal
    <2> DEFINE dropped == {e \in queue : e.bytes /\ e.res = r}
    <2>1. /\ queue' = queue \ dropped /\ verdict' = Settled(dropped, "dropped")
          /\ pc' = AllWoken /\ UNCHANGED <<worker, call, current>>
          /\ dropped \in SUBSET queue
      BY <1>15 DEF DropQueuedEventsForResource
    <2> HIDE DEF dropped
    <2> QED
      BY <2>1, SettlingCalls, DroppingHolds
  <1>16. ASSUME NEW c \in Controllers,
                \/ StopFromHandlerOrigin(c) \/ StopCancelled(c) \/ StopReturns(c)
                \/ HandlerContextRecheck(c) \/ \E r \in Tasks : WaitForHandlerContext(c, r)
         PROVE  Goal
    BY <1>n, <1>11, <1>16 DEF StopFromHandlerOrigin, StopCancelled, StopReturns,
       HandlerContextRecheck, WaitForHandlerContext
  <1>17. CASE UNCHANGED vars
    BY <1>n, <1>17 DEF vars
  <1> QED
    BY <1>w, <1>1, <1>2, <1>3, <1>4, <1>5, <1>6, <1>7, <1>8, <1>9, <1>10, <1>12, <1>13, <1>14,
       <1>15, <1>16, <1>17
    DEF Next, WorkerLoop, HandlerStep, ProducerStep, ControllerStep

\* Unless a worker dies of a BaseException, a pending emit_and_wait() always
\* has its event in the queue or in the hands of a live worker: eviction, both
\* forms of stop, cleanup and cancellation settle every future they orphan.
THEOREM BarriersAreHeld == Spec => [](~AllowAbort => NoStrandedBarrier)
  <1>1. Init => Held
    BY DEF Init, Held, Calls, NoStrandedBarrier
  <1>2. Spec => []Held
    BY <1>1, TypeCorrect, WorkerSideInvariant, ProducerSideInvariant, HeldStep, PTL DEF Spec
  <1>3. Held => (~AllowAbort => NoStrandedBarrier)
    BY DEF Held
  <1> QED
    BY <1>2, <1>3, PTL

-----------------------------------------------------------------------------
\* One pass of _enqueue() once stop has begun counts no admission.
LEMMA EnqueueRefuses ==
  ASSUME NEW t \in Tasks, NEW e, NEW s \in Counters, stopping, Enqueue(t, e, s)
  PROVE  stats'.enqueued = s.enqueued
  BY DEF Enqueue, AppendEvent, WaitForSpace, EvictOldest, DropNewest, DropInStopPhase,
         Accepting, Counters

\* Nor does an emit, in the caller or through the queue.
LEMMA EmitRefuses ==
  ASSUME TypeOK, NEW t \in Tasks, NEW e, NEW below, stopping, Emit(t, e, below)
  PROVE  stats'.enqueued = stats.enqueued
  <1>1. CASE EmitInline(t, e, below)
    BY <1>1, InlineCounts DEF TypeOK
  <1>2. CASE EmitToQueue(t, e, below)
    <2> DEFINE s == Called(e)
    <2>1. Enqueue(t, e, s)
      BY <1>2 DEF EmitToQueue
    <2>2. s \in Counters /\ s.enqueued = stats.enqueued
      BY CalledType DEF TypeOK
    <2> HIDE DEF s
    <2> QED
      BY <2>1, <2>2, EnqueueRefuses
  <1> QED
    BY <1>1, <1>2 DEF Emit

\* Every action other than start() keeps the number of admitted events.
LEMMA RefusingStep ==
  TypeOK /\ [Next]_vars => [stopping /\ stopping' => stats'.enqueued = stats.enqueued]_vars
  <1> SUFFICES ASSUME TypeOK, Next, stopping PROVE stats'.enqueued = stats.enqueued
    OBVIOUS
  <1>w. stats \in Counters /\ Producers \subseteq Tasks
    BY DEF TypeOK, Tasks
  <1>1. ASSUME NEW t \in Tasks, ProducerEmits(t) \/ HandlerEmits(t) \/ InlineHandlerFails(t)
        PROVE  stats'.enqueued = stats.enqueued
    BY <1>1, EmitRefuses DEF ProducerEmits, HandlerEmits, InlineHandlerFails
  <1>2. ASSUME NEW t \in Tasks, ProducerRetries(t) PROVE stats'.enqueued = stats.enqueued
    BY <1>w, <1>2, EnqueueRefuses DEF ProducerRetries
  <1>3. CASE UNCHANGED stats
    BY <1>3
  <1>4. CASE StopWithoutWaiting
    BY <1>w, <1>4 DEF StopWithoutWaiting, Counters
  <1>5. ASSUME NEW t \in Tasks,
               \/ BarrierReturns(t) \/ CancelBarrier(t) \/ CancelBlocked(t)
               \/ HandlerReturns(t) \/ StopCallback(t) \/ HandlerStops(t)
        PROVE  stats'.enqueued = stats.enqueued
    BY <1>3, <1>4, <1>5 DEF BarrierReturns, CancelBarrier, CancelBlocked, HandlerReturns,
       StopCallback, HandlerStops
  <1>6. ASSUME NEW t \in Tasks, HandlerFailsQuietly(t) PROVE stats'.enqueued = stats.enqueued
    BY <1>w, <1>6 DEF HandlerFailsQuietly, Counters
  <1>7. CASE WorkerHandlerFails
    BY <1>w, <1>7 DEF WorkerHandlerFails, Counters
  <1>8. CASE WorkerTakes
    BY <1>w, <1>8 DEF WorkerTakes, Counters
  <1>9. CASE WorkerSleeps \/ WorkerExits \/ WorkerAborts
    BY <1>3, <1>9 DEF WorkerSleeps, WorkerExits, WorkerAborts
  <1>10. ASSUME NEW c \in Controllers,
                \/ Start(c) \/ StopCalled(c) \/ StopCancelled(c) \/ StopFromHandlerOrigin(c)
                \/ ControllerStep(c) \/ \E r \in Tasks : WaitForHandlerContext(c, r)
         PROVE  stats'.enqueued = stats.enqueued
    BY <1>3, <1>4, <1>10 DEF Start, StopCalled, StopCancelled, StopFromHandlerOrigin,
       ControllerStep, StopReturns, HandlerContextRecheck, WaitForHandlerContext
  <1>11. ASSUME NEW c \in Controllers, NEW r \in Tasks, DropQueuedEventsForResource(c, r)
         PROVE  stats'.enqueued = stats.enqueued
    BY <1>w, <1>11 DEF DropQueuedEventsForResource, Counters
  <1> QED
    BY <1>w, <1>1, <1>2, <1>5, <1>6, <1>7, <1>8, <1>9, <1>10, <1>11
    DEF Next, WorkerLoop, HandlerStep, ProducerStep

\* Once stop has begun no event is admitted until the next start(), whoever
\* retries after the wake-up of stop and whatever a handler emits.
THEOREM StopAdmits == Spec => StopAdmitsNothing
  BY TypeCorrect, RefusingStep, PTL DEF Spec, StopAdmitsNothing

-----------------------------------------------------------------------------
(***************************************************************************)
(* Where a call and its future are, and what a settled future says.         *)
(***************************************************************************)

\* Only a busy worker has an event in its hands.
HandsFree == worker # "busy" => current = NoCall

Waits(t) == pc[t] \in {"await", "await_cancelled"}
Sleeps(t) == pc[t] \in {"blocked", "woken"}

\* A future that is attached to an event in the queue or in the worker's hands is
\* pending, and the call that awaits it is about that very event, which is in one
\* of the two places only.
Attached == /\ \A e \in queue \cup {current} :
                 e.wait => /\ Waits(e.task) /\ verdict[e.task] = "pending"
                           /\ call[e.task] = e
            /\ current.wait => current \notin queue

\* Calls are numbered: the numbers of a task's events in the queue, of its call
\* that has not been queued or was dropped, and of its last delivery differ.
Numbered ==
  /\ \A e \in queue : e.id <= stats.emitCalls /\ ghost.begun[e.task] # e.id
  /\ \A e, f \in queue : e.task = f.task /\ e.id = f.id => e = f
  /\ \A t \in Tasks :
       /\ call[t].id <= stats.emitCalls /\ ghost.begun[t] <= stats.emitCalls
       /\ Sleeps(t) => call[t].task = t
       /\ Sleeps(t) \/ verdict[t] = "dropped" =>
            /\ ghost.begun[t] # call[t].id
            /\ \A e \in queue : e.task = t => e.id # call[t].id

\* What a settled future says, and that there is none without a waiting call.
Truth == \A t \in Tasks : /\ ~Waits(t) => verdict[t] = "none"
                          /\ verdict[t] = "handled" => call[t].id \in ghost.finished

TruthInv == Attached /\ Numbered /\ Truth

-----------------------------------------------------------------------------
(***************************************************************************)
(* The mailbox.                                                             *)
(***************************************************************************)
\* The size of the mailbox is the length of the queue.
LEMMA SameSize == Box!Cardinality(queue) = Cardinality(queue)
  BY DEF Box!Cardinality, Cardinality

\* One pass of _enqueue() puts an event behind the others, or in the place of the
\* oldest that is not exempt, or leaves the mailbox alone.
LEMMA EnqueuePuts ==
  ASSUME TypeOK, Tickets, NEW t \in Tasks, NEW e \in Event, NEW s \in Counters,
         s.enqueued = stats.enqueued, Enqueue(t, e, s), UNCHANGED <<current, stopping>>
  PROVE  Box!MailboxNext \/ UNCHANGED Box!mailboxVars
  <1> DEFINE f == [e EXCEPT !.ticket = s.enqueued + 1]
  <1>1. f \in Event /\ f.ticket = s.enqueued + 1 /\ s.enqueued \in Nat
    BY DEF Event, Counters
  <1> HIDE DEF f
  <1>2. \A x \in queue : x.ticket < f.ticket
    <2>1. \A x \in queue : x.ticket \in Nat /\ x.ticket <= s.enqueued
      BY DEF Tickets, TypeOK, Event
    <2> QED
      BY <1>1, <2>1
  <1>3. f \notin queue
    BY <1>1, <1>2
  <1>4. CASE AppendEvent(t, e, s)
    <2>1. ~stopping /\ Cardinality(queue) < MaxPending /\ queue' = queue \cup {f}
      BY <1>4 DEF AppendEvent, Accepting, HasRoom, f
    <2>2. Box!Put(f)
      BY <1>2, <2>1, SameSize DEF Box!Put
    <2> QED
      BY <1>1, <1>3, <2>1, <2>2 DEF Box!MailboxNext
  <1>5. CASE EvictOldest(t, e, s)
    <2>1. PICK v \in Droppable : IsOldestOf(v, Droppable) /\ queue' = (queue \ {v}) \cup {f}
      BY <1>5 DEF EvictOldest, f
    <2>2. ~stopping
      BY <1>5 DEF EvictOldest, Accepting
    <2>3. Box!Replace(v, f) /\ v \in queue
      BY <1>2, <2>1, <2>2 DEF Box!Replace, Droppable, IsOldestOf
    <2> QED
      BY <1>1, <1>3, <2>1, <2>3 DEF Box!MailboxNext
  <1>6. CASE WaitForSpace(t, e, s) \/ DropNewest(t, e, s) \/ DropInStopPhase(t, s)
    BY <1>6 DEF WaitForSpace, DropNewest, DropInStopPhase, Box!mailboxVars
  <1> QED
    BY <1>4, <1>5, <1>6 DEF Enqueue

\* So does an emit.
LEMMA EmitPuts ==
  ASSUME TypeOK, Tickets, NEW t \in Tasks, NEW e \in Event, NEW below, Emit(t, e, below)
  PROVE  Box!MailboxNext \/ UNCHANGED Box!mailboxVars
  <1>1. CASE EmitInline(t, e, below)
    BY <1>1 DEF Emit, EmitInline, Box!mailboxVars
  <1>2. CASE EmitToQueue(t, e, below)
    <2> DEFINE s == Called(e)
    <2>1. Enqueue(t, e, s) /\ UNCHANGED <<current, stopping>>
      BY <1>2 DEF EmitToQueue, Emit
    <2>2. s \in Counters /\ s.enqueued = stats.enqueued
      BY CalledType DEF TypeOK
    <2> HIDE DEF s
    <2> QED
      BY <2>1, <2>2, EnqueuePuts
  <1> QED
    BY <1>1, <1>2 DEF Emit

\* Every action keeps HandsFree.
LEMMA HandsFreeStep == HandsFree /\ [Next]_vars => HandsFree'
  <1> SUFFICES ASSUME HandsFree, [Next]_vars PROVE HandsFree'
    OBVIOUS
  <1> USE DEF HandsFree
  <1>n. CASE UNCHANGED current /\ (worker' = worker \/ worker' = Roused)
    BY <1>n DEF Roused
  <1>e. ASSUME NEW t, NEW e, NEW s, Enqueue(t, e, s) PROVE worker' = worker \/ worker' = Roused
    BY <1>e DEF Enqueue, AppendEvent, WaitForSpace, EvictOldest, DropNewest, DropInStopPhase
  <1>1. ASSUME NEW t, ProducerEmits(t) \/ HandlerEmits(t) \/ InlineHandlerFails(t) PROVE HandsFree'
    <2>1. PICK e, below : Emit(t, e, below)
      BY <1>1 DEF ProducerEmits, HandlerEmits, InlineHandlerFails
    <2>2. UNCHANGED current /\ (worker' = worker \/ \E s : Enqueue(t, e, s))
      BY <2>1 DEF Emit, EmitInline, EmitToQueue
    <2> QED
      BY <1>n, <1>e, <2>2
  <1>2. ASSUME NEW t, ProducerRetries(t) PROVE HandsFree'
    BY <1>n, <1>e, <1>2 DEF ProducerRetries
  <1>3. ASSUME NEW t, BarrierReturns(t) \/ CancelBarrier(t) \/ CancelBlocked(t) PROVE HandsFree'
    BY <1>n, <1>3 DEF BarrierReturns, CancelBarrier, CancelBlocked
  <1>4. CASE WorkerTakes \/ WorkerSleeps \/ WorkerExits \/ WorkerAborts \/ WorkerHandlerFails
    BY <1>4 DEF WorkerTakes, WorkerSleeps, WorkerExits, WorkerAborts, WorkerHandlerFails
  <1>5. ASSUME NEW t, HandlerReturns(t) \/ HandlerFailsQuietly(t) PROVE HandsFree'
    BY <1>5 DEF HandlerReturns, HandlerFailsQuietly, CloseContext
  <1>6. CASE StopWithoutWaiting
    BY <1>n, <1>6 DEF StopWithoutWaiting
  <1>7. ASSUME NEW t, HandlerStops(t) \/ StopCallback(t) PROVE HandsFree'
    BY <1>n, <1>6, <1>7 DEF HandlerStops, StopCallback
  <1>8. ASSUME NEW c, \/ Start(c) \/ StopCalled(c) \/ StopCancelled(c) \/ StopFromHandlerOrigin(c)
                      \/ StopReturns(c) \/ HandlerContextRecheck(c)
        PROVE  HandsFree'
    BY <1>n, <1>6, <1>8 DEF Start, StopCalled, StopCancelled, StopFromHandlerOrigin, StopReturns,
       HandlerContextRecheck
  <1>9. ASSUME NEW c, NEW r, DropQueuedEventsForResource(c, r) \/ WaitForHandlerContext(c, r)
        PROVE  HandsFree'
    BY <1>n, <1>9 DEF DropQueuedEventsForResource, WaitForHandlerContext
  <1>10. CASE UNCHANGED vars
    BY <1>n, <1>10 DEF vars
  <1> QED
    BY <1>1, <1>2, <1>3, <1>4, <1>5, <1>7, <1>8, <1>9, <1>10
    DEF Next, WorkerLoop, HandlerStep, ProducerStep, ControllerStep

\* Every action of the dispatcher is one of the mailbox, or leaves it alone.
LEMMA MailboxStep ==
  TypeOK /\ Tickets /\ HandsFree /\ [Next]_vars => [Box!MailboxNext]_(Box!mailboxVars)
  <1> SUFFICES ASSUME TypeOK, Tickets, HandsFree, [Next]_vars
               PROVE  Box!MailboxNext \/ UNCHANGED Box!mailboxVars
    OBVIOUS
  <1> DEFINE Goal == Box!MailboxNext \/ UNCHANGED Box!mailboxVars
  <1>k. /\ \A t \in Tasks, k \in Kinds : NewEvent(t, k, "data") \in Event
        /\ \A t \in Tasks : ControlEvent(t) \in Event
        /\ Worker \in Tasks /\ Producers \subseteq Tasks
    BY NewEventType, KindAssumption DEF ControlEvent, Controls, Plain, KindSet, Tasks
  <1>n. CASE UNCHANGED <<queue, current, stopping>>
    BY <1>n DEF Box!mailboxVars
  <1>1. ASSUME NEW t \in Tasks, ProducerEmits(t) \/ HandlerEmits(t) \/ InlineHandlerFails(t)
        PROVE  Goal
    <2>1. PICK e \in Event : \E below : Emit(t, e, below)
      BY <1>k, <1>1 DEF ProducerEmits, HandlerEmits, InlineHandlerFails
    <2> QED
      BY <2>1, EmitPuts
  <1>2. ASSUME NEW t \in Tasks, ProducerRetries(t) PROVE Goal
    <2>1. call[t] \in Event /\ stats \in Counters
      BY DEF TypeOK
    <2> QED
      BY <1>2, <2>1, EnqueuePuts DEF ProducerRetries
  <1>3. ASSUME NEW t \in Tasks, BarrierReturns(t) \/ CancelBarrier(t) \/ CancelBlocked(t) PROVE Goal
    BY <1>n, <1>3 DEF BarrierReturns, CancelBarrier, CancelBlocked
  <1>4. CASE WorkerTakes
    <2>1. Box!Serve
      BY <1>4 DEF WorkerTakes, HandsFree, IsOldestOf, Box!Serve
    <2> QED
      BY <2>1 DEF Box!MailboxNext
  <1>5. CASE WorkerSleeps \/ WorkerExits \/ WorkerHandlerFails
    BY <1>n, <1>5 DEF WorkerSleeps, WorkerExits, WorkerHandlerFails
  <1>6. CASE WorkerAborts
    <2>1. Box!Fail
      BY <1>6 DEF WorkerAborts, Box!Fail
    <2> QED
      BY <2>1 DEF Box!MailboxNext
  <1>7. ASSUME NEW t \in Tasks, HandlerReturns(t) \/ HandlerFailsQuietly(t) PROVE Goal
    <2>1. UNCHANGED <<queue, stopping>> /\ (current' = NoCall \/ current' = current)
      BY <1>7 DEF HandlerReturns, HandlerFailsQuietly, CloseContext
    <2>2. CASE current' = NoCall
      <3>1. Box!Done
        BY <2>1, <2>2 DEF Box!Done
      <3> QED
        BY <3>1 DEF Box!MailboxNext
    <2> QED
      BY <1>n, <2>1, <2>2
  <1>8. ASSUME stopping' = TRUE, queue' \in {queue, {}}, UNCHANGED current PROVE Goal
    <2>1. Box!Close
      BY <1>8 DEF Box!Close
    <2> QED
      BY <2>1 DEF Box!MailboxNext
  <1>9. CASE StopWithoutWaiting
    BY <1>8, <1>9 DEF StopWithoutWaiting
  <1>10. ASSUME NEW t \in Tasks, HandlerStops(t) \/ StopCallback(t) PROVE Goal
    BY <1>n, <1>9, <1>10 DEF HandlerStops, StopCallback
  <1>11. ASSUME NEW c, StopCalled(c) \/ StopFromHandlerOrigin(c) PROVE Goal
    BY <1>8, <1>9, <1>11 DEF StopCalled, StopFromHandlerOrigin
  <1>12. ASSUME NEW c, Start(c) PROVE Goal
    <2>1. Box!Open
      BY <1>12 DEF Start, Box!Open
    <2> QED
      BY <2>1 DEF Box!MailboxNext
  <1>13. ASSUME NEW c, NEW r \in Tasks, DropQueuedEventsForResource(c, r) PROVE Goal
    <2>1. Box!Withdraw(r) /\ r \in {m.res : m \in queue}
      BY <1>13 DEF DropQueuedEventsForResource, Box!Withdraw
    <2> QED
      BY <2>1 DEF Box!MailboxNext
  <1>14. ASSUME NEW c, \/ StopCancelled(c) \/ StopReturns(c) \/ HandlerContextRecheck(c)
                       \/ \E r \in Tasks : WaitForHandlerContext(c, r)
         PROVE  Goal
    BY <1>n, <1>14 DEF StopCancelled, StopReturns, HandlerContextRecheck, WaitForHandlerContext
  <1>15. CASE UNCHANGED vars
    BY <1>n, <1>15 DEF vars
  <1> QED
    BY <1>k, <1>1, <1>2, <1>3, <1>4, <1>5, <1>6, <1>7, <1>10, <1>11, <1>12, <1>13, <1>14, <1>15
    DEF Next, WorkerLoop, HandlerStep, ProducerStep, ControllerStep

\* The queue with its policies, its worker, its handlers and its two forms of
\* stop implements the mailbox: it is bounded, serves in order and one event at
\* a time, and loses exempt events to nothing but stop, cleanup and abort.
THEOREM DispatcherImplementsMailbox == Spec => ImplementsMailbox
  <1>1. Init => Box!MailboxInit
    BY DEF Init, Box!MailboxInit
  <1>2. Init => HandsFree
    BY DEF Init, HandsFree
  <1>3. Spec => []HandsFree
    BY <1>2, HandsFreeStep, PTL DEF Spec
  <1> QED
    BY <1>1, <1>3, TypeCorrect, AccountsInvariant, MailboxStep, PTL
    DEF Spec, ImplementsMailbox, Box!MailboxSpec

-----------------------------------------------------------------------------
(***************************************************************************)
(* Barriers.                                                                *)
(***************************************************************************)
\* One pass of _enqueue() for a call of t about an event of t whose number no
\* other event of t in the queue has.
LEMMA EnqueueTruth ==
  ASSUME TypeOK, TruthInv, NEW t \in Tasks, NEW e \in Event, NEW s \in Counters,
         e.task = t, pc[t] \in {"run", "woken"},
         stats.emitCalls <= s.emitCalls, e.id <= s.emitCalls,
         ghost.begun[t] # e.id, \A x \in queue : x.task = t => x.id # e.id,
         Enqueue(t, e, s), UNCHANGED <<current, ghost>>
  PROVE  TruthInv'
  <1> DEFINE f == [e EXCEPT !.ticket = s.enqueued + 1]
  <1>w. /\ pc \in [Tasks -> Suspensions] /\ call \in [Tasks -> Event]
        /\ verdict \in [Tasks -> Verdicts] /\ current \in Event
        /\ queue \subseteq Event /\ stats.emitCalls \in Nat /\ s.emitCalls \in Nat
        /\ \A u \in Tasks : ghost.begun[u] \in Nat
        /\ \A x \in Event : x.id \in Nat /\ x.task \in Tasks
    BY DEF TypeOK, Counters, History, Event
  <1>f. f \in Event /\ f.task = t /\ f.wait = e.wait /\ f.id = e.id
    BY DEF Event, Counters
  <1> HIDE DEF f
  <1>t. /\ ~Waits(t) /\ verdict[t] = "none"
        /\ \A x \in queue \cup {current} : x.wait => x.task # t
    BY DEF TruthInv, Attached, Truth, Waits
  <1>n. \A m, n \in Nat : m <= stats.emitCalls => m <= s.emitCalls
    BY <1>w
  <1>1. ASSUME Accepted(t, f), NEW R \in SUBSET queue, queue' = (queue \ R) \cup {f},
               \A u \in Tasks \ {t} : verdict'[u] = Settled(R, "dropped")[u],
               verdict'[t] = (IF f.wait THEN "pending" ELSE "none"), stats'.emitCalls = s.emitCalls
        PROVE  TruthInv'
    <2>1. /\ pc'[t] = (IF f.wait THEN "await" ELSE "run") /\ call'[t] = (IF f.wait THEN f ELSE NoCall)
          /\ \A u \in Tasks \ {t} : pc'[u] = pc[u] /\ call'[u] = call[u]
      BY <1>w, <1>1 DEF Accepted
    <2>2. \A u \in Tasks \ {t} :
            /\ (\A x \in R : ~(x.wait /\ x.task = u)) => verdict'[u] = verdict[u]
            /\ (\E x \in R : x.wait /\ x.task = u) => verdict'[u] = "dropped"
      BY <1>1 DEF Settled
    <2>3. ASSUME NEW x \in queue' \cup {current'}, x.wait
          PROVE  /\ pc'[x.task] \in {"await", "await_cancelled"}
                 /\ verdict'[x.task] = "pending" /\ call'[x.task] = x
      <3>1. CASE x = f
        BY <1>1, <1>f, <2>1, <2>3, <3>1
      <3>2. CASE x \in (queue \ R) \cup {current}
        <4>1. /\ Waits(x.task) /\ verdict[x.task] = "pending" /\ call[x.task] = x
              /\ x.task # t /\ x.task \in Tasks
          BY <1>w, <1>t, <2>3, <3>2 DEF TruthInv, Attached
        <4>2. \A y \in R : ~(y.wait /\ y.task = x.task)
          BY <1>1, <2>3, <3>2, <4>1 DEF TruthInv, Attached
        <4> QED
          BY <2>1, <2>2, <4>1, <4>2 DEF Waits
      <3> QED
        BY <1>1, <2>3, <3>1, <3>2
    <2>4. current'.wait => current' \notin queue'
      BY <1>1, <1>f, <1>t DEF TruthInv, Attached
    <2>5. /\ \A x \in queue' : x.id <= s.emitCalls /\ ghost.begun[x.task] # x.id
          /\ \A x, y \in queue' : x.task = y.task /\ x.id = y.id => x = y
      <3>1. \A x \in queue : x.id <= s.emitCalls /\ ghost.begun[x.task] # x.id
        BY <1>w, <1>n DEF TruthInv, Numbered
      <3> QED
        BY <1>1, <1>f, <3>1 DEF TruthInv, Numbered
    <2>6. ASSUME NEW u \in Tasks
          PROVE  /\ call'[u].id <= s.emitCalls /\ ghost.begun[u] <= s.emitCalls
                 /\ pc'[u] \in {"blocked", "woken"} => call'[u].task = u
                 /\ pc'[u] \in {"blocked", "woken"} \/ verdict'[u] = "dropped" =>
                      /\ ghost.begun[u] # call'[u].id
                      /\ \A x \in queue' : x.task = u => x.id # call'[u].id
      <3>1. CASE u = t
        <4>1. call'[t].id <= s.emitCalls
          BY <1>w, <1>f, <2>1 DEF NoCall
        <4>2. ghost.begun[t] <= s.emitCalls
          BY <1>w, <1>n DEF TruthInv, Numbered
        <4> QED
          BY <1>1, <2>1, <3>1, <4>1, <4>2
      <3>2. CASE u # t
        <4>1. call'[u] = call[u] /\ pc'[u] = pc[u]
          BY <2>1, <3>2
        <4>2. call[u].id <= s.emitCalls /\ ghost.begun[u] <= s.emitCalls
          BY <1>w, <1>n DEF TruthInv, Numbered
        <4>3. \A x \in queue' : x.task = u => x \in queue \ R
          BY <1>1, <1>f, <3>2
        <4>4. CASE Sleeps(u) \/ verdict[u] = "dropped"
          BY <4>1, <4>2, <4>3, <4>4 DEF TruthInv, Numbered, Sleeps
        <4>5. CASE \E y \in R : y.wait /\ y.task = u
          <5>1. PICK y \in R : y.wait /\ y.task = u
            BY <4>5
          <5>2. call[u] = y /\ y \in queue /\ ~Sleeps(u)
            BY <1>1, <5>1 DEF TruthInv, Attached, Waits, Sleeps
          <5> QED
            BY <4>1, <4>2, <4>3, <5>1, <5>2 DEF TruthInv, Numbered, Sleeps
        <4>6. CASE /\ ~(Sleeps(u) \/ verdict[u] = "dropped")
                   /\ \A y \in R : ~(y.wait /\ y.task = u)
          BY <2>2, <3>2, <4>1, <4>2, <4>6 DEF Sleeps
        <4> QED
          BY <4>4, <4>5, <4>6
      <3> QED
        BY <3>1, <3>2
    <2>7. ASSUME NEW u \in Tasks
          PROVE  /\ pc'[u] \notin {"await", "await_cancelled"} => verdict'[u] = "none"
                 /\ verdict'[u] = "handled" => call'[u].id \in ghost.finished
      <3>1. CASE u = t
        BY <1>1, <2>1, <3>1
      <3>2. CASE u # t /\ \E y \in R : y.wait /\ y.task = u
        BY <1>1, <2>1, <2>2, <3>2 DEF TruthInv, Attached, Waits
      <3>3. CASE u # t /\ \A y \in R : ~(y.wait /\ y.task = u)
        BY <2>1, <2>2, <3>3 DEF TruthInv, Truth, Waits
      <3> QED
        BY <3>1, <3>2, <3>3
    <2>8. Attached'
      BY <2>3, <2>4 DEF Attached, Waits
    <2>9. Numbered'
      BY <1>1, <2>5, <2>6 DEF Numbered, Sleeps
    <2>10. Truth'
      BY <2>7 DEF Truth, Waits
    <2> QED
      BY <2>8, <2>9, <2>10 DEF TruthInv
  <1>2. CASE AppendEvent(t, e, s)
    <2>1. queue' = (queue \ {}) \cup {f} /\ Accepted(t, f)
      BY <1>2 DEF AppendEvent, f
    <2>2. \A u \in Tasks \ {t} : verdict'[u] = Settled({}, "dropped")[u]
      BY <1>w, <1>2 DEF AppendEvent, Settled
    <2>3. verdict'[t] = (IF f.wait THEN "pending" ELSE "none") /\ stats'.emitCalls = s.emitCalls
      BY <1>w, <1>2 DEF AppendEvent, Counters, f
    <2> QED
      BY <1>1, <2>1, <2>2, <2>3
  <1>3. CASE EvictOldest(t, e, s)
    <2>1. PICK v \in queue :
            /\ queue' = (queue \ {v}) \cup {f}
            /\ verdict' = [Settled({v}, "dropped") EXCEPT ![t] = IF f.wait THEN "pending" ELSE "none"]
      BY <1>3 DEF EvictOldest, Droppable, f
    <2>2. \A u \in Tasks \ {t} : verdict'[u] = Settled({v}, "dropped")[u]
      BY <2>1 DEF Settled
    <2>3. verdict'[t] = IF f.wait THEN "pending" ELSE "none"
      BY <2>1 DEF Settled
    <2>4. Accepted(t, f) /\ stats'.emitCalls = s.emitCalls
      BY <1>3 DEF EvictOldest, Counters, f
    <2> QED
      BY <1>1, <2>1, <2>2, <2>3, <2>4
  <1>4. ASSUME UNCHANGED <<queue, verdict>>, stats'.emitCalls = s.emitCalls,
               \A u \in Tasks \ {t} : pc'[u] = pc[u] /\ call'[u] = call[u],
               \/ pc'[t] = "run" /\ call'[t] = NoCall
               \/ pc'[t] = "blocked" /\ call'[t] = e
        PROVE  TruthInv'
    <2>1. Attached'
      BY <1>w, <1>t, <1>4 DEF TruthInv, Attached, Waits
    <2>2. Truth'
      BY <1>t, <1>4 DEF TruthInv, Truth, Waits
    <2>3. \A x \in queue : x.id <= s.emitCalls
      BY <1>w, <1>n DEF TruthInv, Numbered
    <2>4. \A u \in Tasks : call'[u].id <= s.emitCalls /\ ghost.begun[u] <= s.emitCalls
      BY <1>w, <1>n, <1>4 DEF TruthInv, Numbered, NoCall
    <2>5. Numbered'
      BY <1>t, <1>4, <2>3, <2>4 DEF TruthInv, Numbered, Sleeps
    <2> QED
      BY <2>1, <2>2, <2>5 DEF TruthInv
  <1>5. CASE WaitForSpace(t, e, s)
    BY <1>w, <1>4, <1>5 DEF WaitForSpace
  <1>6. CASE DropNewest(t, e, s) \/ DropInStopPhase(t, s)
    <2>1. stats'.emitCalls = s.emitCalls
      BY <1>6 DEF DropNewest, DropInStopPhase, Counters
    <2> QED
      BY <1>w, <1>4, <1>6, <2>1 DEF DropNewest, DropInStopPhase, Refused
  <1> QED
    BY <1>2, <1>3, <1>5, <1>6 DEF Enqueue

\* An emit of a task that is not suspended, with the next number.
LEMMA EmitTruth ==
  ASSUME TypeOK, TruthInv, NEW t \in Tasks, NEW e \in Event, NEW below, e.task = t,
         e.id = stats.emitCalls + 1, pc[t] = "run", Emit(t, e, below)
  PROVE  TruthInv'
  <1>w. /\ queue \subseteq Event /\ stats \in Counters /\ stats.emitCalls \in Nat
        /\ \A u \in Tasks : call[u] \in Event /\ ghost.begun[u] \in Nat
        /\ \A x \in Event : x.id \in Nat /\ x.task \in Tasks
        /\ ghost.begun \in [Tasks -> Nat] /\ ghost \in History
    BY DEF TypeOK, Counters, History, Event
  <1>f. /\ \A x \in queue : x.id <= stats.emitCalls
        /\ \A u \in Tasks : call[u].id <= stats.emitCalls /\ ghost.begun[u] <= stats.emitCalls
    BY DEF TruthInv, Numbered
  <1>n. \A m \in Nat : m <= stats.emitCalls => m <= stats.emitCalls + 1 /\ m # stats.emitCalls + 1
    BY <1>w
  <1>1. CASE EmitInline(t, e, below)
    <2>1. UNCHANGED <<queue, current, pc, call, verdict>>
      BY <1>1 DEF Emit, EmitInline
    <2>2. /\ stats'.emitCalls = stats.emitCalls + 1
          /\ ghost'.begun = [ghost.begun EXCEPT ![t] = e.id] /\ ghost'.finished = ghost.finished
      BY <1>w, <1>1, InlineCounts DEF EmitInline, History
    <2>3. Attached' /\ Truth'
      BY <2>1, <2>2 DEF TruthInv, Attached, Truth, Waits
    <2>4. \A u \in Tasks : ghost'.begun[u] = IF u = t THEN stats.emitCalls + 1 ELSE ghost.begun[u]
      BY <1>w, <2>2
    <2>5. \A x \in queue : x.id <= stats.emitCalls + 1 /\ ghost'.begun[x.task] # x.id
      BY <1>w, <1>f, <1>n, <2>4 DEF TruthInv, Numbered
    <2>6. \A u \in Tasks : /\ call[u].id <= stats.emitCalls + 1
                           /\ ghost'.begun[u] <= stats.emitCalls + 1
                           /\ ghost.begun[u] # call[u].id => ghost'.begun[u] # call[u].id
      BY <1>w, <1>f, <1>n, <2>4
    <2>7. Numbered'
      BY <2>1, <2>2, <2>5, <2>6 DEF TruthInv, Numbered, Sleeps
    <2> QED
      BY <2>3, <2>7 DEF TruthInv
  <1>2. CASE EmitToQueue(t, e, below)
    <2> DEFINE m == stats.emitCalls + 1
               s == Called(e)
    <2>1. s \in Counters /\ s.emitCalls = m
      BY <1>w, CalledType
    <2>2. Enqueue(t, e, s) /\ UNCHANGED <<current, ghost>>
      BY <1>2 DEF EmitToQueue, Emit
    <2>3. \A x \in queue : x.id # e.id
      BY <1>w, <1>f, <1>n
    <2>4. ghost.begun[t] # e.id
      BY <1>w, <1>f, <1>n
    <2>5. stats.emitCalls <= m /\ e.id <= m
      BY <1>w
    <2> HIDE DEF m, s
    <2> QED
      BY <2>1, <2>2, <2>3, <2>4, <2>5, EnqueueTruth
  <1> QED
    BY <1>1, <1>2 DEF Emit

\* Dropping queued events with their futures.
LEMMA DroppingTruth ==
  ASSUME TypeOK, TruthInv, NEW S \in SUBSET queue, queue' = queue \ S,
         verdict' = Settled(S, "dropped"), pc' = AllWoken, UNCHANGED <<current, call, ghost>>,
         stats'.emitCalls = stats.emitCalls
  PROVE  TruthInv'
  <1>w. queue \subseteq Event /\ current \in Event /\ \A x \in Event : x.task \in Tasks
    BY DEF TypeOK, Event
  <1>1. \A u \in Tasks : /\ pc'[u] \in {"await", "await_cancelled"} <=> Waits(u)
                         /\ pc'[u] \in {"blocked", "woken"} <=> Sleeps(u)
    BY DEF AllWoken, Waits, Sleeps
  <1>2. ASSUME NEW u \in Tasks
        PROVE  \/ verdict'[u] = verdict[u] /\ \A x \in S : ~(x.wait /\ x.task = u)
               \/ /\ verdict'[u] = "dropped" /\ call[u] \in S /\ call[u].task = u /\ call[u].wait
                  /\ Waits(u) /\ verdict[u] = "pending"
    BY <1>w DEF Settled, TruthInv, Attached
  <1>3. ASSUME NEW x \in queue' \cup {current}, x.wait
        PROVE  pc'[x.task] \in {"await", "await_cancelled"} /\ verdict'[x.task] = "pending" /\ call[x.task] = x
    <2>1. Waits(x.task) /\ verdict[x.task] = "pending" /\ call[x.task] = x /\ x.task \in Tasks
      BY <1>w, <1>3 DEF TruthInv, Attached
    <2>2. x \notin S
      BY <1>3 DEF TruthInv, Attached
    <2> QED
      BY <1>1, <1>2, <2>1, <2>2
  <1>4. Attached'
    BY <1>3 DEF TruthInv, Attached, Waits
  <1>5. ASSUME NEW u \in Tasks, Sleeps(u) \/ verdict'[u] = "dropped"
        PROVE  /\ ghost.begun[u] # call[u].id
               /\ \A x \in queue' : x.task = u => x.id # call[u].id
    <2>1. CASE Sleeps(u) \/ verdict[u] = "dropped"
      BY <2>1 DEF TruthInv, Numbered
    <2>2. CASE call[u] \in S /\ call[u].task = u
      BY <2>2 DEF TruthInv, Numbered
    <2> QED
      BY <1>2, <1>5, <2>1, <2>2
  <1>6. Numbered'
    BY <1>1, <1>5 DEF TruthInv, Numbered, Sleeps
  <1>7. Truth'
    BY <1>1, <1>2 DEF TruthInv, Truth, Waits
  <1> QED
    BY <1>4, <1>6, <1>7 DEF TruthInv

\* Settling the event in the worker's hands, alone or with all queued ones.
LEMMA SettlingTruth ==
  ASSUME TypeOK, TruthInv, current' = NoCall, UNCHANGED <<pc, call>>,
         stats'.emitCalls = stats.emitCalls, ghost'.begun = ghost.begun,
         \/ /\ queue' = queue /\ verdict' = Settled({current}, "handled")
            /\ ghost'.finished = ghost.finished \cup {current.id}
         \/ /\ queue' = {} /\ verdict' = Settled({current} \cup queue, "failed")
            /\ ghost'.finished = ghost.finished
  PROVE  TruthInv'
  <1>w. queue \subseteq Event /\ current \in Event /\ \A x \in Event : x.task \in Tasks
    BY DEF TypeOK, Event
  <1>1. ASSUME NEW u \in Tasks
        PROVE  \/ verdict'[u] = verdict[u] /\ ~(current.wait /\ current.task = u)
               \/ Waits(u) /\ verdict'[u] = "failed"
               \/ Waits(u) /\ verdict'[u] = "handled" /\ call[u] = current /\ call[u].id \in ghost'.finished
    BY <1>w DEF Settled, TruthInv, Attached
  <1>2. Truth'
    BY <1>1 DEF TruthInv, Truth, Waits
  <1>3. Numbered'
    BY <1>1 DEF TruthInv, Numbered, Sleeps
  <1>4. ASSUME NEW x \in queue', x.wait
        PROVE  Waits(x.task) /\ verdict'[x.task] = "pending" /\ call[x.task] = x
    <2>1. /\ Waits(x.task) /\ verdict[x.task] = "pending" /\ call[x.task] = x /\ x.task \in Tasks
          /\ queue' = queue /\ verdict' = Settled({current}, "handled")
      BY <1>w, <1>4 DEF TruthInv, Attached
    <2>2. ~(current.wait /\ current.task = x.task)
      BY <1>4, <2>1 DEF TruthInv, Attached
    <2> QED
      BY <2>1, <2>2 DEF Settled
  <1>5. ~NoCall.wait
    BY DEF NoCall
  <1>6. Attached'
    BY <1>4, <1>5 DEF Attached, Waits
  <1> QED
    BY <1>2, <1>3, <1>6 DEF TruthInv

\* Every action keeps TruthInv.
LEMMA TruthStep == TypeOK /\ TruthInv /\ [Next]_vars => TruthInv'
  <1> SUFFICES ASSUME TypeOK, TruthInv, [Next]_vars PROVE TruthInv'
    OBVIOUS
  <1>w. /\ pc \in [Tasks -> Suspensions] /\ call \in [Tasks -> Event]
        /\ verdict \in [Tasks -> Verdicts] /\ stats \in Counters /\ ghost \in History
        /\ queue \subseteq Event /\ \A x \in Event : x.task \in Tasks /\ x.id \in Nat
        /\ Worker \in Tasks /\ Producers \subseteq Tasks
        /\ stats.emitCalls \in Nat
    BY DEF TypeOK, Tasks, Event, Counters
  <1>k. /\ \A t \in Tasks, k \in Kinds : NewEvent(t, k, "data") \in Event
        /\ \A t \in Tasks : ControlEvent(t) \in Event
    BY NewEventType, KindAssumption DEF ControlEvent, Controls, Plain, KindSet
  <1>i. /\ \A t, k : NewEvent(t, k, "data").task = t /\ NewEvent(t, k, "data").id = stats.emitCalls + 1
        /\ \A t : ControlEvent(t).task = t /\ ControlEvent(t).id = stats.emitCalls + 1
    BY DEF ControlEvent, NewEvent
  <1>n. ASSUME UNCHANGED <<queue, current, call, verdict>>, stats'.emitCalls = stats.emitCalls,
               ghost'.begun = ghost.begun, ghost'.finished = ghost.finished,
               \A u \in Tasks : \/ pc'[u] = pc[u]
                                \/ pc[u] = "blocked" /\ pc'[u] = "woken"
                                \/ pc[u] = "await" /\ pc'[u] = "await_cancelled"
        PROVE  TruthInv'
    <2>1. \A u \in Tasks : Waits(u)' <=> Waits(u)
      BY <1>n DEF Waits
    <2>2. \A u \in Tasks : Sleeps(u)' <=> Sleeps(u)
      BY <1>n DEF Sleeps
    <2>3. \A x \in queue \cup {current} : x.task \in Tasks
      BY <1>w DEF TypeOK
    <2>4. Attached'
      <3>1. ASSUME NEW x \in queue \cup {current}, x.wait
            PROVE  pc'[x.task] \in {"await", "await_cancelled"} /\ verdict[x.task] = "pending"
        BY <1>n, <2>3, <3>1 DEF TruthInv, Attached, Waits
      <3> QED
        BY <1>n, <3>1 DEF TruthInv, Attached, Waits
    <2>5. Numbered' /\ Truth'
      BY <1>n, <2>1, <2>2 DEF TruthInv, Numbered, Truth
    <2> QED
      BY <2>4, <2>5 DEF TruthInv
  <1>g. stats' = stats => stats'.emitCalls = stats.emitCalls
    OBVIOUS
  <1>1. ASSUME NEW t \in Tasks, ProducerEmits(t) \/ HandlerEmits(t) \/ InlineHandlerFails(t)
        PROVE  TruthInv'
    <2>1. PICK e \in Event : /\ e.task = t /\ pc[t] = "run" /\ e.id = stats.emitCalls + 1
                             /\ \E below : Emit(t, e, below)
      BY <1>k, <1>i, <1>1 DEF ProducerEmits, HandlerEmits, InlineHandlerFails, InHandler
    <2> QED
      BY <2>1, EmitTruth
  <1>2. ASSUME NEW t \in Tasks, ProducerRetries(t) PROVE TruthInv'
    <2>1. /\ call[t] \in Event /\ call[t].task = t /\ pc[t] = "woken"
          /\ Enqueue(t, call[t], stats) /\ UNCHANGED <<current, ghost>>
          /\ call[t].id <= stats.emitCalls /\ ghost.begun[t] # call[t].id
          /\ \A x \in queue : x.task = t => x.id # call[t].id
      BY <1>w, <1>2 DEF ProducerRetries, TruthInv, Numbered, Sleeps
    <2>2. stats.emitCalls <= stats.emitCalls
      BY <1>w
    <2> QED
      BY <1>w, <2>1, <2>2, EnqueueTruth
  <1>3. ASSUME NEW t \in Tasks, \/ BarrierReturns(t) \/ CancelBlocked(t) PROVE TruthInv'
    <2>1. /\ UNCHANGED <<queue, current, stats>> /\ ghost'.begun = ghost.begun
          /\ ghost'.finished = ghost.finished /\ call' = [call EXCEPT ![t] = NoCall]
      BY <1>w, <1>3 DEF BarrierReturns, CancelBlocked, History
    <2>2. /\ pc'[t] = "run" /\ verdict'[t] = "none" /\ verdict[t] # "pending"
          /\ \A u \in Tasks \ {t} : verdict'[u] = verdict[u]
      BY <1>w, <1>3 DEF BarrierReturns, CancelBlocked, NotifyNotFull, TruthInv, Truth, Waits
    <2>3. \A u \in Tasks \ {t} : pc'[u] = pc[u] \/ (pc[u] = "blocked" /\ pc'[u] = "woken")
      BY <1>w, <1>3 DEF BarrierReturns, CancelBlocked, NotifyNotFull
    <2>4. \A u \in Tasks \ {t} : call'[u] = call[u]
      BY <1>w, <2>1
    <2>5. call'[t].id = 0
      BY <1>w, <2>1 DEF NoCall
    <2>6. Attached'
      <3>1. ASSUME NEW x \in queue \cup {current}, x.wait
            PROVE  /\ pc'[x.task] \in {"await", "await_cancelled"} /\ verdict'[x.task] = "pending"
                   /\ call'[x.task] = x
        <4>1. /\ Waits(x.task) /\ verdict[x.task] = "pending" /\ call[x.task] = x
              /\ x.task \in Tasks \ {t}
          BY <1>w, <2>2, <3>1 DEF TruthInv, Attached, TypeOK
        <4> QED
          BY <2>2, <2>3, <2>4, <4>1 DEF Waits
      <3> QED
        BY <2>1, <3>1 DEF TruthInv, Attached, Waits
    <2>7. Truth'
      BY <2>1, <2>2, <2>3, <2>4 DEF TruthInv, Truth, Waits
    <2>8. 0 <= stats.emitCalls
      BY <1>w
    <2>9. Numbered'
      BY <2>1, <2>2, <2>3, <2>4, <2>5, <2>8 DEF TruthInv, Numbered, Sleeps
    <2> QED
      BY <2>6, <2>7, <2>9 DEF TruthInv
  <1>4. ASSUME NEW t \in Tasks, CancelBarrier(t) PROVE TruthInv'
    BY <1>w, <1>n, <1>4 DEF CancelBarrier
  <1>5. CASE WorkerTakes
    <2>1. PICK e \in queue : /\ queue' = queue \ {e} /\ current' = e
                             /\ ghost' = [ghost EXCEPT !.begun[e.task] = e.id]
      BY <1>5 DEF WorkerTakes
    <2>2. UNCHANGED <<call, verdict>> /\ stats'.emitCalls = stats.emitCalls
      BY <1>w, <1>5 DEF WorkerTakes, Counters
    <2>3. \A u \in Tasks : pc'[u] = pc[u] \/ (pc[u] = "blocked" /\ pc'[u] = "woken")
      BY <1>w, <1>5 DEF WorkerTakes, NotifyNotFull
    <2>4. /\ ghost'.finished = ghost.finished /\ e.task \in Tasks
          /\ \A u \in Tasks : ghost'.begun[u] = IF u = e.task THEN e.id ELSE ghost.begun[u]
      BY <1>w, <2>1 DEF History
    <2>5. Attached'
      <3>1. ASSUME NEW x \in (queue \ {e}) \cup {e}, x.wait
            PROVE  pc'[x.task] \in {"await", "await_cancelled"} /\ verdict[x.task] = "pending" /\ call[x.task] = x
        BY <1>w, <2>1, <2>3, <3>1 DEF TruthInv, Attached, Waits
      <3> QED
        BY <2>1, <2>2, <3>1 DEF Attached, Waits
    <2>6. Truth'
      BY <2>2, <2>3, <2>4 DEF TruthInv, Truth, Waits
    <2>7. \A x \in queue \ {e} : x.id <= stats.emitCalls /\ ghost'.begun[x.task] # x.id
      BY <1>w, <2>1, <2>4 DEF TruthInv, Numbered
    <2>8. ASSUME NEW u \in Tasks
          PROVE  /\ ghost'.begun[u] <= stats.emitCalls
                 /\ Sleeps(u) \/ verdict[u] = "dropped" => ghost'.begun[u] # call[u].id
      BY <2>1, <2>4 DEF TruthInv, Numbered
    <2>9. Numbered'
      BY <2>1, <2>2, <2>3, <2>7, <2>8 DEF TruthInv, Numbered, Sleeps
    <2> QED
      BY <2>5, <2>6, <2>9 DEF TruthInv
  <1>6. CASE WorkerSleeps \/ WorkerExits
    BY <1>n, <1>6 DEF WorkerSleeps, WorkerExits
  <1>7. CASE WorkerHandlerFails
    <2>1. /\ stats'.emitCalls = stats.emitCalls /\ ghost'.begun = ghost.begun
          /\ ghost'.finished = ghost.finished
      BY <1>w, <1>7 DEF WorkerHandlerFails, Counters, History
    <2> QED
      BY <1>n, <1>7, <2>1 DEF WorkerHandlerFails
  <1>8. CASE WorkerAborts
    <2>1. ghost'.begun = ghost.begun /\ ghost'.finished = ghost.finished
      BY <1>w, <1>8 DEF WorkerAborts, History
    <2> QED
      BY <1>8, <2>1, SettlingTruth DEF WorkerAborts
  <1>9. ASSUME NEW t \in Tasks, HandlerReturns(t) \/ HandlerFailsQuietly(t) PROVE TruthInv'
    <2>1. CloseContext(t) /\ UNCHANGED <<queue, pc, call>> /\ stats'.emitCalls = stats.emitCalls
      BY <1>w, <1>9 DEF HandlerReturns, HandlerFailsQuietly, Counters
    <2>2. CASE t = Worker /\ Len(stack[t]) = 1
      <3>1. /\ current' = NoCall /\ verdict' = Settled({current}, "handled")
            /\ ghost' = [ghost EXCEPT !.finished = @ \cup {current.id}]
        BY <2>1, <2>2 DEF CloseContext
      <3>2. ghost'.begun = ghost.begun /\ ghost'.finished = ghost.finished \cup {current.id}
        BY <1>w, <3>1 DEF History
      <3> QED
        BY <2>1, <3>1, <3>2, SettlingTruth
    <2>3. CASE ~(t = Worker /\ Len(stack[t]) = 1)
      BY <1>n, <2>1, <2>3 DEF CloseContext
    <2> QED
      BY <2>2, <2>3
  <1>10. CASE StopWithoutWaiting
    <2>1. CASE worker = "none"
      BY <1>n, <1>10, <2>1 DEF StopWithoutWaiting
    <2>2. CASE worker # "none"
      <3>1. /\ queue' = queue \ queue /\ verdict' = Settled(queue, "dropped") /\ pc' = AllWoken
            /\ UNCHANGED <<current, call, ghost>> /\ stats'.emitCalls = stats.emitCalls
        BY <1>w, <1>10, <2>2 DEF StopWithoutWaiting, Counters
      <3> QED
        BY <3>1, DroppingTruth
    <2> QED
      BY <2>1, <2>2
  <1>11. ASSUME NEW t \in Tasks, HandlerStops(t) \/ StopCallback(t) PROVE TruthInv'
    BY <1>n, <1>10, <1>11 DEF HandlerStops, StopCallback
  <1>12. ASSUME NEW c \in Controllers, NEW r \in Tasks, DropQueuedEventsForResource(c, r)
         PROVE  TruthInv'
    <2> DEFINE dropped == {e \in queue : e.bytes /\ e.res = r}
    <2>1. /\ queue' = queue \ dropped /\ verdict' = Settled(dropped, "dropped")
          /\ pc' = AllWoken /\ UNCHANGED <<current, call, ghost>>
          /\ dropped \in SUBSET queue
      BY <1>12 DEF DropQueuedEventsForResource
    <2>2. stats'.emitCalls = stats.emitCalls
      BY <1>w, <1>12 DEF DropQueuedEventsForResource, Counters
    <2> HIDE DEF dropped
    <2> QED
      BY <2>1, <2>2, DroppingTruth
  <1>13. ASSUME NEW c \in Controllers,
                \/ Start(c) \/ StopCancelled(c) \/ StopReturns(c) \/ HandlerContextRecheck(c)
                \/ \E r \in Tasks : WaitForHandlerContext(c, r)
         PROVE  TruthInv'
    BY <1>n, <1>13 DEF Start, StopCancelled, StopReturns, HandlerContextRecheck, WaitForHandlerContext
  <1>14. ASSUME NEW c \in Controllers, StopCalled(c) PROVE TruthInv'
    BY <1>w, <1>n, <1>14 DEF StopCalled, AllWoken
  <1>15. ASSUME NEW c \in Controllers, StopFromHandlerOrigin(c) PROVE TruthInv'
    BY <1>10, <1>15 DEF StopFromHandlerOrigin
  <1>16. CASE UNCHANGED vars
    BY <1>n, <1>16 DEF vars
  <1> QED
    BY <1>w, <1>1, <1>2, <1>3, <1>4, <1>5, <1>6, <1>7, <1>8, <1>9, <1>11, <1>12, <1>13, <1>14,
       <1>15, <1>16
    DEF Next, WorkerLoop, HandlerStep, ProducerStep, ControllerStep

\* A barrier tells the truth, whatever was evicted, stopped, cleaned up, aborted or
\* cancelled meanwhile: success means that the delivery of the call's own event
\* came to an end, a drop that it never began.
THEOREM BarriersTellTheTruth == Spec => []BarrierTellsTheTruth
  <1>1. Init => TruthInv
    BY DEF Init, TruthInv, Attached, Numbered, Truth, Waits, Sleeps, NoCall
  <1>2. TruthInv => BarrierTellsTheTruth
    BY DEF TruthInv, Numbered, Truth, BarrierTellsTheTruth
  <1> QED
    BY <1>1, <1>2, TypeCorrect, TruthStep, PTL DEF Spec

-----------------------------------------------------------------------------
(***************************************************************************)
(* Waiting for a handler context.                                           *)
(***************************************************************************)
\* The topmost context of t, if it is that of a stop callback, is open.
Speaks(t) == pc[t] = "run" \/ call[t].control # "policystop"

\* A step that closes no context, and wakes nobody, leaves those who wait with a
\* context to wait for.
LEMMA ContextsStay ==
  ASSUME TypeOK, NoLostContextWakeup,
         \A c \in Controllers : cpc'[c] = "ctxwait" => cpc[c] = "ctxwait" /\ cres'[c] = cres[c],
         \A t \in Tasks : Speaks(t) => pc'[t] = "run" \/ call'[t].control # "policystop",
         \A t \in Tasks : \/ stack'[t] = stack[t]
                          \/ stack[t] = <<>>
                          \/ \E f \in Frame : f.kind # "policystop" /\ stack'[t] = Append(stack[t], f)
                          \/ /\ stack[t] # <<>>
                             /\ stack'[t] = [stack[t] EXCEPT ![Len(stack[t])].kind = "stopcbdone"]
  PROVE  NoLostContextWakeup'
  <1>w. \A t \in Tasks : stack[t] \in Seq(Frame)
    BY DEF TypeOK
  <1>1. ASSUME NEW t \in Tasks, NEW i \in 1 .. Len(stack[t]), IsOpen(t, i)
        PROVE  /\ i \in 1 .. Len(stack'[t]) /\ stack'[t][i].res = stack[t][i].res
               /\ stack'[t][i].kind = "stopcb" =>
                    IF i < Len(stack'[t]) THEN stack'[t][i + 1].kind # "policystop"
                    ELSE pc'[t] = "run" \/ call'[t].control # "policystop"
    <2>1. stack[t] \in Seq(Frame) /\ Len(stack[t]) \in Nat /\ stack[t] # <<>>
      BY <1>w
    <2>2. CASE stack'[t] = stack[t]
      BY <1>1, <2>2 DEF IsOpen, Speaks
    <2>3. ASSUME NEW f \in Frame, f.kind # "policystop", stack'[t] = Append(stack[t], f)
          PROVE  /\ i \in 1 .. Len(stack'[t]) /\ stack'[t][i] = stack[t][i]
                 /\ i < Len(stack'[t])
                 /\ stack'[t][i + 1] = IF i < Len(stack[t]) THEN stack[t][i + 1] ELSE f
      BY <2>1, <2>3
    <2>4. CASE stack'[t] = [stack[t] EXCEPT ![Len(stack[t])].kind = "stopcbdone"]
      <3>1. /\ Len(stack'[t]) = Len(stack[t])
            /\ \A j \in 1 .. Len(stack[t]) :
                 stack'[t][j] = IF j = Len(stack[t]) THEN [stack[t][j] EXCEPT !.kind = "stopcbdone"]
                                ELSE stack[t][j]
        BY <2>1, <2>4
      <3>2. \A f \in Frame : [f EXCEPT !.kind = "stopcbdone"].res = f.res
                             /\ [f EXCEPT !.kind = "stopcbdone"].kind = "stopcbdone"
        BY DEF Frame
      <3>3. stack[t][i] \in Frame /\ (i < Len(stack[t]) => stack[t][i + 1] \in Frame)
        BY <2>1
      <3>4. i \in 1 .. Len(stack'[t]) /\ stack'[t][i].res = stack[t][i].res
        BY <3>1, <3>2, <3>3
      <3>5. CASE i = Len(stack[t])
        BY <3>1, <3>2, <3>3, <3>4, <3>5
      <3>6. CASE i < Len(stack[t])
        <4>0. i \in Nat /\ Len(stack[t]) \in Nat /\ i # Len(stack[t]) /\ i + 1 \in 1 .. Len(stack[t])
          BY <2>1, <3>6
        <4>1. stack'[t][i] = stack[t][i]
          BY <3>1, <4>0
        <4>2. stack'[t][i + 1].kind \in {"stopcbdone", stack[t][i + 1].kind}
          <5> DEFINE j == i + 1
          <5>1. j \in 1 .. Len(stack[t]) /\ stack[t][j] \in Frame
            BY <3>3, <3>6, <4>0
          <5> HIDE DEF j
          <5>2. CASE j = Len(stack[t])
            <6>1. stack'[t][j] = [stack[t][j] EXCEPT !.kind = "stopcbdone"]
              BY <3>1, <5>1, <5>2
            <6>2. [stack[t][j] EXCEPT !.kind = "stopcbdone"].kind = "stopcbdone"
              BY <3>2, <5>1
            <6> QED
              BY <6>1, <6>2 DEF j
          <5>3. CASE j # Len(stack[t])
            <6>1. stack'[t][j] = stack[t][j]
              BY <3>1, <5>1, <5>3
            <6> QED
              BY <6>1 DEF j
          <5> QED
            BY <5>2, <5>3 DEF j
        <4> QED
          BY <1>1, <3>1, <3>4, <3>6, <4>1, <4>2 DEF IsOpen
      <3> QED
        BY <2>1, <3>5, <3>6
    <2> QED
      BY <1>1, <2>1, <2>2, <2>3, <2>4 DEF IsOpen
  <1>2. ASSUME NEW r, ActiveHandlerContext(r) PROVE ActiveHandlerContext(r)'
    BY <1>1, <1>2 DEF ActiveHandlerContext, IsOpen
  <1> QED
    BY <1>2 DEF NoLostContextWakeup


\* One pass of _enqueue() says nothing on behalf of a stop callback that the event
\* of the call did not say already.
LEMMA EnqueueSpeaks ==
  ASSUME TypeOK, NEW t \in Tasks, NEW e \in Event, NEW s, Enqueue(t, e, s)
  PROVE  /\ \A u \in Tasks \ {t} : pc'[u] = pc[u] /\ call'[u] = call[u]
         /\ pc'[t] = "run" \/ call'[t].control \in {e.control, "data"}
  <1>w. pc \in [Tasks -> Suspensions] /\ call \in [Tasks -> Event]
    BY DEF TypeOK
  <1>1. \A n : [e EXCEPT !.ticket = n].control = e.control
    BY DEF Event
  <1>2. NoCall.control = "data"
    BY DEF NoCall
  <1>3. ASSUME NEW f, f.control = e.control, Accepted(t, f)
        PROVE  /\ \A u \in Tasks \ {t} : pc'[u] = pc[u] /\ call'[u] = call[u]
               /\ call'[t].control \in {e.control, "data"}
    BY <1>w, <1>2, <1>3 DEF Accepted
  <1>4. CASE AppendEvent(t, e, s)
    BY <1>1, <1>3, <1>4 DEF AppendEvent
  <1>5. CASE EvictOldest(t, e, s)
    BY <1>1, <1>3, <1>5 DEF EvictOldest
  <1>6. CASE WaitForSpace(t, e, s)
    BY <1>w, <1>6 DEF WaitForSpace
  <1>7. CASE DropNewest(t, e, s) \/ DropInStopPhase(t, s)
    BY <1>w, <1>7 DEF DropNewest, DropInStopPhase, Refused
  <1> QED
    BY <1>4, <1>5, <1>6, <1>7 DEF Enqueue

\* Every action keeps NoLostContextWakeup: whatever closes a context also notifies.
LEMMA ContextStep ==
  TypeOK /\ WorkerSide /\ NoLostContextWakeup /\ [Next]_vars => NoLostContextWakeup'
  <1> SUFFICES ASSUME TypeOK, WorkerSide, NoLostContextWakeup, [Next]_vars
               PROVE  NoLostContextWakeup'
    OBVIOUS
  <1>w. /\ pc \in [Tasks -> Suspensions] /\ call \in [Tasks -> Event]
        /\ stack \in [Tasks -> Seq(Frame)] /\ cpc \in [Controllers -> ControllerStates]
        /\ cres \in [Controllers -> Tasks] /\ Worker \in Tasks /\ queue \subseteq Event
    BY DEF TypeOK, Tasks
  <1>d. NoCall.control = "data"
    BY DEF NoCall
  <1>c. ASSUME ContextChanged PROVE NoLostContextWakeup'
    BY <1>c DEF ContextChanged, NoLostContextWakeup
  \* Steps that touch neither the contexts nor, but for a wake-up, the calls.
  <1>q. ASSUME UNCHANGED <<stack, call>>,
               \A c \in Controllers : cpc'[c] = "ctxwait" => cpc[c] = "ctxwait" /\ cres'[c] = cres[c],
               \A u \in Tasks : pc[u] = "run" => pc'[u] = "run"
        PROVE  NoLostContextWakeup'
    BY <1>q, ContextsStay DEF Speaks
  <1>1. ASSUME NEW t \in Tasks, NEW k \in Kinds, pc[t] = "run",
               Emit(t, NewEvent(t, k, "data"), stack[t]), UNCHANGED cpc
        PROVE  NoLostContextWakeup'
    <2> DEFINE e == NewEvent(t, k, "data")
    <2>1. e \in Event /\ e.control = "data" /\ FrameOf(e) \in Frame /\ FrameOf(e).kind = "data"
      <3>1. e \in Event
        BY NewEventType, KindAssumption DEF TypeOK, Controls
      <3>2. e.control = "data"
        BY DEF NewEvent
      <3> QED
        BY <3>1, <3>2 DEF Event, FrameOf, Frame, FrameKinds
    <2> HIDE DEF e
    <2>2. UNCHANGED <<cpc, cres>> /\ (EmitInline(t, e, stack[t]) \/ EmitToQueue(t, e, stack[t]))
      BY <1>1 DEF Emit, e
    <2>3. CASE EmitInline(t, e, stack[t])
      <3>1. /\ UNCHANGED <<pc, call>> /\ \A u \in Tasks \ {t} : stack'[u] = stack[u]
            /\ stack'[t] = Append(stack[t], FrameOf(e))
        BY <1>w, <2>3 DEF EmitInline
      <3>2. \A u \in Tasks : \/ stack'[u] = stack[u]
                             \/ \E f \in Frame : f.kind # "policystop" /\ stack'[u] = Append(stack[u], f)
        BY <2>1, <3>1
      <3> QED
        BY <2>2, <3>1, <3>2, ContextsStay DEF Speaks
    <2>4. CASE EmitToQueue(t, e, stack[t])
      <3>1. UNCHANGED stack
        BY <1>w, <2>4 DEF EmitToQueue
      <3>2. /\ \A u \in Tasks \ {t} : pc'[u] = pc[u] /\ call'[u] = call[u]
            /\ pc'[t] = "run" \/ call'[t].control \in {e.control, "data"}
        BY <2>1, <2>4, EnqueueSpeaks DEF EmitToQueue
      <3> QED
        BY <2>1, <2>2, <3>1, <3>2, ContextsStay DEF Speaks
    <2> QED
      BY <2>2, <2>3, <2>4
  <1>2. ASSUME NEW t \in Producers, ProducerEmits(t) PROVE NoLostContextWakeup'
    BY <1>1, <1>2 DEF ProducerEmits, Tasks
  <1>3. ASSUME NEW t \in Tasks, HandlerEmits(t) PROVE NoLostContextWakeup'
    BY <1>1, <1>3 DEF HandlerEmits, InHandler
  <1>4. ASSUME NEW t \in Producers, CancelBarrier(t) PROVE NoLostContextWakeup'
    BY <1>w, <1>q, <1>4 DEF CancelBarrier, Tasks
  <1>5. ASSUME NEW t \in Tasks, ProducerRetries(t) PROVE NoLostContextWakeup'
    <2>1. call[t] \in Event /\ pc[t] # "run" /\ UNCHANGED <<stack, cpc, cres>>
      BY <1>w, <1>5 DEF ProducerRetries
    <2>2. /\ \A u \in Tasks \ {t} : pc'[u] = pc[u] /\ call'[u] = call[u]
          /\ pc'[t] = "run" \/ call'[t].control \in {call[t].control, "data"}
      BY <1>5, <2>1, EnqueueSpeaks DEF ProducerRetries
    <2> QED
      BY <2>1, <2>2, ContextsStay DEF Speaks
  <1>6. ASSUME NEW t \in Tasks, BarrierReturns(t) PROVE NoLostContextWakeup'
    <2>1. CASE pc[t] = "await_cancelled" /\ verdict[t] = "handled"
      BY <1>c, <1>6, <2>1 DEF BarrierReturns
    <2>2. CASE ~(pc[t] = "await_cancelled" /\ verdict[t] = "handled")
      <3>1. UNCHANGED <<stack, cpc, cres>>
        BY <1>w, <1>6, <2>2 DEF BarrierReturns
      <3>2. pc'[t] = "run" /\ \A u \in Tasks \ {t} : pc'[u] = pc[u] /\ call'[u] = call[u]
        BY <1>w, <1>6 DEF BarrierReturns
      <3> QED
        BY <3>1, <3>2, ContextsStay DEF Speaks
    <2> QED
      BY <2>1, <2>2
  <1>7. CASE WorkerTakes
    <2>1. /\ UNCHANGED <<call, cpc, cres>> /\ stack[Worker] = <<>>
          /\ \A u \in Tasks \ {Worker} : stack'[u] = stack[u]
      BY <1>w, <1>7 DEF WorkerTakes, WorkerSide
    <2>2. \A u \in Tasks : pc[u] = "run" => pc'[u] = "run"
      BY <1>w, <1>7 DEF WorkerTakes, NotifyNotFull
    <2> QED
      BY <2>1, <2>2, ContextsStay DEF Speaks
  <1>8. CASE WorkerSleeps \/ WorkerExits
    BY <1>q, <1>8 DEF WorkerSleeps, WorkerExits
  <1>9. CASE \/ WorkerAborts \/ WorkerHandlerFails
             \/ \E t \in Producers : CancelBlocked(t)
             \/ \E t \in Tasks : HandlerReturns(t) \/ HandlerFailsQuietly(t) \/ InlineHandlerFails(t)
    BY <1>c, <1>9 DEF WorkerAborts, WorkerHandlerFails, CancelBlocked, HandlerReturns,
       HandlerFailsQuietly, InlineHandlerFails, CloseContext
  <1>10. ASSUME StopWithoutWaiting
         PROVE  UNCHANGED <<call, cpc, cres>> /\ \A u \in Tasks : pc[u] = "run" => pc'[u] = "run"
    BY <1>w, <1>10 DEF StopWithoutWaiting, AllWoken
  <1>11. ASSUME NEW t \in Tasks, HandlerStops(t) PROVE NoLostContextWakeup'
    BY <1>q, <1>10, <1>11 DEF HandlerStops
  <1>12. ASSUME NEW t \in Tasks, StopCallback(t) PROVE NoLostContextWakeup'
    <2>1. UNCHANGED <<call, cpc, cres>> /\ \A u \in Tasks : pc[u] = "run" => pc'[u] = "run"
      BY <1>10, <1>12 DEF StopCallback
    <2>2. /\ stack[t] # <<>> /\ \A u \in Tasks \ {t} : stack'[u] = stack[u]
          /\ stack'[t] = [stack[t] EXCEPT ![Len(stack[t])].kind = "stopcbdone"]
      BY <1>w, <1>12 DEF StopCallback, InHandler
    <2> QED
      BY <2>1, <2>2, ContextsStay DEF Speaks
  <1>13. ASSUME NEW c \in Controllers,
                \/ Start(c) \/ StopCalled(c) \/ StopCancelled(c) \/ StopReturns(c)
                \/ \E r \in Tasks : DropQueuedEventsForResource(c, r)
         PROVE  NoLostContextWakeup'
    BY <1>w, <1>q, <1>13 DEF Start, StopCalled, StopCancelled, StopReturns,
       DropQueuedEventsForResource, AllWoken
  <1>14. ASSUME NEW c \in Controllers, StopFromHandlerOrigin(c) PROVE NoLostContextWakeup'
    BY <1>q, <1>10, <1>14 DEF StopFromHandlerOrigin
  <1>15. ASSUME NEW c \in Controllers,
                HandlerContextRecheck(c) \/ \E r \in Tasks : WaitForHandlerContext(c, r)
         PROVE  NoLostContextWakeup'
    <2>1. UNCHANGED <<stack, pc, call>>
      BY <1>15 DEF HandlerContextRecheck, WaitForHandlerContext
    <2>2. \A r : ActiveHandlerContext(r)' <=> ActiveHandlerContext(r)
      BY <2>1 DEF ActiveHandlerContext, IsOpen
    <2>3. \A d \in Controllers : cpc'[d] = "ctxwait" => ActiveHandlerContext(cres'[d])
      BY <1>w, <1>15 DEF HandlerContextRecheck, WaitForHandlerContext, NoLostContextWakeup
    <2> QED
      BY <2>1, <2>3 DEF NoLostContextWakeup, ActiveHandlerContext, IsOpen
  <1>16. CASE UNCHANGED vars
    BY <1>q, <1>16 DEF vars
  <1> QED
    BY <1>2, <1>3, <1>4, <1>5, <1>6, <1>7, <1>8, <1>9, <1>11, <1>12, <1>13, <1>14, <1>15, <1>16
    DEF Next, WorkerLoop, HandlerStep, ProducerStep, ControllerStep

\* No lost wake-up in wait_for_handler_context(): who still sleeps has an open handler
\* context of its resource to wait for, through nested handlers, failure policies,
\* stop callbacks, cancellations and an aborting worker.
THEOREM ContextWakeupsKept == Spec => []NoLostContextWakeup
  <1>1. Init => NoLostContextWakeup
    BY DEF Init, NoLostContextWakeup
  <1> QED
    BY <1>1, TypeCorrect, WorkerSideInvariant, ContextStep, PTL DEF Spec

================================================================================
