----------------------- MODULE DatagramReceiverProofs -----------------------
(***************************************************************************)
(* What a datagram receiver holds and what its stop() leaves, for every     *)
(* number of stoppers, every application and every bound: proofs about      *)
(* DatagramReceiver.                                                        *)
(***************************************************************************)
EXTENDS DatagramReceiver, TLAPS

StopPlan == [phase : Phases, owner : Tasks, by : Tasks, deferred : BOOLEAN, cancels : BOOLEAN,
             sock : BOOLEAN, closes : BOOLEAN, event : BOOLEAN, error : BOOLEAN]

\* The type invariant by groups of variables.
RunTypes == /\ state \in Lifecycle
            /\ running \in BOOLEAN /\ sock \in BOOLEAN /\ task \in BOOLEAN
StopTypes == stop \in StopPlan
CallTypes == pc \in [Callers -> CallStates]
CloseTypes == opening \in BOOLEAN /\ deferred \in BOOLEAN /\ waiter \in {"none", "pending"}
PlaceTypes == /\ handoff \in {"none", "run", "emitted", "no", "yes", "raised"}
              /\ start \in StartStates /\ recv \in ReceiverStates
WorkerTypes == worker \in {"none", "run"} /\ stopping \in BOOLEAN /\ sweeper \in BOOLEAN
EmitTypes == /\ handler \in [Tasks -> Events \cup {"none"}]
             /\ blocked \in [Tasks -> Events \cup {"none"}]
             /\ failed \in [Tasks -> BOOLEAN] /\ barrier \in BOOLEAN
             /\ queue \in Seq(Events) /\ Len(queue) <= QueueBound
Types == /\ setup \in Setups /\ RunTypes /\ StopTypes /\ CallTypes /\ CloseTypes /\ PlaceTypes
         /\ WorkerTypes /\ EmitTypes

LEMMA TypesOfTypeOK == TypeOK <=> Types /\ turn \in Tasks \cup {"none"}
  <1>1. TypeOK => Types
    BY DEF TypeOK, Types, RunTypes, StopTypes, CallTypes, CloseTypes, PlaceTypes, WorkerTypes,
           EmitTypes, StopPlan
  <1>2. Types /\ turn \in Tasks \cup {"none"} => TypeOK
    BY DEF TypeOK, Types, RunTypes, StopTypes, CallTypes, CloseTypes, PlaceTypes, WorkerTypes,
           EmitTypes, StopPlan
  <1> QED
    BY <1>1, <1>2 DEF TypeOK

\* What the next-state relation does apart from the turns.
Acts == \/ StartCalled \/ StartCancelled \/ StartStep
        \/ \E c \in Stoppers : StopCalled(c) \/ StopperCancelled(c)
        \/ DatagramArrives \/ ReceiveFails \/ ReceiverStep
        \/ \E t \in Tasks : HandlerStops(t) \/ HandlerRaises(t) \/ HandlerReturns(t) \/ Unblocked(t)
        \/ StopStep \/ HandoffStep \/ WorkerStep \/ Sweeps

LEMMA NextActs == StopTypes /\ turn \in Tasks \cup {"none"} /\ Next =>
                  Acts /\ turn' \in Tasks \cup {"none"}
  BY DEF Next, Acts, Runs, ReceiverStep, Tasks, Callers, StopTypes, StopPlan

-----------------------------------------------------------------------------
(***************************************************************************)
(* What the pieces of the actions do to the types.                          *)
(***************************************************************************)
LEMMA RoomAssumption == QueueBound \in Nat /\ 0 < QueueBound
  BY BoundAssumption DEF BoundAssumption

LEMMA EmitTyped ==
  ASSUME EmitTypes, NEW t \in Tasks, NEW e \in Events, NEW g, NEW a \in BOOLEAN,
         EmitIf(t, e, g, a)
  PROVE  EmitTypes'
  <1>1. CASE DeliversInline(t)
    BY <1>1 DEF EmitTypes, EmitIf
  <1>2. CASE ~DeliversInline(t)
    <2>1. IsBarrier(e) \in BOOLEAN
      BY DEF IsBarrier
    <2>2. failed' \in [Tasks -> BOOLEAN] /\ barrier' \in BOOLEAN
      BY <1>2, <2>1 DEF EmitTypes, EmitIf
    <2>3. CASE a /\ Len(queue) < QueueBound
      <3>1. queue' = Append(queue, e) /\ UNCHANGED <<handler, blocked>>
        BY <1>2, <2>3 DEF EmitIf
      <3>2. queue' \in Seq(Events) /\ Len(queue') <= QueueBound
        BY <2>3, <3>1, RoomAssumption DEF EmitTypes
      <3> QED
        BY <2>2, <3>1, <3>2 DEF EmitTypes
    <2>4. CASE ~(a /\ Len(queue) < QueueBound)
      BY <1>2, <2>2, <2>4 DEF EmitTypes, EmitIf
    <2> QED
      BY <2>3, <2>4
  <1> QED
    BY <1>1, <1>2

LEMMA NothingTyped ==
  ASSUME EmitTypes, NEW t \in Tasks, NEW g, EmitsNothing(t, g)
  PROVE  EmitTypes'
  BY DEF EmitTypes, EmitsNothing

\* A step that emits nothing of what is queued.
LEMMA FailsTyped ==
  ASSUME EmitTypes, NEW t \in Tasks, NEW b \in BOOLEAN,
         failed' = [failed EXCEPT ![t] = b],
         UNCHANGED <<handler, blocked, barrier, queue>>
  PROVE  EmitTypes'
  BY DEF EmitTypes

LEMMA OutcomeTyped ==
  ASSUME NEW t, NEW o \in {"returned", "raised"}
  PROVE  Outcome(t, o) \in CallStates
  BY DEF Outcome, CallStates

LEMMA ErrorTyped == StopTypes /\ EmitTypes => SeesError \in BOOLEAN
  BY DEF SeesError, StopTypes, StopPlan, EmitTypes

LEMMA DropsTyped ==
  ASSUME EmitTypes, WorkerTypes, DropsQueue
  PROVE  /\ stopping' \in BOOLEAN /\ failed' \in [Tasks -> BOOLEAN] /\ barrier' \in BOOLEAN
         /\ queue' \in Seq(Events) /\ Len(queue') <= QueueBound
  <1> DEFINE drops == Background /\ \E i \in 1..Len(queue) : IsBarrier(queue[i])
  <1>1. drops \in BOOLEAN
    OBVIOUS
  <1>2. /\ stopping' = (stopping \/ Background)
        /\ queue' = IF Background THEN <<>> ELSE queue
        /\ barrier' = (barrier /\ ~drops)
        /\ failed' = [failed EXCEPT !["starter"] = @ \/ drops]
    BY DEF DropsQueue
  <1> HIDE DEF drops
  <1> QED
    BY <1>1, <1>2, RoomAssumption DEF EmitTypes, WorkerTypes, Tasks, Callers, Background

LEMMA PlanTyped ==
  ASSUME RunTypes, StopTypes, NEW t \in Tasks, NEW d \in BOOLEAN, NEW c \in BOOLEAN, Plan(t, d, c)
  PROVE  RunTypes' /\ StopTypes'
  BY DEF RunTypes, StopTypes, StopPlan, Plan, Lifecycle, Phases

LEMMA CompletedTyped ==
  ASSUME CallTypes, NEW err \in BOOLEAN, Completed(err)
  PROVE  StopTypes' /\ CallTypes'
  <1>1. StopTypes'
    BY DEF Completed, NoStop, StopTypes, StopPlan, Phases, Tasks
  <1>2. CallTypes'
    BY OutcomeTyped DEF Completed, CallTypes
  <1> QED
    BY <1>1, <1>2

LEMMA CallStopTyped ==
  ASSUME Types, NEW t \in Callers, NEW g, CallStop(t, g)
  PROVE  RunTypes' /\ StopTypes' /\ CallTypes' /\ EmitTypes' /\ stopping' \in BOOLEAN
  <1> DEFINE active == ActiveHandler /\ DeliversInline(t)
  <1>t. t \in Tasks /\ active \in BOOLEAN /\ "STOPPING" \in Events /\ Background \in BOOLEAN
    BY DEF Tasks, Events, Background, ActiveHandler, DeliversInline
  <1>u. RunTypes /\ StopTypes /\ CallTypes /\ EmitTypes /\ stopping \in BOOLEAN
    BY DEF Types, WorkerTypes
  <1>1. CASE /\ stop.phase # "none"
             /\ pc' = [pc EXCEPT ![t] = IF stop.owner = t THEN Outcome(t, "returned") ELSE "join"]
             /\ EmitsNothing(t, g)
             /\ UNCHANGED <<runtimeVars, stop, stopping>>
    <2>1. EmitTypes'
      BY <1>1, <1>t, <1>u, NothingTyped
    <2> QED
      BY <1>1, <1>u, <2>1, OutcomeTyped DEF runtimeVars, RunTypes, StopTypes, CallTypes, CallStates
  <1>2. CASE /\ stop.phase = "none" /\ FullyStopped
             /\ StopsDispatcher(t)
             /\ EmitsNothing(t, g)
             /\ UNCHANGED <<runtimeVars, stop>>
    <2>1. EmitTypes'
      BY <1>2, <1>t, <1>u, NothingTyped
    <2> QED
      BY <1>2, <1>t, <1>u, <2>1, OutcomeTyped
      DEF runtimeVars, RunTypes, StopTypes, CallTypes, CallStates, StopsDispatcher
  <1>3. CASE /\ stop.phase = "none" /\ ~FullyStopped
             /\ Plan(t, active, ~active)
             /\ pc' = [pc EXCEPT ![t] = "own"]
             /\ IF active \/ state = "STOPPING" THEN EmitsNothing(t, g) ELSE Emit(t, "STOPPING", g)
             /\ UNCHANGED stopping
    <2>1. EmitTypes'
      <3>1. EmitsNothing(t, g) \/ EmitIf(t, "STOPPING", g, ~stopping)
        BY <1>3 DEF Emit
      <3> QED
        BY <3>1, <1>t, <1>u, NothingTyped, EmitTyped
    <2>2. RunTypes' /\ StopTypes'
      BY <1>3, <1>t, <1>u, PlanTyped
    <2> QED
      BY <1>3, <1>u, <2>1, <2>2 DEF CallTypes, CallStates
  <1> HIDE DEF active
  <1> QED
    BY <1>1, <1>2, <1>3 DEF CallStop, active

-----------------------------------------------------------------------------
(***************************************************************************)
(* Types.                                                                   *)
(***************************************************************************)
LEMMA InitTypes == Init => TypeOK
  <1> SUFFICES ASSUME Init PROVE Types /\ turn \in Tasks \cup {"none"}
    BY TypesOfTypeOK
  <1>1. EmitTypes
    <2>1. queue \in Seq(Events) /\ Len(queue) <= QueueBound
      BY RoomAssumption DEF Init
    <2> QED
      BY <2>1 DEF Init, EmitTypes
  <1>2. StopTypes
    BY DEF Init, StopTypes, StopPlan, NoStop, Phases, Tasks
  <1> QED
    BY <1>1, <1>2 DEF Init, Types, RunTypes, CallTypes, CloseTypes, PlaceTypes, WorkerTypes,
           Lifecycle, StartStates, ReceiverStates, CallStates

\* The starting task keeps the types.
LEMMA StartTyped ==
  ASSUME Types, StartCalled \/ StartCancelled \/ StartStep
  PROVE  Types'
  <1>t. /\ RunTypes /\ StopTypes /\ CallTypes /\ CloseTypes /\ PlaceTypes /\ WorkerTypes /\ EmitTypes
        /\ "starter" \in Tasks /\ "starter" \in Callers
        /\ {"STARTING", "RUNNING", "STOPPED", "opened"} \subseteq Events
        /\ (~stopping) \in BOOLEAN /\ (~stopping') \in BOOLEAN /\ Background \in BOOLEAN
    BY DEF Types, Tasks, Callers, Events, Background
  <1> USE <1>t DEF Types, runtimeVars, closeVars, taskVars, emitVars, workerVars
  <1>1. CASE StartCalled
    <2>1. EmitTypes'
      <3>1. \E g : EmitIf("starter", "STARTING", g, ~stopping') \/ EmitsNothing("starter", g)
        BY <1>1 DEF StartCalled
      <3> QED
        BY <3>1, EmitTyped, NothingTyped
    <2>2. PlaceTypes' /\ RunTypes'
      BY <1>1 DEF StartCalled, EmitsNothing, PlaceTypes, StartStates, RunTypes, Lifecycle
    <2>3. WorkerTypes'
      <3> DEFINE starts == Background /\ worker = "none"
      <3>1. /\ worker' = IF starts THEN "run" ELSE worker
            /\ stopping' = (stopping /\ ~starts) /\ sweeper' = sweeper
        BY <1>1 DEF StartCalled
      <3> HIDE DEF starts
      <3> QED
        BY <3>1 DEF WorkerTypes
    <2> QED
      BY <1>1, <2>1, <2>2, <2>3 DEF StartCalled, StopTypes, CallTypes, CloseTypes
  <1>2. CASE StartCancelled
    <2>1. EmitTypes'
      BY <1>2 DEF StartCancelled, CancelsEmit, EmitTypes
    <2>2. CallTypes'
      BY <1>2 DEF StartCancelled, CancelsEmit, CallTypes, CallStates
    <2> QED
      BY <1>2, <2>1, <2>2
      DEF StartCancelled, CancelsEmit, StopTypes, CloseTypes, RunTypes, PlaceTypes, WorkerTypes
  <1>3. CASE StartRollsBack \/ StartFails
    <2>1. EmitTypes'
      BY <1>3, NothingTyped DEF StartRollsBack, StartFails
    <2>2. PlaceTypes' /\ RunTypes' /\ WorkerTypes'
      BY <1>3 DEF StartRollsBack, StartFails, StartStopsDispatcher, PlaceTypes, StartStates, RunTypes,
                  Lifecycle, WorkerTypes
    <2> QED
      BY <1>3, <2>1, <2>2 DEF StartRollsBack, StartFails, StopTypes, CallTypes, CloseTypes
  <1>4. CASE StartOvertaken \/ StartEnds
    <2>1. CallTypes' /\ PlaceTypes'
      BY <1>4 DEF StartOvertaken, StartEnds, CallTypes, CallStates, PlaceTypes, StartStates
    <2> QED
      BY <1>4, <2>1 DEF StartOvertaken, StartEnds, EmitTypes, StopTypes, RunTypes, CloseTypes, WorkerTypes
  <1>5. CASE Binds \/ BindFails
    <2>1. EmitTypes'
      <3>1. \E g, e : e \in Events /\ EmitIf("starter", e, g, ~stopping)
        BY <1>5 DEF Binds, BindFails, Emit
      <3> QED
        BY <3>1, EmitTyped
    <2>2. /\ UNCHANGED <<setup, task, stop, closeVars, recv, handoff, pc, workerVars>>
          /\ running' \in {TRUE, running} /\ sock' \in {TRUE, sock}
          /\ state' \in {"RUNNING", "STOPPED"} /\ start' \in {"running", "failing"}
      BY <1>5 DEF Binds, BindFails
    <2>3. RunTypes'
      BY <2>2 DEF RunTypes, Lifecycle
    <2>4. PlaceTypes'
      BY <2>2 DEF PlaceTypes, StartStates
    <2> QED
      BY <2>1, <2>2, <2>3, <2>4 DEF StopTypes, CallTypes, CloseTypes, WorkerTypes
  <1>6. CASE Opens
    <2>1. EmitTypes'
      <3>1. \/ EmitIf("starter", "opened", ghost, ~stopping) \/ UNCHANGED emitVars
        BY <1>6 DEF Opens, Emit
      <3>2. CASE UNCHANGED emitVars
        BY <3>2 DEF EmitTypes
      <3> QED
        BY <3>1, <3>2, EmitTyped
    <2>2. /\ UNCHANGED <<setup, runtimeVars, stop, deferred, waiter, recv, handoff, pc, workerVars>>
          /\ start' \in {"opened", "idle"} /\ opening' \in {TRUE, opening}
      BY <1>6 DEF Opens
    <2>3. RunTypes' /\ StopTypes' /\ CallTypes'
      BY <2>2 DEF RunTypes, StopTypes, CallTypes
    <2>4. PlaceTypes' /\ WorkerTypes'
      BY <2>2 DEF PlaceTypes, StartStates, WorkerTypes
    <2>5. CloseTypes'
      BY <2>2 DEF CloseTypes
    <2> QED
      BY <2>1, <2>2, <2>3, <2>4, <2>5
  <1>7. CASE HandsOff
    <2>1. EmitTypes'
      BY <1>7, NothingTyped DEF HandsOff
    <2>2. CloseTypes'
      BY <1>7 DEF HandsOff, CloseTypes, EmitTypes
    <2> QED
      BY <1>7, <2>1, <2>2 DEF HandsOff, PlaceTypes, StartStates, RunTypes, StopTypes, CallTypes,
                              WorkerTypes
  <1>8. CASE StartStops
    <2>1. RunTypes' /\ StopTypes' /\ CallTypes' /\ EmitTypes' /\ stopping' \in BOOLEAN
      BY <1>8, CallStopTyped DEF StartStops
    <2> QED
      BY <1>8, <2>1 DEF StartStops, PlaceTypes, StartStates, CloseTypes, WorkerTypes
  <1>9. CASE StartSucceeds
    <2>1. /\ UNCHANGED <<setup, state, running, sock, stop, closeVars, pc, emitVars, workerVars>>
          /\ start' = "idle" /\ handoff' = "none" /\ recv' \in {"reading", recv} /\ task' \in {TRUE, task}
      BY <1>9 DEF StartSucceeds
    <2>2. RunTypes'
      BY <2>1 DEF RunTypes
    <2>3. PlaceTypes'
      BY <2>1 DEF PlaceTypes, StartStates, ReceiverStates
    <2> QED
      BY <2>1, <2>2, <2>3 DEF EmitTypes, StopTypes, CallTypes, CloseTypes, WorkerTypes
  <1> QED
    BY <1>1, <1>2, <1>3, <1>4, <1>5, <1>6, <1>7, <1>8, <1>9 DEF StartStep

\* The calls of stop() by stoppers and handlers, and their cancellation.
LEMMA StoppersTyped ==
  ASSUME Types, \/ \E c \in Stoppers : StopCalled(c) \/ StopperCancelled(c)
                \/ \E t \in Tasks : HandlerStops(t)
  PROVE  Types'
  <1>t. /\ RunTypes /\ StopTypes /\ CallTypes /\ CloseTypes /\ PlaceTypes /\ WorkerTypes /\ EmitTypes
        /\ Stoppers \subseteq Callers /\ Stoppers \subseteq Tasks
    BY DEF Types, Tasks, Callers
  <1> USE <1>t DEF Types, runtimeVars, closeVars, taskVars, emitVars, workerVars
  <1>1. ASSUME NEW c \in Stoppers, StopCalled(c) PROVE Types'
    <2>1. RunTypes' /\ StopTypes' /\ CallTypes' /\ EmitTypes' /\ stopping' \in BOOLEAN
      BY <1>1, CallStopTyped DEF StopCalled
    <2> QED
      BY <1>1, <2>1 DEF StopCalled, PlaceTypes, CloseTypes, WorkerTypes
  <1>2. ASSUME NEW c \in Stoppers, StopperCancelled(c) PROVE Types'
    <2>1. CASE CancelsEmit(c)
      <3>1. EmitTypes'
        BY <2>1 DEF CancelsEmit, EmitTypes
      <3> QED
        BY <1>2, <2>1, <3>1 DEF StopperCancelled, CancelsEmit, RunTypes, StopTypes, CallTypes, CloseTypes,
                                PlaceTypes, WorkerTypes
    <2>2. CASE CancelsStop(c) /\ UNCHANGED <<runtimeVars, closeVars, taskVars, emitVars, workerVars>>
      <3>1. StopTypes' /\ CallTypes'
        <4>1. CASE Completed(TRUE)
          BY <4>1, CompletedTyped
        <4>2. CASE ~Completed(TRUE)
          <5>1. CallTypes'
            BY <2>2, <4>2 DEF CancelsStop, CallTypes, CallStates
          <5>2. stop' \in {stop, [stop EXCEPT !.by = "completer"], [stop EXCEPT !.error = TRUE]}
            BY <2>2, <4>2 DEF CancelsStop
          <5>3. StopTypes'
            <6>1. CASE stop' = stop
              BY <6>1 DEF StopTypes
            <6>2. CASE stop' = [stop EXCEPT !.by = "completer"]
              BY <6>2 DEF StopTypes, StopPlan, Tasks
            <6>3. CASE stop' = [stop EXCEPT !.error = TRUE]
              BY <6>3 DEF StopTypes, StopPlan
            <6> QED
              BY <5>2, <6>1, <6>2, <6>3
          <5> QED
            BY <5>1, <5>3
        <4> QED
          BY <4>1, <4>2
      <3> QED
        BY <1>2, <2>2, <3>1 DEF StopperCancelled, RunTypes, CloseTypes, PlaceTypes, WorkerTypes, EmitTypes
    <2> QED
      BY <1>2, <2>1, <2>2 DEF StopperCancelled
  <1>3. ASSUME NEW t \in Tasks, HandlerStops(t) PROVE Types'
    <2>0. UNCHANGED <<setup, closeVars, taskVars, pc, handler, blocked, worker>>
      BY <1>3 DEF HandlerStops
    <2>1. CASE Plan(t, TRUE, TRUE) /\ UNCHANGED <<failed, barrier, queue, stopping, sweeper>>
      <3>1. RunTypes' /\ StopTypes'
        BY <2>1, PlanTyped
      <3> QED
        BY <2>0, <2>1, <3>1 DEF CallTypes, CloseTypes, PlaceTypes, WorkerTypes, EmitTypes
    <2>2. CASE /\ DropsQueue
               /\ sweeper' = (sweeper \/ (Background /\ stop.phase = "none"))
               /\ UNCHANGED <<runtimeVars, stop>>
      <3>1. /\ stopping' \in BOOLEAN /\ failed' \in [Tasks -> BOOLEAN] /\ barrier' \in BOOLEAN
            /\ queue' \in Seq(Events) /\ Len(queue') <= QueueBound
        BY <2>2, DropsTyped
      <3>2. EmitTypes' /\ WorkerTypes'
        BY <2>0, <2>2, <3>1 DEF EmitTypes, WorkerTypes
      <3> QED
        BY <2>0, <2>2, <3>2 DEF RunTypes, StopTypes, CallTypes, CloseTypes, PlaceTypes
    <2> QED
      BY <1>3, <2>1, <2>2 DEF HandlerStops
  <1> QED
    BY <1>1, <1>2, <1>3

\* The handler's end, and a producer that finds room.
LEMMA HandlersTyped ==
  ASSUME Types, NEW t \in Tasks, HandlerRaises(t) \/ HandlerReturns(t) \/ Unblocked(t)
  PROVE  Types'
  <1>t. /\ RunTypes /\ StopTypes /\ CallTypes /\ CloseTypes /\ PlaceTypes /\ WorkerTypes /\ EmitTypes
        /\ \A e : IsBarrier(e) \in BOOLEAN
    BY DEF Types, IsBarrier
  <1>0. UNCHANGED <<setup, runtimeVars, stop, closeVars, taskVars, pc, workerVars>>
    BY DEF HandlerRaises, HandlerReturns, HandlerEnds, Unblocked
  <1>1. ASSUME NEW r \in BOOLEAN, HandlerEnds(t, r) PROVE EmitTypes'
    <2>1. failed' \in [Tasks -> BOOLEAN] /\ barrier' \in BOOLEAN /\ blocked' = blocked
      BY <1>1, <1>t DEF HandlerEnds, EmitTypes
    <2>2. CASE t = "worker" /\ queue # <<>>
      <3>1. Head(queue) \in Events /\ Tail(queue) \in Seq(Events) /\ Len(Tail(queue)) <= QueueBound
        BY <1>t, <2>2, RoomAssumption DEF EmitTypes
      <3>2. handler' = [handler EXCEPT ![t] = Head(queue)] /\ queue' = Tail(queue)
        BY <1>1, <2>2 DEF HandlerEnds
      <3> QED
        BY <1>t, <2>1, <3>1, <3>2 DEF EmitTypes
    <2>3. CASE ~(t = "worker" /\ queue # <<>>)
      <3>1. handler' = [handler EXCEPT ![t] = "none"] /\ queue' = queue
        BY <1>1, <2>3 DEF HandlerEnds
      <3> QED
        BY <1>t, <2>1, <3>1 DEF EmitTypes
    <2> QED
      BY <2>2, <2>3
  <1>2. CASE Unblocked(t)
    <2>1. failed' \in [Tasks -> BOOLEAN] /\ barrier' \in BOOLEAN /\ handler' = handler
      BY <1>2, <1>t DEF Unblocked, EmitTypes, WorkerTypes
    <2>2. blocked' \in [Tasks -> Events \cup {"none"}] /\ blocked[t] \in Events
      BY <1>2, <1>t DEF Unblocked, EmitTypes
    <2>3. queue' \in Seq(Events) /\ Len(queue') <= QueueBound
      BY <1>2, <1>t, <2>2, RoomAssumption DEF Unblocked, EmitTypes
    <2>4. EmitTypes'
      BY <1>t, <2>1, <2>2, <2>3 DEF EmitTypes
    <2> QED
      BY <1>t, <1>0, <2>4 DEF Types, runtimeVars, closeVars, taskVars, workerVars, RunTypes, StopTypes,
                              CallTypes, CloseTypes, PlaceTypes, WorkerTypes
  <1>3. CASE HandlerRaises(t) \/ HandlerReturns(t)
    <2>1. EmitTypes'
      BY <1>1, <1>3 DEF HandlerRaises, HandlerReturns
    <2> QED
      BY <1>t, <1>0, <2>1 DEF Types, runtimeVars, closeVars, taskVars, workerVars, RunTypes, StopTypes,
                              CallTypes, CloseTypes, PlaceTypes, WorkerTypes
  <1> QED
    BY <1>2, <1>3

\* The receive task, the worker and the hand-off.
LEMMA LoopsTyped ==
  ASSUME Types, DatagramArrives \/ ReceiveFails \/ ReceiverStep \/ WorkerStep \/ HandoffStep \/ Sweeps
  PROVE  Types'
  <1>t. /\ RunTypes /\ StopTypes /\ CallTypes /\ CloseTypes /\ PlaceTypes /\ WorkerTypes /\ EmitTypes
        /\ {"receiver", "handoff", "worker"} \subseteq Tasks /\ "receiver" \in Callers
        /\ {"bytes", "error", "closed"} \subseteq Events /\ (~stopping) \in BOOLEAN
    BY DEF Types, Tasks, Callers, Events, Payload
  <1> USE <1>t DEF Types, runtimeVars, closeVars, taskVars, emitVars, workerVars
  <1>1. CASE DatagramArrives \/ ReceiveFails
    <2>1. EmitTypes'
      <3>1. \E e \in {"bytes", "error"} : \E g : EmitIf("receiver", e, g, ~stopping)
        BY <1>1 DEF DatagramArrives, ReceiveFails, Emit
      <3> QED
        BY <3>1, EmitTyped
    <2>2. /\ UNCHANGED <<setup, runtimeVars, stop, closeVars, start, handoff, pc, workerVars>>
          /\ recv' \in {"emitted", "failing"}
      BY <1>1 DEF DatagramArrives, ReceiveFails
    <2> QED
      BY <2>1, <2>2 DEF RunTypes, StopTypes, CallTypes, CloseTypes, PlaceTypes, ReceiverStates, WorkerTypes
  <1>2. CASE ReceiverLoops
    BY <1>2 DEF ReceiverLoops, RunTypes, StopTypes, CallTypes, CloseTypes, PlaceTypes, ReceiverStates,
                WorkerTypes, EmitTypes
  <1>3. CASE ReceiverExits
    <2>1. RunTypes' /\ StopTypes' /\ CallTypes' /\ EmitTypes' /\ stopping' \in BOOLEAN
      <3>1. CASE running
        BY <1>3, <3>1, CallStopTyped DEF ReceiverExits
      <3>2. CASE ~running
        <4>1. EmitTypes'
          BY <1>3, <3>2, NothingTyped DEF ReceiverExits
        <4> QED
          BY <1>3, <3>2, <4>1 DEF ReceiverExits, RunTypes, StopTypes, CallTypes, WorkerTypes
      <3> QED
        BY <3>1, <3>2
    <2>2. UNCHANGED <<setup, closeVars, start, handoff, worker, sweeper>> /\ recv' \in {"stopping", "done"}
      BY <1>3 DEF ReceiverExits
    <2> QED
      BY <2>1, <2>2 DEF CloseTypes, PlaceTypes, ReceiverStates, WorkerTypes
  <1>4. CASE ReceiverEnds
    <2>1. EmitTypes'
      BY <1>4, NothingTyped DEF ReceiverEnds
    <2> QED
      BY <1>4, <2>1 DEF ReceiverEnds, RunTypes, StopTypes, CallTypes, CallStates, CloseTypes, PlaceTypes,
                        ReceiverStates, WorkerTypes
  <1>5. CASE WorkerTakes
    <2>1. Head(queue) \in Events /\ Tail(queue) \in Seq(Events) /\ Len(Tail(queue)) <= QueueBound
      BY <1>5, RoomAssumption DEF WorkerTakes, EmitTypes
    <2>2. EmitTypes'
      BY <1>5, <2>1 DEF WorkerTakes, EmitTypes
    <2> QED
      BY <1>5, <2>2 DEF WorkerTakes, RunTypes, StopTypes, CallTypes, CloseTypes, PlaceTypes, WorkerTypes
  <1>6. CASE WorkerExits
    <2>1. StopTypes'
      BY <1>6 DEF WorkerExits, StopTypes, StopPlan, Phases
    <2>2. CallTypes'
      BY <1>6, OutcomeTyped DEF WorkerExits, CallTypes
    <2> QED
      BY <1>6, <2>1, <2>2 DEF WorkerExits, RunTypes, CloseTypes, PlaceTypes, StartStates, WorkerTypes,
                              EmitTypes
  <1>7. CASE HandoffTakes
    <2>1. EmitTypes'
      <3>1. EmitIf("handoff", "closed", ghost, ~stopping) \/ UNCHANGED emitVars
        BY <1>7 DEF HandoffTakes, Emit
      <3>2. CASE UNCHANGED emitVars
        BY <3>2 DEF EmitTypes
      <3> QED
        BY <3>1, <3>2, EmitTyped
    <2>2. /\ UNCHANGED <<setup, runtimeVars, stop, opening, waiter, start, recv, pc, workerVars>>
          /\ handoff' \in {"emitted", "no"} /\ deferred' \in {FALSE, deferred}
      BY <1>7 DEF HandoffTakes
    <2>3. RunTypes' /\ StopTypes' /\ CallTypes'
      BY <2>2 DEF RunTypes, StopTypes, CallTypes
    <2>4. CloseTypes'
      BY <2>2 DEF CloseTypes
    <2>5. PlaceTypes' /\ WorkerTypes'
      BY <2>2 DEF PlaceTypes, WorkerTypes
    <2> QED
      BY <2>1, <2>2, <2>3, <2>4, <2>5
  <1>8. CASE HandoffEnds
    <2>1. EmitTypes'
      BY <1>8, NothingTyped DEF HandoffEnds
    <2>2. /\ UNCHANGED <<setup, runtimeVars, opening, deferred, start, recv, pc, workerVars>>
          /\ handoff' \in {"raised", "yes"} /\ waiter' = "none"
          /\ stop' \in {stop, [stop EXCEPT !.phase = "stopped", !.error = failed["handoff"]]}
      BY <1>8 DEF HandoffEnds, Settles
    <2>3. StopTypes'
      <3>1. failed["handoff"] \in BOOLEAN
        BY DEF EmitTypes, Tasks
      <3>2. CASE stop' = stop
        BY <3>2 DEF StopTypes
      <3>3. CASE stop' = [stop EXCEPT !.phase = "stopped", !.error = failed["handoff"]]
        BY <3>1, <3>3 DEF StopTypes, StopPlan, Phases
      <3> QED
        BY <2>2, <3>2, <3>3
    <2>4. RunTypes' /\ CallTypes' /\ CloseTypes'
      BY <2>2 DEF RunTypes, CallTypes, CloseTypes
    <2>5. PlaceTypes' /\ WorkerTypes'
      BY <2>2 DEF PlaceTypes, WorkerTypes
    <2> QED
      BY <2>1, <2>2, <2>3, <2>4, <2>5
  <1>9. CASE Sweeps
    <2>1. /\ UNCHANGED <<setup, runtimeVars, stop, closeVars, taskVars, pc, emitVars, worker>>
          /\ stopping' = TRUE /\ sweeper' = FALSE
      BY <1>9 DEF Sweeps
    <2>2. RunTypes' /\ StopTypes' /\ CallTypes' /\ CloseTypes'
      BY <2>1 DEF RunTypes, StopTypes, CallTypes, CloseTypes
    <2>3. PlaceTypes' /\ WorkerTypes' /\ EmitTypes'
      BY <2>1 DEF PlaceTypes, WorkerTypes, EmitTypes
    <2> QED
      BY <2>1, <2>2, <2>3
  <1> QED
    BY <1>1, <1>2, <1>3, <1>4, <1>5, <1>6, <1>7, <1>8, <1>9 DEF ReceiverStep, WorkerStep, HandoffStep

LEMMA ClosesSocketTyped ==
  ASSUME StopTypes, CallTypes, EmitTypes, WorkerTypes, NEW err \in BOOLEAN, SocketCloses(err),
         handler' = handler, blocked' \in [Tasks -> Events \cup {"none"}]
  PROVE  StopTypes' /\ CallTypes' /\ EmitTypes' /\ stopping' \in BOOLEAN
  <1>1. CASE stop.deferred
    <2>1. DropsQueue
      BY <1>1 DEF SocketCloses
    <2>2. EmitTypes' /\ stopping' \in BOOLEAN
      BY <2>1, DropsTyped DEF EmitTypes
    <2>3. StopTypes'
      <3>1. stop' = [stop EXCEPT !.phase = "context", !.by = "completer"]
        BY <1>1 DEF SocketCloses
      <3> QED
        BY <3>1 DEF StopTypes, StopPlan, Phases, Tasks
    <2>4. CallTypes'
      BY <1>1 DEF SocketCloses, CallTypes, CallStates
    <2> QED
      BY <2>2, <2>3, <2>4
  <1>2. CASE ~stop.deferred
    <2>1. /\ stop' = [stop EXCEPT !.phase = IF ~err /\ stop.closes THEN "close" ELSE "stopped",
                                  !.error = err]
          /\ failed' = [failed EXCEPT ![stop.by] = FALSE]
          /\ UNCHANGED <<barrier, queue, stopping, pc>>
      BY <1>2 DEF SocketCloses
    <2>2. \E ph \in {"close", "stopped"} : stop' = [stop EXCEPT !.phase = ph, !.error = err]
      BY <2>1
    <2>3. StopTypes'
      BY <2>2 DEF StopTypes, StopPlan, Phases
    <2> QED
      BY <2>1, <2>3 DEF CallTypes, EmitTypes, WorkerTypes
  <1> QED
    BY <1>1, <1>2

\* The owned stop keeps the types.
LEMMA StopTyped ==
  ASSUME Types, StopStep
  PROVE  Types'
  <1>t. /\ RunTypes /\ StopTypes /\ CallTypes /\ CloseTypes /\ PlaceTypes /\ WorkerTypes /\ EmitTypes
        /\ {"receiver", "completer"} \subseteq Tasks /\ stop.by \in Tasks
        /\ {"STOPPING", "closed", "STOPPED"} \subseteq Events /\ (~stopping) \in BOOLEAN
        /\ SeesError \in BOOLEAN /\ stop.error \in BOOLEAN
        /\ Background \in BOOLEAN
    BY ErrorTyped DEF Types, Tasks, Callers, Events, StopTypes, StopPlan, Background
  <1> USE <1>t DEF Types, runtimeVars, closeVars, taskVars, emitVars, workerVars
  <1>1. CASE TearsDown
    <2>0. UNCHANGED <<setup, runtimeVars, closeVars, start, handoff, handler, worker, sweeper>>
      BY <1>1 DEF TearsDown
    <2>1. CASE stop.cancels /\ recv \notin {"none", "done"}
      <3>1. /\ recv' = "cancelled"
            /\ blocked' = [blocked EXCEPT !["receiver"] = "none"]
            /\ stop' = [stop EXCEPT !.phase = "reader", !.error = SeesError]
            /\ failed' = [failed EXCEPT ![stop.by] = FALSE]
            /\ UNCHANGED <<barrier, queue, stopping, pc, ghost>>
        BY <1>1, <2>1 DEF TearsDown
      <3>2. StopTypes'
        BY <3>1 DEF StopTypes, StopPlan, Phases
      <3>3. EmitTypes'
        BY <2>0, <3>1 DEF EmitTypes
      <3> QED
        BY <2>0, <3>1, <3>2, <3>3 DEF RunTypes, CallTypes, CloseTypes, PlaceTypes, ReceiverStates, WorkerTypes
    <2>2. CASE ~(stop.cancels /\ recv \notin {"none", "done"})
      <3>1. SocketCloses(SeesError) /\ UNCHANGED <<recv, blocked>>
        BY <1>1, <2>2 DEF TearsDown
      <3>2. StopTypes' /\ CallTypes' /\ EmitTypes' /\ stopping' \in BOOLEAN
        BY <2>0, <3>1, ClosesSocketTyped DEF EmitTypes
      <3> QED
        BY <2>0, <3>1, <3>2 DEF RunTypes, CloseTypes, PlaceTypes, WorkerTypes
    <2> QED
      BY <2>1, <2>2
  <1>2. CASE ReceiverGone
    <2>1. StopTypes' /\ CallTypes' /\ EmitTypes' /\ stopping' \in BOOLEAN
      BY <1>2, ClosesSocketTyped DEF ReceiverGone, EmitTypes
    <2> QED
      BY <1>2, <2>1 DEF ReceiverGone, RunTypes, CloseTypes, PlaceTypes, WorkerTypes
  <1>3. CASE HandlersGone
    <2>1. EmitTypes'
      <3>1. EmitIf("completer", "STOPPING", ghost, ~stopping) \/ EmitsNothing("completer", ghost)
        BY <1>3 DEF HandlersGone, Emit
      <3> QED
        BY <3>1, EmitTyped, NothingTyped
    <2>2. StopTypes'
      BY <1>3 DEF HandlersGone, StopTypes, StopPlan, Phases
    <2> QED
      BY <1>3, <2>1, <2>2 DEF HandlersGone, RunTypes, CallTypes, CloseTypes, PlaceTypes, WorkerTypes
  <1>4. CASE Closes
    <2>1. EmitTypes'
      <3>1. \/ EmitIf(stop.by, "closed", ghost, ~stopping) \/ EmitsNothing(stop.by, ghost)
            \/ UNCHANGED emitVars
        BY <1>4 DEF Closes, Emit
      <3>2. CASE UNCHANGED emitVars
        BY <3>2 DEF EmitTypes
      <3> QED
        BY <3>1, <3>2, EmitTyped, NothingTyped
    <2>2. /\ stop' \in {[stop EXCEPT !.phase = "stopped", !.error = SeesError],
                        [stop EXCEPT !.phase = "waiter"], [stop EXCEPT !.phase = "stopped"]}
          /\ deferred' \in {TRUE, deferred} /\ waiter' \in {"pending", waiter}
          /\ UNCHANGED <<setup, runtimeVars, opening, start, recv, handoff, pc, workerVars>>
      BY <1>4 DEF Closes
    <2>3. StopTypes'
      BY <2>2 DEF StopTypes, StopPlan, Phases
    <2>4. CloseTypes'
      BY <2>2 DEF CloseTypes
    <2> QED
      BY <2>1, <2>2, <2>3, <2>4 DEF RunTypes, CallTypes, PlaceTypes, WorkerTypes
  <1>5. CASE Stops
    <2>1. EmitTypes'
      <3>1. EmitIf(stop.by, "STOPPED", ghost, ~stopping) \/ EmitsNothing(stop.by, ghost)
        BY <1>5 DEF Stops, Emit
      <3> QED
        BY <3>1, EmitTyped, NothingTyped
    <2>2. StopTypes'
      BY <1>5 DEF Stops, StopTypes, StopPlan, Phases
    <2> QED
      BY <1>5, <2>1, <2>2 DEF Stops, RunTypes, Lifecycle, CallTypes, CloseTypes, PlaceTypes, WorkerTypes
  <1>6. CASE StopsOwnDispatcher
    <2>0. /\ UNCHANGED <<setup, runtimeVars, closeVars, taskVars, worker, sweeper>>
          /\ stopping' \in {stopping, stopping \/ Background}
          /\ \/ Completed(TRUE) \/ Completed(SeesError)
             \/ stop' = [stop EXCEPT !.phase = "draining", !.error = SeesError] /\ UNCHANGED pc
      BY <1>6 DEF StopsOwnDispatcher
    <2>1. EmitTypes'
      BY <1>6, NothingTyped DEF StopsOwnDispatcher
    <2>2. StopTypes' /\ CallTypes'
      <3>1. CASE stop' = [stop EXCEPT !.phase = "draining", !.error = SeesError] /\ UNCHANGED pc
        BY <3>1 DEF StopTypes, StopPlan, Phases, CallTypes
      <3> QED
        BY <2>0, <3>1, CompletedTyped
    <2> QED
      BY <2>0, <2>1, <2>2 DEF RunTypes, CloseTypes, PlaceTypes, WorkerTypes
  <1>7. CASE StopEnds
    <2>1. StopTypes' /\ CallTypes'
      BY <1>7, CompletedTyped DEF StopEnds
    <2> QED
      BY <1>7, <2>1 DEF StopEnds, RunTypes, CloseTypes, PlaceTypes, WorkerTypes, EmitTypes
  <1> QED
    BY <1>1, <1>2, <1>3, <1>4, <1>5, <1>6, <1>7 DEF StopStep

LEMMA TypesStep == TypeOK /\ [Next]_vars => TypeOK'
  <1> SUFFICES ASSUME TypeOK, [Next]_vars PROVE TypeOK'
    OBVIOUS
  <1>1. Types /\ turn \in Tasks \cup {"none"}
    BY TypesOfTypeOK
  <1>2. CASE UNCHANGED vars
    BY <1>2 DEF TypeOK, vars, runtimeVars, closeVars, taskVars, emitVars, workerVars
  <1>3. CASE Next
    <2>1. Acts /\ turn' \in Tasks \cup {"none"}
      BY <1>1, <1>3, NextActs DEF Types
    <2>2. Types'
      BY <1>1, <2>1, StartTyped, StoppersTyped, HandlersTyped, LoopsTyped, StopTyped DEF Acts
    <2>3. (Types /\ turn \in Tasks \cup {"none"})' => TypeOK'
      BY TypesOfTypeOK, PTL
    <2> QED
      BY <2>1, <2>2, <2>3
  <1> QED
    BY <1>2, <1>3

\* Every variable of the receiver keeps its type, and the dispatcher's queue its
\* bound, through every interleaving of start(), stop(), handlers and failures.
THEOREM TypeCorrect == Spec => []TypeOK
  BY InitTypes, TypesStep, PTL DEF Spec

-----------------------------------------------------------------------------
(***************************************************************************)
(* A stopped receiver holds nothing.                                        *)
(***************************************************************************)
Ghost == [starts : Nat, datagrams : Nat, stops : Nat, open : Int, told : SUBSET Events,
          disorder : BOOLEAN]

\* A stop that has not published STOPPED; one that still has the socket.
Owning == {"teardown", "reader", "context", "close", "waiter", "stopped"}
Holding == {"teardown", "reader"}
Reads == recv \in {"reading", "emitted", "failing", "cancelled"}

\* The receiver has its socket exactly while it is RUNNING, then the stop that
\* took it away has it, and no other socket is open.  The worker executes a stop only
\* until the socket is closed, then the completion task waits for handlers.
SocketHeld ==
  /\ state = "RUNNING" <=> sock
  /\ state = "RUNNING" <=> running
  /\ stop.phase \in Owning => state = "STOPPING"
  /\ stop.phase = "context" => stop.by = "completer"
  /\ stop.phase # "none" /\ stop.by = "worker" => stop.deferred /\ stop.phase \in Holding
  /\ ghost.open = IF sock \/ (stop.phase \in Holding /\ stop.sock) THEN 1 ELSE 0

\* What a delivery and an emission do to the history.
LEMMA BegunHistory ==
  ASSUME NEW e \in Events, NEW g \in Ghost
  PROVE  Begun(e, g) \in Ghost /\ Begun(e, g).open = g.open
  <1> DEFINE d == g.disorder \/ ~InTurn(e, g.told)
             s == CASE e = "STARTING" -> {e} [] e \in Payload -> g.told [] OTHER -> g.told \cup {e}
  <1>1. d \in BOOLEAN /\ s \in SUBSET Events
    BY DEF Ghost
  <1>2. Begun(e, g) = [g EXCEPT !.disorder = d, !.told = s]
    BY DEF Begun
  <1> HIDE DEF d, s
  <1> QED
    BY <1>1, <1>2 DEF Ghost

LEMMA EmitHistory ==
  ASSUME NEW t, NEW e \in Events, NEW g \in Ghost, NEW a, EmitIf(t, e, g, a)
  PROVE  ghost' \in Ghost /\ ghost'.open = g.open
  <1>1. ghost' \in {g, Begun(e, g)}
    BY DEF EmitIf
  <1> QED
    BY <1>1, BegunHistory

\* stop() by a task outside any handler: nothing, or the plan of an owned stop.
LEMMA CallStopEffect ==
  ASSUME NEW t, NEW g \in Ghost, CallStop(t, g)
  PROVE  /\ ghost' \in Ghost /\ ghost'.open = g.open
         /\ \/ UNCHANGED <<runtimeVars, stop>>
            \/ /\ stop.phase = "none" /\ ~FullyStopped /\ pc' = [pc EXCEPT ![t] = "own"]
               /\ Plan(t, ActiveHandler /\ DeliversInline(t), ~(ActiveHandler /\ DeliversInline(t)))
  <1>1. ghost' \in Ghost /\ ghost'.open = g.open
    <2>1. EmitsNothing(t, g) \/ EmitIf(t, "STOPPING", g, ~stopping)
      BY DEF CallStop, Emit
    <2>2. "STOPPING" \in Events
      BY DEF Events
    <2>3. EmitsNothing(t, g) => ghost' = g
      BY DEF EmitsNothing
    <2> QED
      BY <2>1, <2>2, <2>3, EmitHistory
  <1> QED
    BY <1>1 DEF CallStop

\* A step that leaves the life cycle alone and moves the stop without touching its
\* socket; and the plan of a stop, which takes the socket over.
LEMMA HeldKept ==
  ASSUME SocketHeld, UNCHANGED <<state, running, sock>>, ghost'.open = ghost.open,
         \/ stop' = stop
         \/ stop'.phase \notin Holding \cup {"context"} /\ stop.phase \notin Holding
            /\ (stop'.phase \in Owning => stop.phase \in Owning)
            /\ (stop'.phase = "none" \/ (stop.phase # "none" /\ stop'.by \in {stop.by, "completer"}))
         \/ stop'.phase = "reader" /\ stop.phase \in Holding /\ stop'.sock = stop.sock
            /\ stop'.by = stop.by /\ stop'.deferred = stop.deferred
  PROVE  SocketHeld'
  BY DEF SocketHeld, Holding, Owning

LEMMA HeldPlanned ==
  ASSUME SocketHeld, RunTypes, NEW t, NEW d, NEW c, stop.phase = "none", Plan(t, d, c), ghost'.open = ghost.open,
         t = "worker" => d
  PROVE  SocketHeld'
  BY DEF SocketHeld, RunTypes, Plan, Holding, Owning

LEMMA HeldCalled ==
  ASSUME SocketHeld, RunTypes, NEW t \in Callers, NEW g \in Ghost, g.open = ghost.open, CallStop(t, g)
  PROVE  ghost' \in Ghost /\ SocketHeld'
  <1>1. CASE UNCHANGED <<runtimeVars, stop>>
    BY <1>1, CallStopEffect, HeldKept DEF runtimeVars
  <1>2. t # "worker"
    BY TaskAssumption DEF Callers, TaskAssumption
  <1> QED
    BY <1>1, <1>2, CallStopEffect, HeldPlanned

LEMMA HeldByStart ==
  ASSUME Types, SocketHeld, ghost \in Ghost, StartCalled \/ StartCancelled \/ StartStep
  PROVE  ghost' \in Ghost /\ SocketHeld'
  <1>t. /\ RunTypes /\ StopTypes /\ {"STARTING", "RUNNING", "STOPPED", "opened"} \subseteq Events
        /\ ghost.open \in Int /\ "starter" \in Callers
    BY DEF Types, Events, Ghost, Callers
  <1> USE <1>t DEF runtimeVars, emitVars
  <1>1. CASE StartCalled
    <2> DEFINE g == [ghost EXCEPT !.starts = @ + 1]
    <2>1. g \in Ghost /\ g.open = ghost.open
      BY DEF Ghost
    <2>2. EmitIf("starter", "STARTING", g, ~stopping') \/ EmitsNothing("starter", g)
      BY <1>1 DEF StartCalled
    <2>3. EmitsNothing("starter", g) => ghost' = g
      BY DEF EmitsNothing
    <2> HIDE DEF g
    <2>4. ghost' \in Ghost /\ ghost'.open = ghost.open
      BY <2>1, <2>2, <2>3, EmitHistory
    <2>5. /\ state' = state \/ (state = "STOPPED" /\ state' = "STARTING")
          /\ UNCHANGED <<running, sock, stop>>
      BY <1>1 DEF StartCalled
    <2> QED
      BY <2>4, <2>5 DEF SocketHeld, Holding, Owning
  <1>2. CASE StartCancelled \/ StartOvertaken \/ StartEnds \/ StartSucceeds
    <2>1. UNCHANGED <<state, running, sock, stop, ghost>>
      BY <1>2 DEF StartCancelled, CancelsEmit, StartOvertaken, StartEnds, StartSucceeds
    <2> QED
      BY <2>1, HeldKept
  <1>3. CASE StartRollsBack
    <2>1. /\ state' = (IF state = "STARTING" THEN "STOPPED" ELSE state) /\ ghost' = ghost
          /\ UNCHANGED <<running, sock, stop>>
      BY <1>3 DEF StartRollsBack, EmitsNothing
    <2> QED
      BY <2>1 DEF SocketHeld, Holding, Owning
  <1>4. CASE Binds
    <2> DEFINE g == [ghost EXCEPT !.open = @ + 1]
    <2>1. g \in Ghost /\ g.open = ghost.open + 1
      BY DEF Ghost
    <2>2. EmitIf("starter", "RUNNING", g, ~stopping)
      BY <1>4 DEF Binds, Emit
    <2> HIDE DEF g
    <2>3. ghost' \in Ghost /\ ghost'.open = ghost.open + 1
      BY <2>1, <2>2, EmitHistory
    <2>4. /\ state = "STARTING" /\ sock' = TRUE /\ running' = TRUE /\ state' = "RUNNING" /\ stop' = stop
      BY <1>4 DEF Binds
    <2> QED
      BY <2>3, <2>4 DEF SocketHeld, Holding, Owning
  <1>5. CASE BindFails
    <2>1. ghost' \in Ghost /\ ghost'.open = ghost.open
      BY <1>5, EmitHistory DEF BindFails, Emit
    <2>2. state = "STARTING" /\ state' = "STOPPED" /\ UNCHANGED <<running, sock, stop>>
      BY <1>5 DEF BindFails
    <2> QED
      BY <2>1, <2>2 DEF SocketHeld, Holding, Owning
  <1>6. CASE StartFails \/ Opens \/ HandsOff
    <2>1. \/ EmitIf("starter", "opened", ghost, ~stopping) \/ ghost' = ghost
      BY <1>6 DEF StartFails, Opens, HandsOff, Emit, EmitsNothing
    <2>2. ghost' \in Ghost /\ ghost'.open = ghost.open
      BY <2>1, EmitHistory
    <2>3. UNCHANGED <<state, running, sock, stop>>
      BY <1>6 DEF StartFails, Opens, HandsOff
    <2> QED
      BY <2>2, <2>3, HeldKept
  <1>7. CASE StartStops
    BY <1>7, HeldCalled DEF StartStops
  <1> QED
    BY <1>1, <1>2, <1>3, <1>4, <1>5, <1>6, <1>7 DEF StartStep

LEMMA HeldBySocketCloses ==
  ASSUME SocketHeld, StopTypes, ghost \in Ghost, NEW err, SocketCloses(err), stop.phase \in Holding,
         UNCHANGED <<state, running, sock>>
  PROVE  ghost' \in Ghost /\ SocketHeld'
  <1>1. ghost' = [ghost EXCEPT !.open = @ - (IF stop.sock THEN 1 ELSE 0)]
    BY DEF SocketCloses
  <1>2. ghost' \in Ghost /\ ghost'.open = ghost.open - (IF stop.sock THEN 1 ELSE 0)
    BY <1>1 DEF Ghost
  <1>3. stop'.phase \in {"context", "close", "stopped"} /\ (stop'.phase = "context" => stop'.by = "completer")
    BY DEF SocketCloses, StopTypes, StopPlan
  <1>4. stop'.by = "worker" => stop.by = "worker" /\ ~stop.deferred
    BY DEF SocketCloses, StopTypes, StopPlan
  <1>5. stop'.by # "worker"
    BY <1>4 DEF SocketHeld, Holding
  <1> QED
    BY <1>2, <1>3, <1>5 DEF SocketHeld, Holding, Owning

LEMMA HeldByStop ==
  ASSUME Types, SocketHeld, ghost \in Ghost, StopStep
  PROVE  ghost' \in Ghost /\ SocketHeld'
  <1>t. StopTypes /\ {"STOPPING", "closed", "STOPPED"} \subseteq Events
    BY DEF Types, Events
  <1> USE <1>t DEF runtimeVars, emitVars
  <1>1. CASE TearsDown
    <2>1. CASE stop.cancels /\ recv \notin {"none", "done"}
      <3>1. /\ stop' = [stop EXCEPT !.phase = "reader", !.error = SeesError] /\ ghost' = ghost
            /\ stop.phase = "teardown" /\ UNCHANGED <<state, running, sock>>
        BY <1>1, <2>1 DEF TearsDown, Executes
      <3>2. stop'.phase = "reader" /\ stop'.sock = stop.sock /\ stop'.by = stop.by /\ stop'.deferred = stop.deferred
        BY <3>1 DEF StopTypes, StopPlan
      <3> QED
        BY <3>1, <3>2, HeldKept DEF Holding
    <2>2. CASE ~(stop.cancels /\ recv \notin {"none", "done"})
      BY <1>1, <2>2, HeldBySocketCloses DEF TearsDown, Executes, Holding
    <2> QED
      BY <2>1, <2>2
  <1>2. CASE ReceiverGone
    BY <1>2, HeldBySocketCloses DEF ReceiverGone, Executes, Holding
  <1>3. CASE HandlersGone \/ Closes
    <2>1. \/ EmitIf("completer", "STOPPING", ghost, ~stopping)
          \/ EmitIf(stop.by, "closed", ghost, ~stopping)
          \/ ghost' = ghost
      BY <1>3 DEF HandlersGone, Closes, Emit, EmitsNothing
    <2>2. ghost' \in Ghost /\ ghost'.open = ghost.open
      BY <2>1, EmitHistory
    <2>3. UNCHANGED <<state, running, sock>> /\ stop.phase \in {"context", "close"}
      BY <1>3 DEF HandlersGone, Closes, Executes
    <2>4. stop'.phase \in {"close", "stopped", "waiter"} /\ stop'.by = stop.by
      BY <1>3 DEF HandlersGone, Closes, StopTypes, StopPlan
    <2> QED
      BY <2>2, <2>3, <2>4, HeldKept DEF Holding, Owning
  <1>4. CASE Stops
    <2>1. EmitIf(stop.by, "STOPPED", ghost, ~stopping) \/ ghost' = ghost
      BY <1>4 DEF Stops, Emit, EmitsNothing
    <2>2. ghost' \in Ghost /\ ghost'.open = ghost.open
      BY <2>1, EmitHistory
    <2>3. /\ stop.phase = "stopped" /\ state' = "STOPPED" /\ UNCHANGED <<running, sock>>
          /\ stop' = [stop EXCEPT !.phase = "drain", !.error = SeesError]
      BY <1>4 DEF Stops, Executes
    <2>4. stop'.phase = "drain" /\ stop'.by = stop.by
      BY <2>3 DEF StopTypes, StopPlan
    <2> QED
      BY <2>2, <2>3, <2>4 DEF SocketHeld, Holding, Owning
  <1>5. CASE StopsOwnDispatcher \/ StopEnds
    <2>1. UNCHANGED <<state, running, sock>> /\ ghost' = ghost /\ stop.phase \in {"drain", "drained"}
      BY <1>5 DEF StopsOwnDispatcher, StopEnds, EmitsNothing, Executes
    <2>2. stop'.phase = "none" \/ (stop'.phase = "draining" /\ stop'.by = stop.by)
      <3>1. stop' = NoStop \/ stop' = [stop EXCEPT !.phase = "draining", !.error = SeesError]
        BY <1>5 DEF StopsOwnDispatcher, StopEnds, Completed
      <3>2. stop' = NoStop => stop'.phase = "none"
        BY DEF NoStop
      <3>3. stop' = [stop EXCEPT !.phase = "draining", !.error = SeesError] =>
              stop'.phase = "draining" /\ stop'.by = stop.by
        BY DEF StopTypes, StopPlan
      <3> QED
        BY <3>1, <3>2, <3>3
    <2>3. /\ stop'.phase \notin Holding \cup {"context"} /\ stop.phase \notin Holding
          /\ stop'.phase \notin Owning /\ stop.phase # "none"
          /\ stop'.phase = "none" \/ stop'.by = stop.by
      BY <2>1, <2>2 DEF Holding, Owning
    <2> QED
      BY <2>1, <2>3, HeldKept
  <1> QED
    BY <1>1, <1>2, <1>3, <1>4, <1>5 DEF StopStep

LEMMA HeldByStoppers ==
  ASSUME Types, SocketHeld, ghost \in Ghost,
         \/ \E c \in Stoppers : StopCalled(c) \/ StopperCancelled(c)
         \/ \E t \in Tasks : HandlerStops(t)
  PROVE  ghost' \in Ghost /\ SocketHeld'
  <1>t. RunTypes /\ StopTypes
    BY DEF Types
  <1> USE <1>t DEF runtimeVars, emitVars
  <1> DEFINE g == [ghost EXCEPT !.stops = @ + 1]
  <1>g. g \in Ghost /\ g.open = ghost.open
    BY DEF Ghost
  <1> HIDE DEF g
  <1>1. ASSUME NEW c \in Stoppers, StopCalled(c) PROVE ghost' \in Ghost /\ SocketHeld'
    <2>1. CallStop(c, g) /\ c \in Callers
      BY <1>1 DEF StopCalled, g, Callers
    <2> QED
      BY <1>g, <2>1, HeldCalled
  <1>2. ASSUME NEW c \in Stoppers, StopperCancelled(c) PROVE ghost' \in Ghost /\ SocketHeld'
    <2>1. UNCHANGED <<state, running, sock, ghost>>
      BY <1>2 DEF StopperCancelled, CancelsEmit
    <2>2. \/ stop' = stop
          \/ stop.phase = "waiter" /\ stop' = [stop EXCEPT !.by = "completer"]
          \/ stop.phase = "reader" /\ stop' = [stop EXCEPT !.error = TRUE]
          \/ stop.phase = "draining" /\ stop' = NoStop
      BY <1>2 DEF StopperCancelled, CancelsEmit, CancelsStop, Completed
    <2>3. \/ stop' = stop
          \/ stop.phase = "waiter" /\ stop'.phase = "waiter" /\ stop'.by = "completer"
          \/ stop.phase = "reader" /\ stop'.phase = "reader" /\ stop'.sock = stop.sock
             /\ stop'.by = stop.by /\ stop'.deferred = stop.deferred
          \/ stop.phase = "draining" /\ stop'.phase = "none"
      BY <2>2 DEF NoStop, StopTypes, StopPlan
    <2> QED
      BY <2>1, <2>3, HeldKept DEF Holding, Owning
  <1>3. ASSUME NEW t \in Tasks, HandlerStops(t) PROVE ghost' \in Ghost /\ SocketHeld'
    <2>1. ghost' = g
      BY <1>3 DEF HandlerStops, g
    <2>2. CASE stop.phase = "none" /\ Plan(t, TRUE, TRUE)
      <3>1. t = "worker" => TRUE
        OBVIOUS
      <3> QED
        BY <1>g, <2>1, <2>2, <3>1, HeldPlanned
    <2>3. CASE UNCHANGED <<runtimeVars, stop>>
      BY <1>g, <2>1, <2>3, HeldKept
    <2> QED
      BY <1>3, <2>2, <2>3 DEF HandlerStops
  <1> QED
    BY <1>1, <1>2, <1>3

LEMMA HeldByRest ==
  ASSUME Types, SocketHeld, ghost \in Ghost,
         \/ DatagramArrives \/ ReceiveFails \/ ReceiverStep \/ WorkerStep \/ HandoffStep \/ Sweeps
         \/ \E t \in Tasks : HandlerRaises(t) \/ HandlerReturns(t) \/ Unblocked(t)
  PROVE  ghost' \in Ghost /\ SocketHeld'
  <1>t. /\ RunTypes /\ StopTypes /\ {"bytes", "error", "closed"} \subseteq Events
        /\ queue # <<>> => Head(queue) \in Events
        /\ "receiver" \in Callers
    BY DEF Types, EmitTypes, Events, Payload, Callers
  <1> USE <1>t DEF runtimeVars, emitVars
  <1>1. CASE DatagramArrives \/ ReceiveFails
    <2> DEFINE g == [ghost EXCEPT !.datagrams = @ + 1]
    <2>1. g \in Ghost /\ g.open = ghost.open
      BY DEF Ghost
    <2>2. \/ EmitIf("receiver", "bytes", g, ~stopping)
          \/ EmitIf("receiver", "error", ghost, ~stopping)
      BY <1>1 DEF DatagramArrives, ReceiveFails, Emit
    <2>3. UNCHANGED <<state, running, sock, stop>>
      BY <1>1 DEF DatagramArrives, ReceiveFails
    <2> HIDE DEF g
    <2> QED
      BY <2>1, <2>2, <2>3, EmitHistory, HeldKept
  <1>2. CASE ReceiverLoops \/ ReceiverEnds \/ Sweeps
    BY <1>2, HeldKept DEF ReceiverLoops, ReceiverEnds, Sweeps, EmitsNothing
  <1>3. CASE ReceiverExits
    <2>1. CASE running
      BY <1>3, <2>1, HeldCalled DEF ReceiverExits
    <2>2. CASE ~running
      BY <1>3, <2>2, HeldKept DEF ReceiverExits, EmitsNothing
    <2> QED
      BY <2>1, <2>2
  <1>4. CASE WorkerTakes
    BY <1>4, BegunHistory, HeldKept DEF WorkerTakes
  <1>5. CASE WorkerExits
    <2>1. /\ stop'.phase = (IF stop.phase = "draining" THEN "drained" ELSE stop.phase)
          /\ stop'.sock = stop.sock /\ stop'.by = stop.by /\ stop'.deferred = stop.deferred
      BY <1>5 DEF WorkerExits, StopTypes, StopPlan
    <2>2. UNCHANGED <<state, running, sock, ghost>>
      BY <1>5 DEF WorkerExits
    <2> QED
      BY <2>1, <2>2 DEF SocketHeld, Holding, Owning
  <1>6. CASE HandoffTakes \/ HandoffEnds
    <2>1. EmitIf("handoff", "closed", ghost, ~stopping) \/ ghost' = ghost
      BY <1>6 DEF HandoffTakes, HandoffEnds, Emit, EmitsNothing
    <2>2. UNCHANGED <<state, running, sock>>
      BY <1>6 DEF HandoffTakes, HandoffEnds
    <2>3. \/ stop' = stop
          \/ stop.phase = "waiter" /\ stop' = [stop EXCEPT !.phase = "stopped", !.error = failed["handoff"]]
      BY <1>6 DEF HandoffTakes, HandoffEnds, Settles
    <2>4. stop' = stop \/ (stop.phase = "waiter" /\ stop'.phase = "stopped" /\ stop'.by = stop.by)
      BY <2>3 DEF StopTypes, StopPlan
    <2>5. ghost' \in Ghost /\ ghost'.open = ghost.open
      BY <2>1, EmitHistory
    <2> QED
      BY <2>2, <2>4, <2>5, HeldKept DEF Holding, Owning
  <1>7. ASSUME NEW t \in Tasks, HandlerRaises(t) \/ HandlerReturns(t) \/ Unblocked(t)
        PROVE  ghost' \in Ghost /\ SocketHeld'
    <2>1. UNCHANGED <<state, running, sock, stop>>
      BY <1>7 DEF HandlerRaises, HandlerReturns, HandlerEnds, Unblocked
    <2>2. ghost' = ghost \/ (queue # <<>> /\ ghost' = Begun(Head(queue), ghost))
      BY <1>7 DEF HandlerRaises, HandlerReturns, HandlerEnds, Unblocked
    <2>3. ghost' \in Ghost /\ ghost'.open = ghost.open
      BY <2>2, BegunHistory
    <2> QED
      BY <2>1, <2>3, HeldKept
  <1> QED
    BY <1>1, <1>2, <1>3, <1>4, <1>5, <1>6, <1>7 DEF ReceiverStep, WorkerStep, HandoffStep

Held == ghost \in Ghost /\ SocketHeld

LEMMA HeldStep == TypeOK /\ Held /\ [Next]_vars => Held'
  <1> SUFFICES ASSUME TypeOK, Held, [Next]_vars PROVE Held'
    OBVIOUS
  <1>1. Types /\ turn \in Tasks \cup {"none"} /\ StopTypes
    BY TypesOfTypeOK DEF Types
  <1>2. CASE UNCHANGED vars
    BY <1>2, HeldKept DEF Held, vars, runtimeVars, emitVars
  <1>3. CASE Next
    <2>1. Acts
      BY <1>1, <1>3, NextActs
    <2> QED
      BY <1>1, <2>1, HeldByStart, HeldByStop, HeldByStoppers, HeldByRest DEF Acts, Held
  <1> QED
    BY <1>2, <1>3

LEMMA HeldInvariant == Spec => []Held
  <1>1. Init => Held
    BY DEF Init, Held, SocketHeld, Ghost, NoStop, Holding, Owning
  <1> QED
    BY <1>1, TypeCorrect, HeldStep, PTL DEF Spec

\* Where a task other than the worker may be in a handler: the one that executes the
\* stop while it publishes, start(), the hand-off and the receive loop while they do.
Publishes(t) == /\ stop.by = t /\ stop.phase \in {"teardown", "close", "stopped", "drain"}
                /\ stop.phase = "teardown" => ~stop.deferred
Busy(t) == \/ t = "starter" /\ start \in {"starting", "running", "opened", "failing"}
           \/ t = "handoff" /\ handoff = "emitted"
           \/ t = "receiver" /\ recv \in {"emitted", "failing", "cancelled"}

\* Callers deliver inline or not at all, and then nobody waits for the queue.
Sides == /\ Background => \A c \in Callers : handler[c] = "none"
         /\ ~Background => /\ worker = "none" /\ handler["worker"] = "none"
                           /\ \A t \in Tasks : blocked[t] = "none"
Placed == \A t \in Tasks \ {"worker"} : handler[t] # "none" => Publishes(t) \/ Busy(t)
HandoffPlaced == handoff # "none" => start \in {"handoff", "doomed"}
Places == Sides /\ Placed /\ HandoffPlaced

LEMMA EmitSides ==
  ASSUME EmitTypes, Sides, NEW t \in Tasks \ {"worker"}, NEW e \in Events, NEW g, NEW a,
         EmitIf(t, e, g, a), UNCHANGED <<setup, worker>>
  PROVE  Sides' /\ \A u \in Tasks : u # t => handler'[u] = handler[u]
  <1>1. Background' = Background
    BY DEF Background
  <1>2. CASE DeliversInline(t)
    <2>1. handler' = [handler EXCEPT ![t] = e] /\ blocked' = blocked
      BY <1>2 DEF EmitIf
    <2>2. t \in Callers => ~Background
      BY <1>2, TaskAssumption DEF DeliversInline, Callers, TaskAssumption
    <2>3. \A c \in Callers : c \in Tasks
      BY DEF Tasks
    <2> QED
      BY <1>1, <2>1, <2>2, <2>3 DEF Sides, EmitTypes
  <1>3. CASE ~DeliversInline(t)
    <2>1. Background
      BY <1>3 DEF DeliversInline
    <2>2. handler' = handler
      BY <1>3 DEF EmitIf
    <2> QED
      BY <1>1, <2>1, <2>2 DEF Sides
  <1> QED
    BY <1>2, <1>3

LEMMA KeepSides ==
  ASSUME Sides, UNCHANGED <<setup, handler>>,
         worker' = worker \/ Background,
         blocked' = blocked \/ \E t \in Tasks : blocked' = [blocked EXCEPT ![t] = "none"], EmitTypes
  PROVE  Sides'
  BY DEF Sides, Background, EmitTypes

\* Whoever is in a handler after a call of stop() publishes the stop, or was in it.
LEMMA CallStopPlaces ==
  ASSUME Types, Sides, Placed, NEW t \in Callers, NEW g, CallStop(t, g), UNCHANGED <<setup, worker>>
  PROVE  /\ Sides'
         /\ \A u \in Tasks \ {"worker"} :
              handler'[u] # "none" => Publishes(u)' \/ (handler[u] # "none" /\ Busy(u))
  <1>t. /\ EmitTypes /\ StopTypes /\ "STOPPING" \in Events /\ t \in Tasks \ {"worker"}
    BY TaskAssumption DEF Types, Events, Tasks, Callers, TaskAssumption
  <1>1. CASE UNCHANGED stop /\ EmitsNothing(t, g)
    BY <1>1, <1>t, KeepSides DEF EmitsNothing, Placed, Publishes
  <1>2. CASE /\ stop.phase = "none"
             /\ Plan(t, ActiveHandler /\ DeliversInline(t), ~(ActiveHandler /\ DeliversInline(t)))
             /\ EmitsNothing(t, g)
    BY <1>2, <1>t, KeepSides DEF EmitsNothing, Placed, Publishes
  <1>3. CASE /\ stop.phase = "none"
             /\ Plan(t, ActiveHandler /\ DeliversInline(t), ~(ActiveHandler /\ DeliversInline(t)))
             /\ ~(ActiveHandler /\ DeliversInline(t))
             /\ EmitIf(t, "STOPPING", g, ~stopping)
    <2>1. Sides' /\ \A u \in Tasks : u # t => handler'[u] = handler[u]
      BY <1>3, <1>t, EmitSides
    <2>2. stop'.by = t /\ stop'.phase = "teardown" /\ ~stop'.deferred
      BY <1>3 DEF Plan
    <2> QED
      BY <1>3, <2>1, <2>2 DEF Placed, Publishes
  <1> QED
    BY <1>1, <1>2, <1>3 DEF CallStop, Emit

\* A receive task that has not noticed the stop is at home in a RUNNING receiver, or
\* its stop is going to cancel it, or it unwinds from the handler that stopped it and
\* keeps its turn until it has noticed.
Unwinds == /\ stop.deferred /\ stop.phase \in {"teardown", "context"}
           /\ ~Background
           /\ recv \in {"emitted", "failing"}
           /\ handler["receiver"] # "none" \/ turn = "receiver"
Reading ==
  Reads => \/ state = "RUNNING" /\ task /\ start = "idle" /\ recv # "cancelled"
           \/ stop.phase = "reader"
           \/ stop.phase = "teardown" /\ stop.cancels
           \/ Unwinds

LEMMA PlacesByStart ==
  ASSUME Types, SocketHeld, Places, Reading, StartCalled \/ StartCancelled \/ StartStep
  PROVE  Places'
  <1>t. /\ EmitTypes /\ StopTypes /\ {"STARTING", "RUNNING", "STOPPED", "opened"} \subseteq Events
        /\ "starter" \in Tasks \ {"worker"} /\ "starter" \in Callers /\ Sides /\ Placed /\ HandoffPlaced
    BY DEF Types, Events, Tasks, Callers, Places
  <1> USE <1>t DEF runtimeVars, closeVars, taskVars, emitVars, workerVars, Places, HandoffPlaced
  <1>1. CASE StartCalled
    <2>1. start = "idle" /\ handoff = "none"
      BY <1>1 DEF StartCalled
    <2>2. /\ start' \in {"idle", "starting"} /\ UNCHANGED <<setup, stop, recv, handoff>>
          /\ worker' = worker \/ Background
      BY <1>1 DEF StartCalled
    <2>3. CASE state = "STOPPED"
      <3>1. PICK g : EmitIf("starter", "STARTING", g, ~stopping') /\ start' = "starting"
        BY <1>1, <2>3 DEF StartCalled
      <3>2. /\ \A u \in Tasks : u # "starter" => handler'[u] = handler[u]
            /\ handler' = handler \/ ~Background
            /\ blocked' = blocked \/ Background
        BY <3>1 DEF EmitIf, EmitTypes, DeliversInline
      <3>3. Sides'
        <4>1. CASE Background
          <5>1. ~DeliversInline("starter")
            BY <4>1 DEF DeliversInline
          <5>2. handler' = handler
            BY <3>1, <5>1 DEF EmitIf
          <5> QED
            BY <2>2, <4>1, <5>2 DEF Sides, Background
        <4>2. CASE ~Background
          <5>1. worker' = worker
            BY <2>2, <4>2
          <5> QED
            BY <2>2, <3>1, <5>1, EmitSides
        <4> QED
          BY <4>1, <4>2
      <3> QED
        BY <2>1, <2>2, <3>1, <3>2, <3>3 DEF Placed, Publishes, Busy
    <2>4. CASE state # "STOPPED"
      <3>1. UNCHANGED <<handler, blocked, start>>
        BY <1>1, <2>4 DEF StartCalled, EmitsNothing
      <3> QED
        BY <2>1, <2>2, <3>1, KeepSides DEF Placed, Publishes, Busy
    <2> QED
      BY <2>3, <2>4
  <1>2. CASE StartCancelled
    <2>1. UNCHANGED <<setup, stop, start, recv, handoff, handler, worker>>
      BY <1>2 DEF StartCancelled, CancelsEmit
    <2>2. blocked' = blocked \/ blocked' = [blocked EXCEPT !["starter"] = "none"]
      BY <1>2 DEF StartCancelled, CancelsEmit
    <2> QED
      BY <2>1, <2>2, KeepSides DEF Placed, Publishes, Busy
  <1>3. CASE StartRollsBack \/ StartOvertaken \/ StartFails \/ HandsOff
    <2>1. /\ UNCHANGED <<setup, stop, recv, handler, blocked, worker>> /\ handler["starter"] = "none"
          /\ (handoff' = handoff /\ handoff = "none") \/ start' \in {"handoff", "doomed"}
      BY <1>3 DEF StartRollsBack, StartOvertaken, StartFails, HandsOff, StartStopsDispatcher, EmitsNothing, Ready
    <2>2. handoff' = handoff \/ (handoff = "none" /\ handoff' = "run")
      BY <1>3 DEF StartRollsBack, StartOvertaken, StartFails, HandsOff
    <2> QED
      BY <2>1, <2>2, KeepSides DEF Placed, Publishes, Busy
  <1>4. CASE StartEnds \/ StartSucceeds
    <2>1. /\ UNCHANGED <<setup, stop, handler, blocked, worker>> /\ start' = "idle" /\ handoff' = "none"
          /\ start \in {"join", "stopping", "handoff"} /\ handoff # "emitted"
          /\ recv' = recv \/ (recv' = "reading" /\ start = "handoff" /\ state = "RUNNING")
      BY <1>4 DEF StartEnds, StartSucceeds, StillRunning
    <2>2. recv' = recv \/ ~Reads
      BY <2>1 DEF Reading, Unwinds, SocketHeld, Owning
    <2>3. recv' = recv \/ handler["receiver"] = "none" \/ Publishes("receiver")
      BY <2>2 DEF Placed, Busy, Reads, Tasks, Callers
    <2> QED
      BY <2>1, <2>3, KeepSides DEF Placed, Publishes, Busy
  <1>5. CASE Binds \/ BindFails \/ Opens
    <2>1. UNCHANGED <<setup, stop, recv, handoff, worker>> /\ start \in {"starting", "running"}
          /\ start' \in {"running", "failing", "opened", "idle"} /\ handler["starter"] = "none"
      BY <1>5 DEF Binds, BindFails, Opens, Ready
    <2>2. CASE UNCHANGED <<handler, blocked>>
      BY <2>1, <2>2, KeepSides DEF Placed, Publishes, Busy
    <2>3. CASE /\ \E e \in Events : \E g : EmitIf("starter", e, g, ~stopping)
               /\ start' \in {"running", "failing", "opened"}
      <3>1. Sides' /\ \A u \in Tasks : u # "starter" => handler'[u] = handler[u]
        BY <2>1, <2>3, EmitSides
      <3> QED
        BY <2>1, <2>3, <3>1 DEF Placed, Publishes, Busy
    <2> QED
      BY <1>5, <2>2, <2>3 DEF Binds, BindFails, Opens, Emit
  <1>6. CASE StartStops
    <2>1. /\ Sides'
          /\ \A u \in Tasks \ {"worker"} :
               handler'[u] # "none" => Publishes(u)' \/ (handler[u] # "none" /\ Busy(u))
      BY <1>6, CallStopPlaces DEF StartStops
    <2>2. /\ recv' = recv /\ handoff' = "none"
          /\ handoff # "emitted"
          /\ start \in {"doomed", "handoff", "again"} \/ handler["starter"] = "none"
      BY <1>6 DEF StartStops, Ready, HandedOff
    <2> QED
      BY <2>1, <2>2 DEF Placed, Busy
  <1> QED
    BY <1>1, <1>2, <1>3, <1>4, <1>5, <1>6 DEF StartStep


\* A step of the stop that publishes nothing, and one that publishes e.
LEMMA QuietPlaces ==
  ASSUME EmitTypes, Sides, Placed, \A t \in Tasks : handler[t] # "none" => ~Publishes(t),
         UNCHANGED <<setup, handler, worker, start, handoff>>,
         recv' = recv \/ recv' = "cancelled" \/ handler["receiver"] = "none",
         blocked' = blocked \/ \E t \in Tasks : blocked' = [blocked EXCEPT ![t] = "none"]
  PROVE  Sides' /\ Placed'
  <1>1. Sides'
    BY KeepSides
  <1>2. \A t \in Tasks \ {"worker"} : handler[t] # "none" => Busy(t)
    BY DEF Placed
  <1> QED
    BY <1>1, <1>2 DEF Placed, Busy

LEMMA PublishesPlaces ==
  ASSUME EmitTypes, Sides, Placed, NEW e \in Events, NEW g, NEW a,
         stop.by \in Tasks \ {"worker"}, handler[stop.by] = "none", EmitIf(stop.by, e, g, a),
         stop'.by = stop.by, stop'.phase \in {"close", "stopped", "drain"},
         UNCHANGED <<setup, worker, start, recv, handoff>>
  PROVE  Sides' /\ Placed'
  <1>1. Sides' /\ \A u \in Tasks : u # stop.by => handler'[u] = handler[u]
    BY EmitSides
  <1>2. Publishes(stop.by)'
    BY DEF Publishes
  <1>3. \A u \in Tasks \ {"worker"} : u # stop.by /\ handler[u] # "none" => Busy(u)
    BY DEF Placed, Publishes
  <1> QED
    BY <1>1, <1>2, <1>3 DEF Placed, Busy, Publishes

LEMMA PlacesByStop ==
  ASSUME Types, SocketHeld, Places, StopStep
  PROVE  Places'
  <1>t. /\ EmitTypes /\ StopTypes /\ {"STOPPING", "closed", "STOPPED"} \subseteq Events
        /\ "completer" \in Tasks \ {"worker"} /\ "receiver" \in Tasks /\ Sides /\ Placed /\ HandoffPlaced
    BY DEF Types, Events, Tasks, Callers, Places
  <1>u. stop.by \in Tasks
    BY <1>t DEF StopTypes, StopPlan
  <1> USE <1>t, <1>u DEF runtimeVars, closeVars, taskVars, emitVars, workerVars, Places, HandoffPlaced
  <1>h. HandoffPlaced'
    BY DEF StopStep, TearsDown, ReceiverGone, HandlersGone, Closes, Stops, StopsOwnDispatcher, StopEnds
  <1>1. CASE TearsDown \/ ReceiverGone
    <2>1. /\ UNCHANGED <<setup, start, handoff, handler, worker>>
          /\ \/ stop.phase = "reader"
             \/ stop.phase = "teardown" /\ (stop.deferred \/ handler[stop.by] = "none")
      BY <1>1 DEF TearsDown, ReceiverGone, Executes, Ready
    <2>2. /\ recv' = recv \/ recv' = "cancelled"
          /\ blocked' = blocked \/ blocked' = [blocked EXCEPT !["receiver"] = "none"]
      BY <1>1 DEF TearsDown, ReceiverGone
    <2>3. \A t \in Tasks : handler[t] # "none" => ~Publishes(t)
      BY <2>1 DEF Publishes
    <2> QED
      BY <1>h, <2>1, <2>2, <2>3, QuietPlaces
  <1>2. CASE StopsOwnDispatcher \/ StopEnds
    <2>1. /\ UNCHANGED <<setup, start, recv, handoff, handler, blocked, worker>>
          /\ stop.phase = "drained" \/ handler[stop.by] = "none"
      BY <1>2 DEF StopsOwnDispatcher, StopEnds, EmitsNothing, Executes, Ready
    <2>2. \A t \in Tasks : handler[t] # "none" => ~Publishes(t)
      BY <2>1 DEF Publishes
    <2> QED
      BY <1>h, <2>1, <2>2, QuietPlaces
  <1>3. CASE HandlersGone
    <2>1. /\ UNCHANGED <<setup, worker, start, recv, handoff>> /\ \A t \in Tasks : handler[t] = "none"
          /\ stop.phase = "context" /\ stop' = [stop EXCEPT !.phase = "close"]
      BY <1>3 DEF HandlersGone, ActiveHandler, Executes
    <2>2. stop.by = "completer" /\ stop'.by = stop.by /\ stop'.phase = "close"
      BY <2>1 DEF SocketHeld, StopTypes, StopPlan
    <2>3. CASE EmitIf("completer", "STOPPING", ghost, ~stopping)
      BY <1>h, <2>1, <2>2, <2>3, PublishesPlaces
    <2>4. CASE EmitsNothing("completer", ghost)
      BY <1>h, <2>1, <2>4, QuietPlaces DEF EmitsNothing
    <2> QED
      BY <1>3, <2>3, <2>4 DEF HandlersGone, Emit
  <1>4. CASE Closes
    <2>1. /\ UNCHANGED <<setup, worker, start, recv, handoff>> /\ handler[stop.by] = "none"
          /\ stop.phase = "close"
      BY <1>4 DEF Closes, Executes, Ready
    <2>2. CASE EmitIf(stop.by, "closed", ghost, ~stopping) /\ stop' = [stop EXCEPT !.phase = "stopped"]
      <3>1. stop'.phase = "stopped" /\ stop'.by = stop.by
        BY <2>2 DEF StopTypes, StopPlan
      <3>2. stop.by # "worker"
        BY <2>1 DEF SocketHeld, Holding
      <3> QED
        BY <1>h, <2>1, <2>2, <3>1, <3>2, PublishesPlaces
    <2>3. CASE UNCHANGED <<handler, blocked>>
      <3>1. \A t \in Tasks : handler[t] # "none" => ~Publishes(t)
        BY <2>1 DEF Publishes
      <3> QED
        BY <1>h, <2>1, <2>3, <3>1, QuietPlaces
    <2> QED
      BY <1>4, <2>2, <2>3 DEF Closes, Emit, EmitsNothing
  <1>5. CASE Stops
    <2>1. /\ UNCHANGED <<setup, worker, start, recv, handoff>> /\ handler[stop.by] = "none"
          /\ stop.phase = "stopped" /\ stop' = [stop EXCEPT !.phase = "drain", !.error = SeesError]
      BY <1>5 DEF Stops, Executes, Ready
    <2>2. CASE EmitIf(stop.by, "STOPPED", ghost, ~stopping)
      <3>1. stop'.phase = "drain" /\ stop'.by = stop.by
        BY <2>1 DEF StopTypes, StopPlan
      <3>2. stop.by # "worker"
        BY <2>1 DEF SocketHeld, Holding
      <3> QED
        BY <1>h, <2>1, <2>2, <3>1, <3>2, PublishesPlaces
    <2>3. CASE UNCHANGED <<handler, blocked>>
      <3>1. \A t \in Tasks : handler[t] # "none" => ~Publishes(t)
        BY <2>1 DEF Publishes
      <3> QED
        BY <1>h, <2>1, <2>3, <3>1, QuietPlaces
    <2> QED
      BY <1>5, <2>2, <2>3 DEF Stops, Emit, EmitsNothing
  <1> QED
    BY <1>1, <1>2, <1>3, <1>4, <1>5 DEF StopStep

LEMMA PlacesByStoppers ==
  ASSUME Types, SocketHeld, Places,
         \/ \E c \in Stoppers : StopCalled(c) \/ StopperCancelled(c)
         \/ \E t \in Tasks : HandlerStops(t)
  PROVE  Places'
  <1>t. EmitTypes /\ StopTypes /\ Sides /\ Placed /\ HandoffPlaced
    BY DEF Types, Places
  <1> USE <1>t DEF runtimeVars, closeVars, taskVars, emitVars, workerVars, Places
  <1>1. ASSUME NEW c \in Stoppers, StopCalled(c) PROVE Places'
    <2>1. UNCHANGED <<setup, start, recv, handoff, worker>> /\ c \in Callers
      BY <1>1 DEF StopCalled, Callers
    <2>2. PICK g : CallStop(c, g)
      BY <1>1 DEF StopCalled
    <2>3. /\ Sides'
          /\ \A u \in Tasks \ {"worker"} :
               handler'[u] # "none" => Publishes(u)' \/ (handler[u] # "none" /\ Busy(u))
      BY <2>1, <2>2, CallStopPlaces
    <2> QED
      BY <2>1, <2>3 DEF Placed, Busy, HandoffPlaced
  <1>2. ASSUME NEW c \in Stoppers, StopperCancelled(c) PROVE Places'
    <2>0. UNCHANGED <<setup, start, recv, handoff, handler, worker>> /\ c \in Tasks
      BY <1>2 DEF StopperCancelled, CancelsEmit, Tasks, Callers
    <2>1. CASE UNCHANGED <<stop>> /\ blocked' \in {blocked, [blocked EXCEPT ![c] = "none"]}
      BY <2>0, <2>1, KeepSides DEF Placed, Publishes, Busy, HandoffPlaced
    <2>2. CASE stop.phase \in {"waiter", "reader", "draining"} /\ blocked' = blocked
      <3>1. \A t \in Tasks : handler[t] # "none" => ~Publishes(t)
        BY <2>2 DEF Publishes
      <3> QED
        BY <2>0, <2>2, <3>1, QuietPlaces DEF HandoffPlaced
    <2> QED
      BY <1>2, <2>1, <2>2 DEF StopperCancelled, CancelsEmit, CancelsStop
  <1>3. ASSUME NEW t \in Tasks, HandlerStops(t) PROVE Places'
    <2>0. UNCHANGED <<setup, start, recv, handoff, handler, blocked, worker>>
      BY <1>3 DEF HandlerStops
    <2>1. CASE UNCHANGED stop
      BY <2>0, <2>1, KeepSides DEF Placed, Publishes, Busy, HandoffPlaced
    <2>2. CASE stop.phase = "none"
      <3>1. \A u \in Tasks : handler[u] # "none" => ~Publishes(u)
        BY <2>2 DEF Publishes
      <3> QED
        BY <2>0, <2>2, <3>1, QuietPlaces DEF HandoffPlaced
    <2> QED
      BY <1>3, <2>1, <2>2 DEF HandlerStops
  <1> QED
    BY <1>1, <1>2, <1>3


\* A step that leaves the stop, start() and the hand-off alone.
LEMMA HandlerPlaces ==
  ASSUME EmitTypes, Sides, Placed, HandoffPlaced,
         UNCHANGED <<setup, stop, start, handoff, worker>>,
         \A u \in Tasks \ {"worker"} : handler'[u] \in {handler[u], "none"},
         handler'["worker"] # "none" => Background,
         recv' = recv \/ handler["receiver"] = "none" \/ Publishes("receiver"),
         blocked' = blocked \/ \E t \in Tasks : blocked' = [blocked EXCEPT ![t] = "none"]
  PROVE  Places'
  <1>1. Callers \subseteq Tasks \ {"worker"}
    BY TaskAssumption DEF Tasks, Callers, TaskAssumption
  <1>2. Sides'
    BY <1>1 DEF Sides, Background, EmitTypes
  <1>3. Placed'
    BY DEF Placed, Publishes, Busy
  <1> QED
    BY <1>2, <1>3 DEF Places, HandoffPlaced

LEMMA PlacesByRest ==
  ASSUME Types, Places,
         \/ DatagramArrives \/ ReceiveFails \/ ReceiverStep \/ WorkerStep \/ HandoffStep \/ Sweeps
         \/ \E t \in Tasks : HandlerRaises(t) \/ HandlerReturns(t) \/ Unblocked(t)
  PROVE  Places'
  <1>t. /\ EmitTypes /\ StopTypes /\ Sides /\ Placed /\ HandoffPlaced /\ WorkerTypes
        /\ {"bytes", "error", "closed"} \subseteq Events
        /\ "receiver" \in Tasks \ {"worker"} /\ "handoff" \in Tasks \ {"worker"}
        /\ "worker" \in Tasks /\ "receiver" \in Callers
    BY DEF Types, Places, Events, Payload, Tasks, Callers
  <1>w. worker = "run" \/ handler["worker"] # "none" => Background
    BY <1>t DEF Sides
  <1> USE <1>t DEF runtimeVars, closeVars, taskVars, emitVars, workerVars
  <1>1. CASE DatagramArrives \/ ReceiveFails
    <2>1. /\ UNCHANGED <<setup, stop, start, handoff, worker>> /\ recv' \in {"emitted", "failing"}
          /\ \E e \in Events : \E g : EmitIf("receiver", e, g, ~stopping)
      BY <1>1 DEF DatagramArrives, ReceiveFails, Emit
    <2>2. Sides' /\ \A u \in Tasks : u # "receiver" => handler'[u] = handler[u]
      BY <2>1, EmitSides
    <2>3. Busy("receiver")'
      BY <2>1 DEF Busy
    <2>4. \A u \in Tasks : u # "receiver" => (Busy(u) => Busy(u)') /\ (Publishes(u) => Publishes(u)')
      BY <2>1 DEF Busy, Publishes
    <2>5. Placed'
      BY <2>2, <2>3, <2>4 DEF Placed
    <2> QED
      BY <2>1, <2>2, <2>5 DEF Places, HandoffPlaced
  <1>2. CASE ReceiverLoops \/ ReceiverEnds \/ Sweeps
    <2>1. /\ UNCHANGED <<setup, stop, start, handoff, handler, blocked, worker>>
          /\ recv' = recv \/ handler["receiver"] = "none" \/ recv = "stopping"
      BY <1>2 DEF ReceiverLoops, ReceiverEnds, Sweeps, Ready, EmitsNothing
    <2>2. recv = "stopping" => handler["receiver"] = "none" \/ Publishes("receiver")
      BY DEF Placed, Busy
    <2> QED
      BY <1>w, <2>1, <2>2, HandlerPlaces
  <1>3. CASE ReceiverExits
    <2>1. UNCHANGED <<setup, start, handoff, worker>> /\ handler["receiver"] = "none"
      BY <1>3 DEF ReceiverExits, Ready
    <2>2. CASE running
      <3>1. /\ Sides'
            /\ \A u \in Tasks \ {"worker"} :
                 handler'[u] # "none" => Publishes(u)' \/ (handler[u] # "none" /\ Busy(u))
        BY <1>3, <2>1, <2>2, CallStopPlaces DEF ReceiverExits
      <3> QED
        BY <2>1, <3>1 DEF Places, Placed, Busy, HandoffPlaced
    <2>3. CASE ~running
      <3>1. UNCHANGED <<stop, handler, blocked>>
        BY <1>3, <2>3 DEF ReceiverExits, EmitsNothing
      <3> QED
        BY <1>w, <2>1, <3>1, HandlerPlaces
    <2> QED
      BY <2>2, <2>3
  <1>4. CASE WorkerTakes
    <2>1. UNCHANGED <<setup, stop, start, recv, handoff, blocked, worker>> /\ worker = "run"
      BY <1>4 DEF WorkerTakes
    <2>2. handler' = [handler EXCEPT !["worker"] = Head(queue)]
      BY <1>4 DEF WorkerTakes
    <2>3. \A u \in Tasks \ {"worker"} : handler'[u] \in {handler[u], "none"}
      BY <2>2 DEF EmitTypes
    <2> QED
      BY <1>w, <2>1, <2>3, HandlerPlaces
  <1>5. CASE WorkerExits
    <2>1. /\ UNCHANGED <<setup, recv, handoff, handler, blocked>> /\ worker = "run"
          /\ stop'.by = stop.by /\ stop'.deferred = stop.deferred
          /\ stop'.phase = (IF stop.phase = "draining" THEN "drained" ELSE stop.phase)
          /\ start' = start \/ start = "draining"
      BY <1>5 DEF WorkerExits, StopTypes, StopPlan
    <2>2. Sides'
      BY <1>w, <2>1, KeepSides
    <2>3. Placed'
      BY <2>1 DEF Placed, Publishes, Busy
    <2> QED
      BY <2>1, <2>2, <2>3 DEF Places, HandoffPlaced
  <1>6. CASE HandoffTakes
    <2>1. UNCHANGED <<setup, stop, start, recv, worker>> /\ handoff = "run" /\ handoff' \in {"emitted", "no"}
      BY <1>6 DEF HandoffTakes
    <2>2. HandoffPlaced'
      BY <2>1 DEF HandoffPlaced
    <2>3. CASE EmitIf("handoff", "closed", ghost, ~stopping) /\ handoff' = "emitted"
      <3>1. Sides' /\ \A u \in Tasks : u # "handoff" => handler'[u] = handler[u]
        BY <2>1, <2>3, EmitSides
      <3>2. Placed'
        BY <2>1, <2>3, <3>1 DEF Placed, Publishes, Busy
      <3> QED
        BY <2>2, <3>1, <3>2 DEF Places
    <2>4. CASE UNCHANGED <<handler, blocked>>
      <3>1. Sides'
        BY <2>1, <2>4, KeepSides
      <3>2. Placed'
        BY <2>1, <2>4 DEF Placed, Publishes, Busy
      <3> QED
        BY <2>2, <3>1, <3>2 DEF Places
    <2> QED
      BY <1>6, <2>3, <2>4 DEF HandoffTakes, Emit
  <1>7. CASE HandoffEnds
    <2>1. /\ UNCHANGED <<setup, start, recv, handler, blocked, worker>> /\ handler["handoff"] = "none"
          /\ handoff = "emitted"
      BY <1>7 DEF HandoffEnds, Ready, EmitsNothing
    <2>2. stop' = stop \/ stop.phase = "waiter"
      BY <1>7 DEF HandoffEnds, Settles
    <2>3. Sides'
      BY <2>1, KeepSides
    <2>4. Placed'
      BY <2>1, <2>2 DEF Placed, Publishes, Busy
    <2> QED
      BY <2>1, <2>3, <2>4 DEF Places, HandoffPlaced
  <1>8. ASSUME NEW t \in Tasks, HandlerRaises(t) \/ HandlerReturns(t) \/ Unblocked(t) PROVE Places'
    <2>1. UNCHANGED <<setup, stop, start, recv, handoff, worker>>
      BY <1>8 DEF HandlerRaises, HandlerReturns, HandlerEnds, Unblocked
    <2>2. /\ blocked' = blocked \/ blocked' = [blocked EXCEPT ![t] = "none"]
          /\ \/ handler' = handler \/ handler' = [handler EXCEPT ![t] = "none"]
             \/ /\ t = "worker" /\ handler["worker"] # "none"
                /\ handler' = [handler EXCEPT !["worker"] = Head(queue)]
      BY <1>8 DEF HandlerRaises, HandlerReturns, HandlerEnds, Unblocked
    <2>3. \A u \in Tasks \ {"worker"} : handler'[u] \in {handler[u], "none"}
      BY <2>2 DEF EmitTypes
    <2>4. handler'["worker"] # "none" => Background
      BY <1>w, <2>2 DEF EmitTypes
    <2> QED
      BY <2>1, <2>2, <2>3, <2>4, HandlerPlaces
  <1> QED
    BY <1>1, <1>2, <1>3, <1>4, <1>5, <1>6, <1>7, <1>8 DEF ReceiverStep, WorkerStep, HandoffStep


\* A step of another task that leaves the receive task and what it depends on alone.
LEMMA ReadingKept ==
  ASSUME Reading, UNCHANGED <<setup, recv>>, handler'["receiver"] = handler["receiver"],
         turn # "receiver" \/ handler["receiver"] # "none",
         state = "RUNNING" /\ task /\ start = "idle" => state' = "RUNNING" /\ task' /\ start' = "idle",
         \/ /\ stop'.phase = stop.phase /\ stop'.cancels = stop.cancels
            /\ stop'.deferred = stop.deferred
         \/ stop.phase \notin {"teardown", "reader", "context"}
  PROVE  Reading'
  BY DEF Reading, Reads, Unwinds, Background

LEMMA ReadingByStart ==
  ASSUME Types, Held, Places, Reading, turn # "receiver", StartCalled \/ StartCancelled \/ StartStep
  PROVE  Reading'
  <1>t. EmitTypes /\ StopTypes /\ "starter" \in Tasks /\ "receiver" \in Tasks
    BY DEF Types, Tasks, Callers
  <1> USE <1>t DEF runtimeVars, closeVars, taskVars, emitVars, workerVars
  <1>1. CASE StartCalled
    <2>1. /\ UNCHANGED <<setup, recv, stop>> /\ state # "RUNNING"
          /\ \E g : EmitIf("starter", "STARTING", g, ~stopping') \/ EmitsNothing("starter", g)
      BY <1>1 DEF StartCalled
    <2>2. handler'["receiver"] = handler["receiver"]
      BY <2>1 DEF EmitIf, EmitsNothing, EmitTypes
    <2> QED
      BY <2>1, <2>2, ReadingKept
  <1>2. CASE StartCancelled
    <2>1. UNCHANGED <<setup, recv, stop, state, task, start, handler>>
      BY <1>2 DEF StartCancelled, CancelsEmit
    <2> QED
      BY <2>1, ReadingKept
  <1>3. CASE \/ StartRollsBack \/ StartOvertaken \/ Binds \/ BindFails \/ StartFails \/ Opens \/ HandsOff
             \/ StartEnds
    <2>1. UNCHANGED <<setup, recv, stop>> /\ start # "idle"
      BY <1>3 DEF StartRollsBack, StartOvertaken, Binds, BindFails, StartFails, Opens, HandsOff, StartEnds
    <2>2. \/ \E e \in Events : \E g : EmitIf("starter", e, g, ~stopping)
          \/ handler' = handler
      BY <1>3 DEF StartRollsBack, StartOvertaken, Binds, BindFails, StartFails, Opens, HandsOff, StartEnds,
                  Emit, EmitsNothing, Events
    <2>3. handler'["receiver"] = handler["receiver"]
      BY <2>2 DEF EmitIf, EmitTypes
    <2> QED
      BY <2>1, <2>3, ReadingKept
  <1>4. CASE StartStops
    <2>1. CallStop("starter", ghost) /\ start # "idle" /\ UNCHANGED <<setup, recv>>
      BY <1>4 DEF StartStops
    <2>2. CASE stop.phase # "none"
      <3>1. UNCHANGED <<stop, handler>>
        BY <2>1, <2>2 DEF CallStop, EmitsNothing
      <3> QED
        BY <2>1, <3>1, ReadingKept
    <2>3. CASE stop.phase = "none"
      BY <2>1, <2>3 DEF Reading, Reads, Unwinds
    <2> QED
      BY <2>2, <2>3
  <1>5. CASE StartSucceeds
    <2>1. UNCHANGED <<setup, stop, state, handler>> /\ start = "handoff" /\ start' = "idle"
      BY <1>5 DEF StartSucceeds
    <2>2. \/ state = "RUNNING" /\ recv' = "reading" /\ task'
          \/ UNCHANGED <<recv, task>>
      BY <1>5 DEF StartSucceeds, StillRunning
    <2> QED
      BY <2>1, <2>2, ReadingKept DEF Reading
  <1> QED
    BY <1>1, <1>2, <1>3, <1>4, <1>5 DEF StartStep

\* Before a stop, the only handler of a receiver that reads is the one of its own task.
LEMMA LoneHandler ==
  ASSUME Types, Places, Reading, Reads, stop.phase = "none", NEW t \in Tasks, handler[t] # "none",
         ~Background \/ t = "receiver"
  PROVE  t = "receiver" /\ ~Background /\ recv \in {"emitted", "failing"}
  <1>1. start = "idle" /\ recv # "cancelled"
    BY DEF Reading, Unwinds
  <1>2. "receiver" \in Callers /\ "receiver" # "worker"
    BY DEF Callers
  <1>3. ~Background
    BY <1>2 DEF Places, Sides
  <1>4. t # "worker"
    BY <1>3 DEF Places, Sides
  <1>5. Busy(t)
    BY <1>4 DEF Places, Placed, Publishes
  <1> QED
    BY <1>1, <1>3, <1>5 DEF Busy, Places, HandoffPlaced

LEMMA ReadingPlanned ==
  ASSUME Types, Held, Places, Reading, stop.phase = "none", NEW t \in Tasks, NEW d \in BOOLEAN, NEW c \in BOOLEAN,
         Plan(t, d, c), UNCHANGED <<setup, recv>>,
         (c /\ t # "receiver") \/ (d /\ handler'["receiver"] # "none" /\ handler["receiver"] # "none")
  PROVE  Reading'
  <1> SUFFICES ASSUME Reads' PROVE Reading'
    BY DEF Reading
  <1>1. Reads /\ task = TRUE
    BY DEF Reading, Reads, Unwinds, Types, RunTypes
  <1>2. stop'.phase = "teardown" /\ stop'.deferred = d /\ stop'.cancels = (c /\ task /\ t # "receiver")
    BY DEF Plan
  <1>3. CASE c /\ t # "receiver"
    BY <1>1, <1>2, <1>3 DEF Reading
  <1>4. CASE d /\ handler'["receiver"] # "none" /\ handler["receiver"] # "none"
    <2>1. "receiver" \in Tasks
      BY DEF Tasks, Callers
    <2>2. ~Background /\ recv \in {"emitted", "failing"}
      BY <1>1, <1>4, <2>1, LoneHandler
    <2> QED
      BY <1>2, <1>4, <2>2 DEF Reading, Unwinds, Background
  <1> QED
    BY <1>3, <1>4

LEMMA ReadingByStoppers ==
  ASSUME Types, Held, Places, Reading, turn # "receiver", NEW c \in Stoppers,
         StopCalled(c) \/ StopperCancelled(c)
  PROVE  Reading'
  <1>t. /\ EmitTypes /\ StopTypes /\ c \in Tasks
        /\ c \notin {"receiver", "completer", "handoff"}
    BY TaskAssumption DEF Types, Tasks, Callers, TaskAssumption
  <1> USE <1>t DEF runtimeVars, closeVars, taskVars, emitVars, workerVars
  <1>1. CASE StopCalled(c)
    <2> DEFINE active == ActiveHandler /\ DeliversInline(c)
    <2>0. UNCHANGED <<setup, recv, start>>
      BY <1>1 DEF StopCalled
    <2>1. PICK g : CallStop(c, g)
      BY <1>1 DEF StopCalled
    <2>2. CASE UNCHANGED <<state, task, stop, handler>>
      BY <2>0, <2>2, ReadingKept
    <2>3. CASE stop.phase = "none" /\ Plan(c, active, ~active) /\ (active => UNCHANGED handler)
      <3>0. active \in BOOLEAN
        BY DEF ActiveHandler
      <3>1. CASE ~active
        <4>1. (~active) \in BOOLEAN /\ (~active)
          BY <3>1
        <4> HIDE DEF active
        <4> QED
          BY <2>0, <2>3, <3>0, <4>1, ReadingPlanned
      <3>2. CASE active /\ Reads
        <4>1. ~Background
          BY <3>2 DEF DeliversInline
        <4>2. PICK t \in Tasks : handler[t] # "none"
          BY <3>2 DEF ActiveHandler
        <4>3. handler["receiver"] # "none"
          BY <2>3, <3>2, <4>1, <4>2, LoneHandler
        <4>4. handler'["receiver"] # "none" /\ (~active) \in BOOLEAN
          BY <2>3, <3>2, <4>3
        <4> HIDE DEF active
        <4> QED
          BY <2>0, <2>3, <3>0, <3>2, <4>3, <4>4, ReadingPlanned
      <3>3. CASE ~Reads
        BY <2>0, <3>3 DEF Reading, Reads
      <3> QED
        BY <3>1, <3>2, <3>3
    <2> HIDE DEF active
    <2> QED
      BY <2>1, <2>2, <2>3 DEF CallStop, EmitsNothing, active
  <1>2. CASE StopperCancelled(c)
    <2>1. UNCHANGED <<setup, state, task, start, recv, handler>>
      BY <1>2 DEF StopperCancelled, CancelsEmit
    <2>2. \/ stop' = stop \/ stop.phase \in {"waiter", "draining"}
          \/ stop' = [stop EXCEPT !.error = TRUE]
      BY <1>2 DEF StopperCancelled, CancelsEmit, CancelsStop
    <2>3. stop' = [stop EXCEPT !.error = TRUE] =>
            /\ stop'.phase = stop.phase /\ stop'.cancels = stop.cancels
            /\ stop'.deferred = stop.deferred
      BY DEF StopTypes, StopPlan
    <2> QED
      BY <2>1, <2>2, <2>3, ReadingKept
  <1> QED
    BY <1>1, <1>2


LEMMA ReadingByHandler ==
  ASSUME Types, Held, Places, Reading, NEW t \in Tasks, turn \in {"none", t},
         HandlerStops(t) \/ HandlerRaises(t) \/ HandlerReturns(t) \/ Unblocked(t),
         turn' = IF Continues(t)' THEN t ELSE "none"
  PROVE  Reading'
  <1>t. EmitTypes /\ StopTypes /\ "receiver" \in Tasks
    BY DEF Types, Tasks, Callers
  <1> USE <1>t DEF runtimeVars, closeVars, taskVars, emitVars, workerVars
  <1>1. CASE HandlerStops(t)
    <2>1. UNCHANGED <<setup, recv, start, handler>> /\ handler[t] # "none"
      BY <1>1 DEF HandlerStops
    <2>2. CASE UNCHANGED <<state, task, stop>>
      <3>1. turn # "receiver" \/ handler["receiver"] # "none"
        BY <2>1
      <3> QED
        BY <2>1, <2>2, <3>1, ReadingKept
    <2>3. CASE stop.phase = "none" /\ Plan(t, TRUE, TRUE)
      <3>1. (TRUE /\ t # "receiver") \/ (TRUE /\ handler'["receiver"] # "none" /\ handler["receiver"] # "none")
        BY <2>1
      <3> QED
        BY <2>1, <2>3, <3>1, ReadingPlanned
    <2> QED
      BY <1>1, <2>2, <2>3 DEF HandlerStops
  <1>2. CASE Unblocked(t)
    <2>1. UNCHANGED <<setup, state, task, stop, start, recv, handler>> /\ blocked[t] # "none"
      BY <1>2 DEF Unblocked
    <2>2. Background
      BY <2>1 DEF Places, Sides
    <2> QED
      BY <2>1, <2>2 DEF Reading, Reads, Unwinds, Background
  <1>3. CASE HandlerRaises(t) \/ HandlerReturns(t)
    <2>1. /\ UNCHANGED <<setup, state, task, stop, start, recv, blocked>> /\ handler[t] # "none"
          /\ handler' = [handler EXCEPT ![t] = IF t = "worker" /\ queue # <<>> THEN Head(queue) ELSE "none"]
      BY <1>3 DEF HandlerRaises, HandlerReturns, HandlerEnds
    <2>h. /\ \A u \in Tasks : u # t => handler'[u] = handler[u]
          /\ t # "worker" => handler'[t] = "none"
      BY <2>1 DEF EmitTypes
    <2>2. CASE t # "receiver"
      BY <2>1, <2>h, <2>2, ReadingKept
    <2>3. CASE t = "receiver" /\ Unwinds
      <3>1. blocked["receiver"] = "none"
        BY <2>3 DEF Unwinds, Places, Sides
      <3>2. Continues("receiver")'
        BY <2>1, <2>h, <2>3, <3>1 DEF Continues, Ready, Unwinds
      <3>3. turn' = "receiver"
        BY <2>3, <3>2
      <3>4. Unwinds'
        BY <2>1, <2>3, <3>3 DEF Unwinds, Background
      <3> QED
        BY <3>4 DEF Reading
    <2>4. CASE ~Unwinds
      BY <2>1, <2>4 DEF Reading, Reads
    <2> QED
      BY <2>2, <2>3, <2>4
  <1> QED
    BY <1>1, <1>2, <1>3

LEMMA ReadingByStop ==
  ASSUME Types, Held, Places, Reading, NEW by, by = stop.by, turn \in {"none", by}, StopStep,
         turn' = IF Continues(by)' THEN by ELSE "none"
  PROVE  Reading'
  <1>t. EmitTypes /\ StopTypes /\ "receiver" \in Tasks /\ SocketHeld
    BY DEF Types, Tasks, Callers, Held
  <1> USE <1>t DEF runtimeVars, closeVars, taskVars, emitVars, workerVars
  <1>1. CASE TearsDown
    <2>0. /\ UNCHANGED <<setup, handler, state>> /\ stop.phase = "teardown" /\ state = "STOPPING"
          /\ recv' = recv \/ recv' = "cancelled"
      BY <1>1 DEF TearsDown, Executes, SocketHeld, Owning
    <2>1. CASE stop.cancels /\ recv \notin {"none", "done"}
      <3>1. stop' = [stop EXCEPT !.phase = "reader", !.error = SeesError]
        BY <1>1, <2>1 DEF TearsDown
      <3>2. stop'.phase = "reader"
        BY <3>1 DEF StopTypes, StopPlan
      <3> QED
        BY <3>2 DEF Reading
    <2>2. CASE ~(stop.cancels /\ recv \notin {"none", "done"}) /\ Reads
      <3>1. SocketCloses(SeesError) /\ UNCHANGED <<recv, blocked>>
        BY <1>1, <2>2 DEF TearsDown
      <3>2. Unwinds
        BY <2>0, <2>2 DEF Reading, Reads
      <3>3. stop' = [stop EXCEPT !.phase = "context", !.by = "completer"]
        BY <3>1, <3>2 DEF SocketCloses, Unwinds
      <3>4. stop'.phase = "context" /\ stop'.deferred
        BY <3>2, <3>3 DEF StopTypes, StopPlan, Unwinds
      <3>5. handler["receiver"] = "none" => turn' = "receiver"
        <4> SUFFICES ASSUME handler["receiver"] = "none" PROVE turn' = "receiver"
          OBVIOUS
        <4>1. by = "receiver"
          BY <3>2 DEF Unwinds
        <4>2. blocked["receiver"] = "none"
          BY <3>2 DEF Unwinds, Places, Sides
        <4>3. Continues("receiver")'
          BY <2>0, <3>1, <3>2, <4>2 DEF Continues, Ready, Unwinds
        <4> QED
          BY <4>1, <4>3
      <3> QED
        BY <2>0, <3>1, <3>2, <3>4, <3>5 DEF Reading, Unwinds, Background
    <2>3. CASE ~(stop.cancels /\ recv \notin {"none", "done"}) /\ ~Reads
      <3>1. recv' = recv
        BY <1>1, <2>3 DEF TearsDown
      <3> QED
        BY <2>3, <3>1 DEF Reading, Reads
    <2> QED
      BY <2>1, <2>2, <2>3
  <1>2. CASE ReceiverGone
    BY <1>2 DEF ReceiverGone, Reading, Reads
  <1>3. CASE HandlersGone
    <2>1. /\ recv' = recv /\ stop.phase = "context" /\ handler["receiver"] = "none"
          /\ state = "STOPPING" /\ stop.by = "completer"
      BY <1>3 DEF HandlersGone, Executes, ActiveHandler, SocketHeld, Owning
    <2>2. ~Reads
      BY <2>1 DEF Reading, Unwinds
    <2> QED
      BY <2>1, <2>2 DEF Reading, Reads
  <1>4. CASE Closes \/ Stops
    <2>1. recv' = recv /\ stop.phase \in {"close", "stopped"} /\ state = "STOPPING"
      BY <1>4 DEF Closes, Stops, Executes, SocketHeld, Owning
    <2>2. ~Reads
      BY <2>1 DEF Reading, Unwinds
    <2> QED
      BY <2>1, <2>2 DEF Reading, Reads
  <1>5. CASE StopsOwnDispatcher \/ StopEnds
    <2>1. UNCHANGED <<recv, state, task, start>> /\ stop.phase \in {"drain", "drained"}
      BY <1>5 DEF StopsOwnDispatcher, StopEnds, Executes
    <2> QED
      BY <2>1 DEF Reading, Reads, Unwinds
  <1> QED
    BY <1>1, <1>2, <1>3, <1>4, <1>5 DEF StopStep

LEMMA ReadingByReceiver ==
  ASSUME Types, Held, Places, Reading, DatagramArrives \/ ReceiveFails \/ ReceiverStep
  PROVE  Reading'
  <1>t. EmitTypes /\ StopTypes /\ "receiver" \in Tasks /\ SocketHeld
    BY DEF Types, Tasks, Callers, Held
  <1> USE <1>t DEF runtimeVars, closeVars, taskVars, emitVars, workerVars
  <1>1. CASE DatagramArrives
    <2>1. UNCHANGED <<state, task, stop, start>> /\ recv = "reading" /\ recv' = "emitted"
      BY <1>1 DEF DatagramArrives
    <2> QED
      BY <2>1 DEF Reading, Reads, Unwinds
  <1>2. CASE ReceiveFails
    <2>1. /\ UNCHANGED <<setup, state, task, stop, start>> /\ recv \in {"reading", "emitted"}
          /\ recv' = "failing" /\ EmitIf("receiver", "error", ghost, ~stopping)
      BY <1>2 DEF ReceiveFails, Emit
    <2>2. ~Background => handler'["receiver"] # "none"
      BY <2>1 DEF EmitIf, DeliversInline, EmitTypes
    <2> QED
      BY <2>1, <2>2 DEF Reading, Reads, Unwinds, Background
  <1>3. CASE ReceiverLoops
    <2>1. /\ UNCHANGED <<state, task, stop, start>> /\ recv = "emitted"
          /\ recv' = IF running THEN "reading" ELSE "done"
      BY <1>3 DEF ReceiverLoops
    <2>2. Unwinds => ~running
      BY DEF Unwinds, SocketHeld, Owning
    <2> QED
      BY <2>1, <2>2 DEF Reading, Reads, Unwinds
  <1>4. CASE ReceiverExits \/ ReceiverEnds
    <2>1. recv' \in {"stopping", "done"}
      BY <1>4 DEF ReceiverExits, ReceiverEnds
    <2> QED
      BY <2>1 DEF Reading, Reads
  <1> QED
    BY <1>1, <1>2, <1>3, <1>4 DEF ReceiverStep

LEMMA ReadingByRest ==
  ASSUME Types, Held, Places, Reading, turn # "receiver", HandoffStep \/ WorkerStep \/ Sweeps
  PROVE  Reading'
  <1>t. EmitTypes /\ StopTypes /\ "receiver" \in Tasks
    BY DEF Types, Tasks, Callers
  <1> USE <1>t DEF runtimeVars, closeVars, taskVars, emitVars, workerVars
  <1>1. /\ UNCHANGED <<setup, state, task, recv>>
        /\ start' = start \/ start = "draining"
    BY DEF HandoffStep, HandoffTakes, HandoffEnds, WorkerStep, WorkerTakes, WorkerExits, Sweeps
  <1>2. \/ stop' = stop \/ stop.phase = "waiter"
        \/ stop' = [stop EXCEPT !.phase = IF @ = "draining" THEN "drained" ELSE @]
    BY DEF HandoffStep, HandoffTakes, HandoffEnds, Settles, WorkerStep, WorkerTakes, WorkerExits, Sweeps
  <1>3. \/ handler' = handler \/ EmitIf("handoff", "closed", ghost, ~stopping)
        \/ handler' = [handler EXCEPT !["worker"] = Head(queue)]
    BY DEF HandoffStep, HandoffTakes, HandoffEnds, EmitsNothing, Emit, WorkerStep, WorkerTakes, WorkerExits,
           Sweeps
  <1>4. handler'["receiver"] = handler["receiver"]
    BY <1>3 DEF EmitIf, EmitTypes
  <1>5. \/ /\ stop'.phase = stop.phase /\ stop'.cancels = stop.cancels
           /\ stop'.deferred = stop.deferred
        \/ stop.phase \notin {"teardown", "reader", "context"}
    BY <1>2 DEF StopTypes, StopPlan
  <1> QED
    BY <1>1, <1>4, <1>5, ReadingKept

LEMMA ReadingStep == TypeOK /\ Held /\ Places /\ Reading /\ [Next]_vars => Reading'
  <1> SUFFICES ASSUME TypeOK, Held, Places, Reading, [Next]_vars PROVE Reading'
    OBVIOUS
  <1>1. Types
    BY TypesOfTypeOK
  <1>2. CASE UNCHANGED vars
    BY <1>2 DEF vars, runtimeVars, taskVars, emitVars, Reading, Reads, Unwinds, Background
  <1>3. CASE Next
    <2>1. CASE Runs("starter", StartCalled \/ StartCancelled) \/ Runs("starter", StartStep)
      BY <1>1, <2>1, ReadingByStart DEF Runs
    <2>2. CASE \E c \in Stoppers : Runs(c, StopCalled(c) \/ StopperCancelled(c))
      <3>1. PICK c \in Stoppers : Runs(c, StopCalled(c) \/ StopperCancelled(c))
        BY <2>2
      <3>2. turn # "receiver"
        BY <3>1, TaskAssumption DEF Runs, TaskAssumption
      <3> QED
        BY <1>1, <3>1, <3>2, ReadingByStoppers DEF Runs
    <2>3. CASE \/ Runs("receiver", DatagramArrives \/ (recv = "reading" /\ ReceiveFails))
               \/ Runs("receiver", ReceiverStep)
      BY <1>1, <2>3, ReadingByReceiver DEF Runs
    <2>4. CASE \E t \in Tasks :
                 Runs(t, HandlerStops(t) \/ HandlerRaises(t) \/ HandlerReturns(t) \/ Unblocked(t))
      BY <1>1, <2>4, ReadingByHandler DEF Runs
    <2>5. CASE \E t \in {stop.by} : Runs(t, StopStep)
      BY <1>1, <2>5, ReadingByStop DEF Runs
    <2>6. CASE \/ Runs("handoff", HandoffStep) \/ Runs("worker", WorkerStep)
               \/ turn = "none" /\ Sweeps
      BY <1>1, <2>6, ReadingByRest DEF Runs
    <2> QED
      BY <1>3, <2>1, <2>2, <2>3, <2>4, <2>5, <2>6 DEF Next
  <1> QED
    BY <1>2, <1>3

LEMMA PlacesStep == TypeOK /\ Held /\ Places /\ Reading /\ [Next]_vars => Places'
  <1> SUFFICES ASSUME TypeOK, Held, Places, Reading, [Next]_vars PROVE Places'
    OBVIOUS
  <1>1. Types /\ turn \in Tasks \cup {"none"} /\ StopTypes /\ SocketHeld
    BY TypesOfTypeOK DEF Types, Held
  <1>2. CASE UNCHANGED vars
    BY <1>2 DEF vars, taskVars, emitVars, workerVars, Places, Sides, Placed, HandoffPlaced, Publishes, Busy,
                Background
  <1>3. CASE Next
    <2>1. Acts
      BY <1>1, <1>3, NextActs
    <2> QED
      BY <1>1, <2>1, PlacesByStart, PlacesByStop, PlacesByStoppers, PlacesByRest DEF Acts
  <1> QED
    BY <1>2, <1>3

\* The invariant behind StoppedHoldsNothing.
HoldInv == Held /\ Places /\ Reading

LEMMA HoldInvariant == Spec => []HoldInv
  <1>1. Init => HoldInv
    BY DEF Init, HoldInv, Held, SocketHeld, Ghost, NoStop, Holding, Owning, Places, Sides, Placed,
           HandoffPlaced, Reading, Reads, Callers, Tasks
  <1>2. TypeOK /\ HoldInv /\ [Next]_vars => HoldInv'
    BY HeldStep, PlacesStep, ReadingStep DEF HoldInv
  <1> QED
    BY <1>1, <1>2, TypeCorrect, PTL DEF Spec

\* A receiver that is STOPPED has no open socket and no task that still reads from
\* one: whoever stopped it, a caller, a handler or its own failed receive loop, has
\* closed the socket and seen that loop end before it published STOPPED.
THEOREM StoppedIsEmpty == Spec => []StoppedHoldsNothing
  <1>1. TypeOK /\ HoldInv => StoppedHoldsNothing
    <2> SUFFICES ASSUME TypeOK, HoldInv, state = "STOPPED"
                 PROVE  ghost.open = 0 /\ recv \in {"none", "done", "stopping"}
      BY DEF StoppedHoldsNothing
    <2>1. stop.phase \notin Owning /\ ~sock
      BY DEF HoldInv, Held, SocketHeld
    <2>2. ghost.open = 0
      BY <2>1 DEF HoldInv, Held, SocketHeld, Holding, Owning
    <2>3. ~Reads
      BY <2>1 DEF HoldInv, Reading, Unwinds, Owning
    <2> QED
      BY <2>2, <2>3 DEF TypeOK, ReceiverStates, Reads
  <1> QED
    BY <1>1, TypeCorrect, HoldInvariant, PTL


-----------------------------------------------------------------------------
(***************************************************************************)
(* A stop() that returns leaves a stopped receiver.                         *)
(***************************************************************************)
\* Who awaits the dispatcher's worker, in the owned stop or without one, awaits the
\* worker of a receiver that is STOPPED, and start() waits until they are through.
Ending == {"drain", "draining", "drained"}
LeaveInv ==
  ~setup.overlap =>
    /\ stop.phase \in Ending => state = "STOPPED"
    /\ stop.phase = "drained" => worker = "none"
    /\ \A c \in Callers : pc[c] = "drain" => state = "STOPPED" /\ stop.phase = "none"

\* A step that starts no wait for the worker.
LEMMA LeaveKept ==
  ASSUME LeaveInv, UNCHANGED <<setup, state>>, worker' \in {worker, "none"},
         \A c \in Callers : pc'[c] = "drain" => pc[c] = "drain",
         \/ stop'.phase = stop.phase
         \/ /\ stop.phase # "none" /\ stop'.phase # "drained"
            /\ stop'.phase \in Ending => stop.phase \in Ending
  PROVE  LeaveInv'
  BY DEF LeaveInv, Ending

\* The outcome of a call is not another wait.
LEMMA OutcomeEnds ==
  ASSUME NEW t, NEW o \in {"returned", "raised"}
  PROVE  Outcome(t, o) # "drain" /\ (t \in Stoppers => Outcome(t, o) = o)
  BY DEF Outcome

LEMMA CompletedEnds ==
  ASSUME CallTypes, NEW err \in BOOLEAN, Completed(err)
  PROVE  /\ stop'.phase = "none"
         /\ \A c \in Callers : pc'[c] = "drain" => pc[c] = "drain"
         /\ \A c \in Stoppers : pc'[c] = "returned" => pc[c] = "returned" \/ ~err
  <1>1. stop'.phase = "none"
    BY DEF Completed, NoStop
  <1>2. \A c \in Callers : pc'[c] = IF pc[c] \in {"own", "join"}
                                    THEN Outcome(c, IF err THEN "raised" ELSE "returned") ELSE pc[c]
    BY DEF Completed
  <1>3. Stoppers \subseteq Callers
    BY DEF Callers
  <1>4. (IF err THEN "raised" ELSE "returned") \in {"returned", "raised"}
    OBVIOUS
  <1> HIDE DEF Completed
  <1>5. \A c \in Callers : pc'[c] = "drain" => pc[c] = "drain"
    BY <1>2, <1>4, OutcomeEnds
  <1>6. \A c \in Stoppers : pc'[c] = "returned" => pc[c] = "returned" \/ ~err
    BY <1>2, <1>3, <1>4, OutcomeEnds
  <1> QED
    BY <1>1, <1>5, <1>6

\* stop() outside any handler: it waits only for the worker of a stopped receiver.
LEMMA CallStopLeaves ==
  ASSUME Types, SocketHeld, LeaveInv, NEW t \in Callers, NEW g, CallStop(t, g), UNCHANGED <<setup, worker>>
  PROVE  LeaveInv' /\ \A c \in Callers : c # t => pc'[c] = pc[c]
  <1>t. CallTypes
    BY DEF Types
  <1> USE <1>t DEF runtimeVars, CallTypes
  <1>0. \A c \in Callers : c # t => pc'[c] = pc[c]
    BY DEF CallStop, StopsDispatcher
  <1>1. CASE /\ stop.phase # "none" /\ UNCHANGED <<runtimeVars, stop>>
             /\ pc' = [pc EXCEPT ![t] = IF stop.owner = t THEN Outcome(t, "returned") ELSE "join"]
    <2>1. pc'[t] # "drain"
      BY <1>1, OutcomeEnds
    <2> QED
      BY <1>0, <1>1, <2>1, LeaveKept
  <1>2. CASE stop.phase = "none" /\ FullyStopped /\ UNCHANGED <<runtimeVars, stop>>
    BY <1>0, <1>2 DEF LeaveInv, FullyStopped
  <1>3. CASE stop.phase = "none" /\ ~FullyStopped /\ pc' = [pc EXCEPT ![t] = "own"] /\ stop'.phase = "teardown"
    <2>1. state # "STOPPED"
      BY <1>3 DEF FullyStopped, SocketHeld
    <2>2. ~setup.overlap => \A c \in Callers : pc'[c] # "drain"
      BY <1>0, <1>3, <2>1 DEF LeaveInv
    <2> QED
      BY <1>0, <1>3, <2>2 DEF LeaveInv, Ending
  <1> QED
    BY <1>0, <1>1, <1>2, <1>3 DEF CallStop, Plan

\* What a call of stop() that returns normally has to leave.
Left == state' = "STOPPED" /\ worker' = "none" /\ stop'.phase = "none"
Leaves == ~setup.overlap => \A c \in Stoppers : Returns(c) /\ ~OwnsAbandonedStop(c) => Left

\* A call that returns at once has found its own stop, or everything stopped.
LEMMA CallReturns ==
  ASSUME Types, NEW c \in Stoppers, StopCalled(c), pc'[c] = "returned", ~OwnsAbandonedStop(c)
  PROVE  Left
  <1>t. CallTypes /\ WorkerTypes /\ c \in Callers
    BY DEF Types, Callers
  <1>0. PICK g : CallStop(c, g) /\ Idle(c) /\ UNCHANGED worker
    BY DEF StopCalled
  <1>1. CASE stop.phase # "none"
    <2>1. stop.owner = c
      BY <1>t, <1>0, <1>1 DEF CallStop, CallTypes
    <2> QED
      BY <1>0, <1>1, <2>1 DEF OwnsAbandonedStop
  <1>2. CASE stop.phase = "none" /\ FullyStopped
    <2>1. StopsDispatcher(c) /\ UNCHANGED <<runtimeVars, stop>>
      BY <1>0, <1>2 DEF CallStop
    <2>2. worker # "run"
      BY <1>t, <2>1 DEF StopsDispatcher, CallTypes
    <2> QED
      BY <1>t, <1>0, <1>2, <2>1, <2>2 DEF Left, FullyStopped, WorkerTypes, runtimeVars
  <1>3. CASE stop.phase = "none" /\ ~FullyStopped
    BY <1>t, <1>0, <1>3 DEF CallStop, CallTypes
  <1> QED
    BY <1>1, <1>2, <1>3

LEMMA LeavesQuietly ==
  ASSUME Types, \A c \in Stoppers : pc'[c] = "returned" => pc[c] = "returned" \/ StopCalled(c)
  PROVE  Leaves
  <1> SUFFICES ASSUME NEW c \in Stoppers, Returns(c), ~OwnsAbandonedStop(c)
               PROVE  Left
    BY DEF Leaves
  <1> QED
    BY CallReturns DEF Returns

LEMMA LeaveByStart ==
  ASSUME Types, SocketHeld, LeaveInv, StartCalled \/ StartCancelled \/ StartStep
  PROVE  LeaveInv' /\ Leaves
  <1>t. /\ CallTypes /\ "starter" \in Callers
        /\ \A c \in Stoppers : c # "starter" /\ c \in Callers
    BY TaskAssumption DEF Types, Callers, TaskAssumption
  <1> USE <1>t DEF runtimeVars, CallTypes, workerVars
  <1>q. (\A c \in Callers : c # "starter" => pc'[c] = pc[c]) => Leaves
    BY LeavesQuietly
  <1>1. CASE StartCalled
    <2>1. /\ UNCHANGED <<setup, stop, pc>>
          /\ setup.overlap \/ (stop.phase = "none" /\ \A c \in Callers : pc[c] # "drain")
      BY <1>1 DEF StartCalled, StopUnderWay
    <2> QED
      BY <1>q, <2>1 DEF LeaveInv, Ending
  <1>2. CASE StartCancelled \/ StartOvertaken
    <2>1. UNCHANGED <<setup, state, worker, stop>> /\ pc' \in {pc, [pc EXCEPT !["starter"] = "idle"],
                                                                   [pc EXCEPT !["starter"] = "join"]}
      BY <1>2 DEF StartCancelled, CancelsEmit, StartOvertaken
    <2>2. \A c \in Callers : pc'[c] = "drain" => pc[c] = "drain"
      BY <2>1
    <2>3. \A c \in Callers : c # "starter" => pc'[c] = pc[c]
      BY <2>1
    <2> QED
      BY <1>q, <2>1, <2>2, <2>3, LeaveKept
  <1>3. CASE StartRollsBack \/ Binds \/ BindFails
    <2>1. UNCHANGED <<setup, stop, pc, worker>> /\ (state' = state \/ state = "STARTING")
      BY <1>3 DEF StartRollsBack, Binds, BindFails
    <2> QED
      BY <1>q, <2>1 DEF LeaveInv
  <1>4. CASE StartFails \/ Opens \/ HandsOff \/ StartEnds \/ StartSucceeds
    <2>1. UNCHANGED <<setup, state, stop, pc, worker>>
      BY <1>4 DEF StartFails, Opens, HandsOff, StartEnds, StartSucceeds
    <2> QED
      BY <1>q, <2>1, LeaveKept
  <1>5. CASE StartStops
    <2>1. UNCHANGED <<setup, worker>> /\ CallStop("starter", ghost)
      BY <1>5 DEF StartStops
    <2>2. LeaveInv' /\ \A c \in Callers : c # "starter" => pc'[c] = pc[c]
      BY <2>1, CallStopLeaves
    <2> QED
      BY <1>q, <2>2
  <1> QED
    BY <1>1, <1>2, <1>3, <1>4, <1>5 DEF StartStep

LEMMA LeaveByStop ==
  ASSUME Types, LeaveInv, StopStep
  PROVE  LeaveInv' /\ Leaves
  <1>t. CallTypes /\ StopTypes /\ WorkerTypes /\ EmitTypes /\ Stoppers \subseteq Callers
    BY DEF Types, Callers
  <1> USE <1>t DEF runtimeVars, CallTypes, closeVars, taskVars, emitVars, workerVars
  <1>0. UNCHANGED <<setup, worker>>
    BY DEF StopStep, TearsDown, ReceiverGone, HandlersGone, Closes, Stops, StopsOwnDispatcher, StopEnds
  <1>1. CASE TearsDown \/ ReceiverGone \/ HandlersGone \/ Closes
    <2>1. /\ state' = state /\ stop.phase \in {"teardown", "reader", "context", "close"}
          /\ pc' = pc \/ pc' = [t \in Callers |-> IF pc[t] = "own" THEN "join" ELSE pc[t]]
      BY <1>1 DEF TearsDown, ReceiverGone, HandlersGone, Closes, SocketCloses, Executes
    <2>s. ASSUME NEW err, SocketCloses(err) PROVE stop'.phase \in {"context", "close", "stopped"}
      <3>1. CASE stop.deferred
        BY <2>s, <3>1 DEF SocketCloses, StopTypes, StopPlan
      <3>2. CASE ~stop.deferred
        BY <2>s, <3>2 DEF SocketCloses, StopTypes, StopPlan
      <3> QED
        BY <3>1, <3>2
    <2>p. stop'.phase \in {"reader", "context", "close", "waiter", "stopped"}
      <3>1. CASE TearsDown \/ ReceiverGone
        <4>1. \/ stop' = [stop EXCEPT !.phase = "reader", !.error = SeesError]
              \/ SocketCloses(SeesError) \/ SocketCloses(stop.error)
          BY <3>1 DEF TearsDown, ReceiverGone
        <4>2. stop' = [stop EXCEPT !.phase = "reader", !.error = SeesError] => stop'.phase = "reader"
          BY DEF StopTypes, StopPlan
        <4> QED
          BY <2>s, <4>1, <4>2
      <3>2. CASE HandlersGone
        BY <3>2 DEF HandlersGone, StopTypes, StopPlan
      <3>3. CASE Closes
        BY <3>3 DEF Closes, StopTypes, StopPlan
      <3> QED
        BY <1>1, <3>1, <3>2, <3>3
    <2>2. stop'.phase \notin Ending
      BY <2>p DEF Ending
    <2>3. stop'.phase # "drained"
      BY <2>2 DEF Ending
    <2>4. \A c \in Callers : pc'[c] = "drain" => pc[c] = "drain"
      BY <2>1
    <2>5. \A c \in Stoppers : pc'[c] = "returned" => pc[c] = "returned"
      BY <2>1
    <2> QED
      BY <1>0, <2>1, <2>2, <2>3, <2>4, <2>5, LeaveKept, LeavesQuietly
  <1>2. CASE Stops
    <2>1. /\ state' = "STOPPED" /\ pc' = pc /\ stop.phase = "stopped"
          /\ stop' = [stop EXCEPT !.phase = "drain", !.error = SeesError]
      BY <1>2 DEF Stops, Executes
    <2>2. stop'.phase = "drain"
      BY <2>1 DEF StopTypes, StopPlan
    <2>3. LeaveInv'
      BY <1>0, <2>1, <2>2 DEF LeaveInv
    <2> QED
      BY <2>1, <2>3, LeavesQuietly
  <1>3. CASE StopsOwnDispatcher
    <2>1. /\ state' = state /\ stop.phase = "drain" /\ SeesError \in BOOLEAN
          /\ \/ Completed(TRUE) \/ (worker # "run" /\ Completed(SeesError))
             \/ stop' = [stop EXCEPT !.phase = "draining", !.error = SeesError] /\ pc' = pc
      BY <1>3, ErrorTyped DEF StopsOwnDispatcher, Executes
    <2>2. CASE stop' = [stop EXCEPT !.phase = "draining", !.error = SeesError] /\ pc' = pc
      <3>1. stop'.phase = "draining"
        BY <2>2 DEF StopTypes, StopPlan
      <3>2. LeaveInv'
        BY <1>0, <2>1, <2>2, <3>1 DEF LeaveInv, Ending
      <3> QED
        BY <2>2, <3>2, LeavesQuietly
    <2>3. CASE Completed(TRUE)
      <3>1. /\ stop'.phase = "none"
            /\ \A c \in Callers : pc'[c] = "drain" => pc[c] = "drain"
            /\ \A c \in Stoppers : pc'[c] = "returned" => pc[c] = "returned"
        BY <2>3, CompletedEnds
      <3> QED
        BY <1>0, <2>1, <3>1, LeaveKept, LeavesQuietly DEF Ending
    <2>4. CASE worker # "run" /\ Completed(SeesError)
      <3>1. /\ stop'.phase = "none"
            /\ \A c \in Callers : pc'[c] = "drain" => pc[c] = "drain"
        BY <2>1, <2>4, CompletedEnds
      <3>2. LeaveInv'
        BY <1>0, <2>1, <3>1, LeaveKept DEF Ending
      <3>3. ~setup.overlap => Left
        BY <1>0, <2>1, <2>4, <3>1 DEF LeaveInv, Left, WorkerTypes, Ending
      <3> QED
        BY <3>2, <3>3 DEF Leaves
    <2> QED
      BY <2>1, <2>2, <2>3, <2>4
  <1>4. CASE StopEnds
    <2>1. state' = state /\ stop.phase = "drained" /\ Completed(stop.error) /\ stop.error \in BOOLEAN
      BY <1>4 DEF StopEnds, Executes, StopTypes, StopPlan
    <2>2. /\ stop'.phase = "none"
          /\ \A c \in Callers : pc'[c] = "drain" => pc[c] = "drain"
      BY <2>1, CompletedEnds
    <2>3. LeaveInv'
      BY <1>0, <2>1, <2>2, LeaveKept DEF Ending
    <2>4. ~setup.overlap => Left
      BY <1>0, <2>1, <2>2 DEF LeaveInv, Left, Ending
    <2> QED
      BY <2>3, <2>4 DEF Leaves
  <1> QED
    BY <1>1, <1>2, <1>3, <1>4 DEF StopStep

LEMMA LeaveByStoppers ==
  ASSUME Types, SocketHeld, LeaveInv,
         \/ \E c \in Stoppers : StopCalled(c) \/ StopperCancelled(c)
         \/ \E t \in Tasks : HandlerStops(t)
  PROVE  LeaveInv' /\ Leaves
  <1>t. CallTypes /\ StopTypes /\ Stoppers \subseteq Callers
    BY DEF Types, Callers
  <1> USE <1>t DEF runtimeVars, CallTypes, closeVars, taskVars, emitVars, workerVars
  <1>1. ASSUME NEW k \in Stoppers, StopCalled(k) PROVE LeaveInv' /\ Leaves
    <2>1. UNCHANGED <<setup, worker>> /\ Idle(k) /\ \E g : CallStop(k, g)
      BY <1>1 DEF StopCalled
    <2>2. LeaveInv' /\ \A c \in Callers : c # k => pc'[c] = pc[c]
      BY <2>1, CallStopLeaves
    <2>3. \A c \in Stoppers : pc'[c] = "returned" => pc[c] = "returned" \/ StopCalled(c)
      BY <1>1, <2>2
    <2> QED
      BY <2>2, <2>3, LeavesQuietly
  <1>2. ASSUME NEW k \in Stoppers, StopperCancelled(k) PROVE LeaveInv' /\ Leaves
    <2>0. UNCHANGED <<setup, state, worker>>
      BY <1>2 DEF StopperCancelled, CancelsEmit
    <2>1. CASE Completed(TRUE) /\ stop.phase = "draining"
      <3>1. /\ stop'.phase = "none"
            /\ \A c \in Callers : pc'[c] = "drain" => pc[c] = "drain"
            /\ \A c \in Stoppers : pc'[c] = "returned" => pc[c] = "returned"
        BY <2>1, CompletedEnds
      <3> QED
        BY <2>0, <2>1, <3>1, LeaveKept, LeavesQuietly DEF Ending
    <2>2. CASE ~(Completed(TRUE) /\ stop.phase = "draining")
      <3>1. /\ pc' \in {pc, [pc EXCEPT ![k] = "raised"]}
            /\ stop' \in {stop, [stop EXCEPT !.by = "completer"], [stop EXCEPT !.error = TRUE]}
        BY <1>2, <2>2 DEF StopperCancelled, CancelsEmit, CancelsStop
      <3>2. stop'.phase = stop.phase
        BY <3>1 DEF StopTypes, StopPlan
      <3>3. /\ \A c \in Callers : pc'[c] = "drain" => pc[c] = "drain"
            /\ \A c \in Stoppers : pc'[c] = "returned" => pc[c] = "returned"
        BY <3>1
      <3> QED
        BY <2>0, <3>2, <3>3, LeaveKept, LeavesQuietly
    <2> QED
      BY <2>1, <2>2
  <1>3. ASSUME NEW t \in Tasks, HandlerStops(t) PROVE LeaveInv' /\ Leaves
    <2>1. UNCHANGED <<setup, worker, pc>>
      BY <1>3 DEF HandlerStops
    <2>2. Leaves
      BY <2>1, LeavesQuietly
    <2>3. CASE stop.phase = "none" /\ ~FullyStopped /\ stop'.phase = "teardown"
      <3>1. state # "STOPPED"
        BY <2>3 DEF FullyStopped, SocketHeld
      <3> QED
        BY <2>1, <2>2, <2>3, <3>1 DEF LeaveInv, Ending
    <2>4. CASE UNCHANGED <<state, stop>>
      BY <2>1, <2>2, <2>4, LeaveKept
    <2> QED
      BY <1>3, <2>3, <2>4 DEF HandlerStops, Plan
  <1> QED
    BY <1>1, <1>2, <1>3

LEMMA LeaveByRest ==
  ASSUME Types, SocketHeld, LeaveInv,
         \/ DatagramArrives \/ ReceiveFails \/ ReceiverStep \/ WorkerStep \/ HandoffStep \/ Sweeps
         \/ \E t \in Tasks : HandlerRaises(t) \/ HandlerReturns(t) \/ Unblocked(t)
  PROVE  LeaveInv' /\ Leaves
  <1>t. /\ CallTypes /\ StopTypes /\ Stoppers \subseteq Callers
        /\ "receiver" \in Callers /\ "receiver" \notin Stoppers
    BY TaskAssumption DEF Types, Callers, TaskAssumption
  <1> USE <1>t DEF runtimeVars, CallTypes, closeVars, taskVars, emitVars, workerVars
  <1>1. CASE WorkerExits
    <2>1. /\ UNCHANGED <<setup, state>> /\ worker' = "none"
          /\ stop'.phase = (IF stop.phase = "draining" THEN "drained" ELSE stop.phase)
          /\ \A c \in Callers : pc'[c] = IF pc[c] = "drain" THEN Outcome(c, "returned") ELSE pc[c]
      BY <1>1 DEF WorkerExits, StopTypes, StopPlan
    <2>2. LeaveInv'
      <3>1. \A c \in Callers : pc'[c] # "drain"
        BY <2>1, OutcomeEnds
      <3> QED
        BY <2>1, <3>1 DEF LeaveInv, Ending
    <2>3. Leaves
      <3> SUFFICES ASSUME NEW c \in Stoppers, Returns(c), ~OwnsAbandonedStop(c), ~setup.overlap
                   PROVE  Left
        BY DEF Leaves
      <3>1. CASE pc[c] = "drain"
        BY <2>1, <3>1 DEF LeaveInv, Left, Ending
      <3>2. CASE pc[c] # "drain"
        BY <2>1, <3>2, CallReturns DEF Returns
      <3> QED
        BY <3>1, <3>2
    <2> QED
      BY <2>2, <2>3
  <1>2. CASE ReceiverExits /\ running
    <2>1. UNCHANGED <<setup, worker>> /\ CallStop("receiver", ghost)
      BY <1>2 DEF ReceiverExits
    <2>2. LeaveInv' /\ \A c \in Callers : c # "receiver" => pc'[c] = pc[c]
      BY <2>1, CallStopLeaves
    <2>3. \A c \in Stoppers : pc'[c] = "returned" => pc[c] = "returned"
      BY <2>2
    <2> QED
      BY <2>2, <2>3, LeavesQuietly
  <1>3. CASE ~WorkerExits /\ ~(ReceiverExits /\ running)
    <2>1. /\ UNCHANGED <<setup, state, worker>>
          /\ pc' \in {pc, [pc EXCEPT !["receiver"] = "idle"]}
      BY <1>3 DEF DatagramArrives, ReceiveFails, ReceiverStep, ReceiverLoops, ReceiverExits, ReceiverEnds,
                  WorkerStep, WorkerTakes, HandoffStep, HandoffTakes, HandoffEnds, Sweeps, HandlerRaises,
                  HandlerReturns, HandlerEnds, Unblocked
    <2>2. \/ stop' = stop
          \/ stop.phase = "waiter" /\ stop' = [stop EXCEPT !.phase = "stopped", !.error = failed["handoff"]]
      BY <1>3 DEF DatagramArrives, ReceiveFails, ReceiverStep, ReceiverLoops, ReceiverExits, ReceiverEnds,
                  WorkerStep, WorkerTakes, HandoffStep, HandoffTakes, HandoffEnds, Settles, Sweeps,
                  HandlerRaises, HandlerReturns, HandlerEnds, Unblocked
    <2>3. stop'.phase = stop.phase \/ (stop.phase = "waiter" /\ stop'.phase = "stopped")
      BY <2>2 DEF StopTypes, StopPlan
    <2>4. /\ \A c \in Callers : pc'[c] = "drain" => pc[c] = "drain"
          /\ \A c \in Stoppers : pc'[c] = "returned" => pc[c] = "returned"
      BY <2>1
    <2> QED
      BY <2>1, <2>3, <2>4, LeaveKept, LeavesQuietly DEF Ending
  <1> QED
    BY <1>1, <1>2, <1>3

LEMMA LeaveStep == TypeOK /\ Held /\ LeaveInv /\ [Next]_vars => LeaveInv' /\ Leaves
  <1> SUFFICES ASSUME TypeOK, Held, LeaveInv, [Next]_vars PROVE LeaveInv' /\ Leaves
    OBVIOUS
  <1>1. Types /\ turn \in Tasks \cup {"none"} /\ StopTypes /\ SocketHeld
    BY TypesOfTypeOK DEF Types, Held
  <1>2. CASE UNCHANGED vars
    <2>1. UNCHANGED <<setup, state, stop, worker, pc>>
      BY <1>2 DEF vars, runtimeVars, workerVars
    <2> QED
      BY <1>1, <2>1, LeaveKept, LeavesQuietly
  <1>3. CASE Next
    <2>1. Acts
      BY <1>1, <1>3, NextActs
    <2> QED
      BY <1>1, <2>1, LeaveByStart, LeaveByStop, LeaveByStoppers, LeaveByRest DEF Acts
  <1> QED
    BY <1>2, <1>3

LEMMA LeaveInvariant == Spec => []LeaveInv
  <1>1. Init => LeaveInv
    BY DEF Init, LeaveInv, NoStop, Ending
  <1> QED
    BY <1>1, TypeCorrect, HeldInvariant, LeaveStep, PTL DEF Spec

\* A stop() that returns without an exception leaves a receiver that is STOPPED, no
\* worker and no owned stop, whether it did the work, joined a stop under way, or
\* found nothing to stop.  Only a caller whose cancelled call still owns a stop under
\* way returns earlier.
THEOREM StopEndsLife == Spec => StopLeavesStopped
  <1>1. TypeOK /\ Held /\ LeaveInv /\ [Next]_vars =>
          [\A c \in Stoppers : ~setup.overlap /\ Returns(c) /\ ~OwnsAbandonedStop(c) =>
             state' = "STOPPED" /\ worker' = "none" /\ stop'.phase = "none"]_vars
    BY LeaveStep DEF Leaves, Left
  <1> QED
    BY <1>1, TypeCorrect, HeldInvariant, LeaveInvariant, PTL DEF Spec, StopLeavesStopped
=============================================================================
