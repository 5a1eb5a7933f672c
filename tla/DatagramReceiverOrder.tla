----------------------- MODULE DatagramReceiverOrder -----------------------
(***************************************************************************)
(* Each life of a datagram receiver is told to its handler in order, without *)
(* losing its end, for every set of stoppers, every application and every    *)
(* bound, provided no call is cancelled and lives do not overlap.            *)
(***************************************************************************)
EXTENDS DatagramReceiverProofs
-----------------------------------------------------------------------------
(***************************************************************************)
(* Each life of the receiver is told in order.                              *)
(***************************************************************************)
\* How the life cycle, start() and the stop go together when no call is cancelled and
\* no life begins before the last one is over.
LifeSide ==
  /\ state \in {"STARTING", "RUNNING"} =>
       stop.phase = "none" /\ ~sweeper /\ (Background => worker = "run" /\ ~stopping)
  /\ state = "STARTING" => start = "starting"
  /\ state = "STOPPING" => stop.phase \in Owning
  /\ stop.phase # "none" => ~sweeper
  /\ start \in {"failing", "draining"} => state = "STOPPED" /\ stop.phase = "none"
  /\ state = "STOPPED" /\ stop.phase = "none" /\ start \notin {"failing", "draining"} =>
       worker = "none"
  /\ Reads => start = "idle"
  /\ task => state = "RUNNING" /\ start = "idle"
  /\ stop.phase = "teardown" /\ stop.cancels => start = "idle"

\* The opened barrier, the stop that meets it, and the hand-off of its closed event.
OpeningSide ==
  /\ start = "opened" => opening
  /\ opening => start \in {"opened", "doomed"}
  /\ stop.phase # "none" /\ ~stop.closes => start \notin {"running", "opened", "handoff", "doomed"}
  /\ stop.phase \in {"stopped"} \cup Ending /\ start = "opened" => stop.error
  /\ waiter = "pending" <=> stop.phase = "waiter"
  /\ deferred => waiter = "pending"
  /\ handoff = "emitted" => stop.phase = "waiter" /\ ~deferred

\* An ordinary stop is executed by the call that owns it.
OwnSide ==
  stop.phase # "none" /\ ~stop.deferred =>
    /\ stop.by \in Callers /\ stop.owner = stop.by /\ pc[stop.by] = "own"
    /\ stop.by = "starter" => start \in {"stopping", "again"}
    /\ stop.by = "receiver" => recv = "stopping" /\ ~stop.cancels

\* The event that the executor of an ordinary stop is publishing.
Awaited == IF stop.phase = "teardown" THEN "STOPPING"
           ELSE IF stop.phase = "stopped" THEN "closed"
           ELSE IF stop.phase = "drain" THEN "STOPPED" ELSE "none"

\* The dispatcher serves as long as somebody may have to emit through the queue.
Served ==
  /\ worker = "none" => queue = <<>> /\ handler["worker"] = "none"
  /\ worker = "none" /\ ~stopping => \A t \in Tasks : blocked[t] = "none"
  /\ stop.phase \in Holding \/ (stop.phase \notin {"none", "draining", "drained"} /\ ~stop.deferred)
       => worker = "run" /\ ~stopping
  /\ stop.phase # "none" /\ stop.deferred /\ stop.phase \notin Holding
       => stopping /\ queue = <<>> /\ stop.by = "completer"
  /\ stop.deferred /\ stop.phase \in Holding =>
       stop.by = "worker" /\ stop.owner = "worker" /\ handler["worker"] # "none"
  /\ failed["starter"] => start = "opened" /\ stopping
  /\ start = "doomed" => stopping
  /\ \A t \in Stoppers \cup {"receiver"} : ~failed[t]

\* Who waits for space, and with which event.
Waiting(t) ==
  \/ t = "starter" /\ start = "opened" /\ blocked[t] = "opened"
  \/ t = "receiver" /\ recv \in {"emitted", "failing"} /\ blocked[t] \in Payload
  \/ /\ Publishes(t) /\ ~stop.deferred /\ blocked[t] = Awaited
     /\ blocked[t] # "STOPPING" => ~stop.error
Serves == Served /\ \A t \in Tasks : blocked[t] # "none" => Waiting(t)
ServingSide == IF Background THEN Serves ELSE queue = <<>>

\* Where the events are that start() awaits.
Queued(e) == \E i \in 1..Len(queue) : queue[i] = e
BarrierSide ==
  Background =>
    /\ Queued("STARTING") => /\ queue[1] = "STARTING" /\ handler["worker"] = "none"
                             /\ start = "starting" /\ barrier
                             /\ \A i \in 2..Len(queue) : queue[i] # "STARTING"
    /\ handler["worker"] = "STARTING" => start = "starting" /\ barrier
    /\ handler["worker"] = "opened" => start = "opened" /\ barrier /\ ~Queued("opened")
    /\ Queued("opened") => start = "opened" /\ barrier
    /\ blocked["starter"] # "none" => ~barrier
    /\ barrier => start \in {"starting", "opened"}

\* A delivery of f leaves e in its turn.  A life is fresh while its first event waits
\* at the head of the queue; what is said of it is told or queued.
Before(f, e) ==
  IF e \in Payload THEN f \notin {"closed", "STOPPED"}
  ELSE f \in Payload \/ Rank[f] < Rank[e] \/ Unordered(e, f)
Fresh == queue # <<>> /\ queue[1] = "STARTING"
Said(f) == Queued(f) \/ (f \in ghost.told /\ ~Fresh)
QueueInOrder ==
  /\ ~Fresh => \A i \in 1..Len(queue) : \A f \in ghost.told : Before(f, queue[i])
  /\ \A i \in 1..Len(queue) : \A j \in 1..(i - 1) : Before(queue[j], queue[i])
  /\ \A i \in 1..Len(queue) : queue[i] \in Payload =>
       "opened" \in ghost.told /\ ~Fresh /\ start = "idle"
  /\ ghost.told \cap Payload = {}
  /\ ~ghost.disorder

\* Each event has its time, and is not said before it.
OpeningWaits == blocked["starter"] = "opened" /\ ~stopping
OpenedDue == state = "STARTING" \/ (start = "running" /\ state = "RUNNING") \/ OpeningWaits
StoppingDue == \/ state \in {"STARTING", "RUNNING"} \/ stop.phase = "context"
               \/ stop.phase \in Holding /\ stop.deferred
               \/ stop.phase = "teardown" /\ blocked[stop.by] = "STOPPING"
ClosedDue == \/ state \in {"STARTING", "RUNNING"}
             \/ stop.phase \in {"teardown", "reader", "context", "close"}
             \/ stop.phase = "waiter" /\ handoff # "emitted"
             \/ stop.phase = "stopped" /\ blocked[stop.by] = "closed"
             \/ OpeningWaits
StoppedDue == \/ state \in {"STARTING", "RUNNING"} \/ stop.phase \in Owning
              \/ stop.phase = "drain" /\ blocked[stop.by] = "STOPPED"
              \/ OpeningWaits
Due(e) == \/ e = "RUNNING" /\ state = "STARTING"
          \/ e = "opened" /\ OpenedDue
          \/ e = "STOPPING" /\ StoppingDue
          \/ e = "closed" /\ ClosedDue
          \/ e = "STOPPED" /\ StoppedDue
SaidSoFar == \A e \in Events : Due(e) => ~Said(e)

\* The opened event is out before the receive loop emits, and before a stop can cancel it.
Listens == Reads \/ task \/ (stop.phase = "teardown" /\ stop.cancels)
OpenedSaid ==
  /\ Listens => "opened" \in ghost.told
  /\ start = "handoff" => "opened" \in ghost.told
  /\ start = "opened" /\ (Background => ~failed["starter"] /\ blocked["starter"] = "none") =>
       "opened" \in ghost.told \/ Queued("opened")
  /\ stop.phase = "waiter" /\ start \in {"handoff", "doomed"} =>
       \A i \in 1..Len(queue) : queue[i] = "STOPPING"

Control == LifeSide /\ OpeningSide /\ OwnSide
Story == QueueInOrder /\ SaidSoFar /\ OpenedSaid
OrderInv == Plain => Control /\ ServingSide /\ BarrierSide /\ Story

-----------------------------------------------------------------------------
\* The pieces of the actions, field by field.
LEMMA EmitEffect ==
  ASSUME EmitTypes, NEW t \in Tasks, NEW e \in Events, NEW g, NEW a \in BOOLEAN, EmitIf(t, e, g, a)
  PROVE  /\ \A u \in Tasks : u # t => /\ failed'[u] = failed[u] /\ handler'[u] = handler[u]
                                      /\ blocked'[u] = blocked[u]
         /\ failed'[t] = (~DeliversInline(t) /\ ~a /\ IsBarrier(e))
         /\ \/ /\ DeliversInline(t) /\ handler'[t] = e /\ ghost' = Begun(e, g)
               /\ UNCHANGED <<blocked, barrier, queue>>
            \/ /\ ~DeliversInline(t) /\ a /\ Len(queue) < QueueBound /\ ghost' = g
               /\ queue' = Append(queue, e) /\ barrier' = (barrier \/ IsBarrier(e))
               /\ UNCHANGED <<handler, blocked>>
            \/ /\ ~DeliversInline(t) /\ (a => ~(Len(queue) < QueueBound)) /\ ghost' = g
               /\ blocked'[t] = IF a THEN e ELSE "none"
               /\ UNCHANGED <<handler, barrier, queue>>
  <1>1. CASE DeliversInline(t)
    BY <1>1 DEF EmitIf, EmitTypes
  <1>2. CASE ~DeliversInline(t)
    <2>0. IsBarrier(e) \in BOOLEAN
      BY DEF IsBarrier
    <2>1. failed' = [failed EXCEPT ![t] = ~a /\ IsBarrier(e)] /\ ghost' = g /\ handler' = handler
      BY <1>2 DEF EmitIf
    <2>2. failed'[t] = (~a /\ IsBarrier(e)) /\ \A u \in Tasks : u # t => failed'[u] = failed[u]
      BY <2>0, <2>1 DEF EmitTypes
    <2>3. CASE a /\ Len(queue) < QueueBound
      BY <1>2, <2>1, <2>2, <2>3 DEF EmitIf
    <2>4. CASE ~(a /\ Len(queue) < QueueBound)
      <3>1. blocked' = [blocked EXCEPT ![t] = IF a THEN e ELSE "none"] /\ UNCHANGED <<barrier, queue>>
        BY <1>2, <2>4 DEF EmitIf
      <3>2. blocked'[t] = (IF a THEN e ELSE "none") /\ \A u \in Tasks : u # t => blocked'[u] = blocked[u]
        BY <3>1 DEF EmitTypes
      <3> QED
        BY <1>2, <2>1, <2>2, <2>4, <3>1, <3>2
    <2> QED
      BY <2>3, <2>4
  <1> QED
    BY <1>1, <1>2

LEMMA NothingEffect ==
  ASSUME EmitTypes, NEW t \in Tasks, NEW g, EmitsNothing(t, g)
  PROVE  /\ \A u \in Tasks : u # t => failed'[u] = failed[u]
         /\ failed'[t] = FALSE /\ ghost' = g
         /\ UNCHANGED <<handler, blocked, barrier, queue>>
  BY DEF EmitsNothing, EmitTypes

LEMMA Ranks ==
  /\ Rank["STARTING"] = 1 /\ Rank["RUNNING"] = 2 /\ Rank["opened"] = 3
  /\ Rank["STOPPING"] = 4 /\ Rank["closed"] = 5 /\ Rank["STOPPED"] = 6
  BY DEF Rank

\* Nothing comes before the first event of a life.
LEMMA NothingFirst ==
  ASSUME NEW f \in Events, Before(f, "STARTING")
  PROVE  f \in Payload
  BY Ranks DEF Before, Unordered, Events, Payload

LEMMA BegunTold ==
  ASSUME NEW e \in Events, NEW g \in Ghost
  PROVE  /\ Begun(e, g).disorder = (g.disorder \/ ~InTurn(e, g.told))
         /\ Begun(e, g).told = IF e = "STARTING" THEN {e} ELSE IF e \in Payload THEN g.told
                               ELSE g.told \cup {e}
  BY DEF Begun, Ghost, Payload

-----------------------------------------------------------------------------
\* What is queued and told stays in order: when nothing is emitted, when what is queued
\* is dropped, when an event that leaves all before it in its turn is queued or
\* delivered, and when the worker takes the oldest.
SameTold == ghost'.told = ghost.told /\ ghost'.disorder = ghost.disorder
SaysNothing == \A f \in Events : Said(f)' => Said(f)

LEMMA OrderKeeps ==
  ASSUME QueueInOrder, queue' = queue, SameTold, start = "idle" => start' = "idle"
  PROVE  QueueInOrder' /\ SaysNothing
  BY DEF QueueInOrder, SaysNothing, SameTold, Said, Queued, Fresh

LEMMA OrderDrops ==
  ASSUME QueueInOrder, queue' = <<>>, SameTold, ~Fresh
  PROVE  QueueInOrder' /\ SaysNothing
  <1>1. Len(queue') = 0 /\ queue' = <<>>
    OBVIOUS
  <1>2. ~Fresh' /\ \A f \in Events : ~Queued(f)'
    BY <1>1 DEF Fresh, Queued
  <1> QED
    BY <1>1, <1>2 DEF QueueInOrder, SaysNothing, SameTold, Said

LEMMA OrderAppends ==
  ASSUME EmitTypes, ghost \in Ghost, QueueInOrder, NEW e \in Events, e # "STARTING",
         queue' = Append(queue, e), SameTold,
         \A f \in Events : Said(f) => Before(f, e),
         e \in Payload => "opened" \in ghost.told /\ ~Fresh /\ start' = "idle",
         start = "idle" => start' = "idle"
  PROVE  QueueInOrder' /\ \A f \in Events : Said(f)' => Said(f) \/ f = e
  <1>1. /\ Len(queue') = Len(queue) + 1 /\ Len(queue) \in Nat /\ queue'[Len(queue) + 1] = e
        /\ \A i \in 1..Len(queue) : queue'[i] = queue[i] /\ queue[i] \in Events
    BY DEF EmitTypes
  <1>2. Fresh' = Fresh
    <2>1. CASE queue = <<>>
      BY <1>1, <2>1 DEF Fresh
    <2>2. CASE queue # <<>>
      <3>1. Len(queue) > 0
        BY <2>2 DEF EmitTypes
      <3> QED
        BY <1>1, <3>1 DEF Fresh, EmitTypes
    <2> QED
      BY <2>1, <2>2
  <1>3. \A f \in Events : Queued(f)' => Queued(f) \/ f = e
    BY <1>1 DEF Queued
  <1>4. \A f \in Events : Said(f)' => Said(f) \/ f = e
    BY <1>2, <1>3 DEF Said, SameTold
  <1>5. \A i \in 1..Len(queue) : Before(queue[i], e)
    BY <1>1 DEF Said, Queued
  <1>6. ~Fresh => \A f \in ghost.told : Before(f, e)
    BY DEF Said, Ghost
  <1>7. (~Fresh => \A i \in 1..Len(queue) : \A f \in ghost.told : Before(f, queue[i]))'
    BY <1>1, <1>2, <1>6 DEF QueueInOrder, SameTold
  <1>8. (\A i \in 1..Len(queue) : \A j \in 1..(i - 1) : Before(queue[j], queue[i]))'
    <2> SUFFICES ASSUME NEW i \in 1..Len(queue'), NEW j \in 1..(i - 1) PROVE Before(queue'[j], queue'[i])
      OBVIOUS
    <2>1. j \in 1..Len(queue) /\ queue'[j] = queue[j]
      BY <1>1
    <2>2. CASE i = Len(queue) + 1
      BY <1>1, <1>5, <2>1, <2>2
    <2>3. CASE i \in 1..Len(queue)
      BY <1>1, <2>1, <2>3 DEF QueueInOrder
    <2> QED
      BY <1>1, <2>2, <2>3
  <1>9. (\A i \in 1..Len(queue) : queue[i] \in Payload =>
           "opened" \in ghost.told /\ ~Fresh /\ start = "idle")'
    BY <1>1, <1>2 DEF QueueInOrder, SameTold
  <1> QED
    BY <1>4, <1>7, <1>8, <1>9 DEF QueueInOrder, SameTold

LEMMA OrderDelivers ==
  ASSUME EmitTypes, QueueInOrder, NEW e \in Events, e # "STARTING", NEW g \in Ghost,
         g.told = ghost.told, g.disorder = ghost.disorder, ghost \in Ghost,
         queue' = queue, ghost' = Begun(e, g), ~Fresh,
         \A f \in Events : Said(f) => Before(f, e),
         e \in Payload => "opened" \in ghost.told,
         e \notin Payload => \A i \in 1..Len(queue) : Before(e, queue[i]),
         start = "idle" => start' = "idle"
  PROVE  QueueInOrder' /\ \A f \in Events : Said(f)' => Said(f) \/ f = e
  <1>0. ghost.disorder = FALSE /\ \A f \in ghost.told : f \in Events /\ f \notin Payload
    BY DEF QueueInOrder, Ghost
  <1>1. \A f \in ghost.told : Before(f, e)
    BY <1>0 DEF Said
  <1>2. InTurn(e, ghost.told)
    BY <1>0, <1>1 DEF InTurn, Before
  <1>3. ghost'.disorder = ghost.disorder /\ ghost'.told = IF e \in Payload THEN ghost.told ELSE ghost.told \cup {e}
    BY <1>0, <1>2, BegunTold
  <1>4. Fresh' = Fresh
    BY DEF Fresh
  <1>5. \A f \in Events : Said(f)' => Said(f) \/ f = e
    BY <1>3, <1>4 DEF Said, Queued
  <1> QED
    BY <1>3, <1>4, <1>5 DEF QueueInOrder

LEMMA OrderTakes ==
  ASSUME EmitTypes, QueueInOrder, ghost \in Ghost, queue # <<>>, queue' = Tail(queue),
         ghost' = Begun(Head(queue), ghost), start' = start
  PROVE  QueueInOrder' /\ SaysNothing /\ ~Fresh' /\ ("opened" \in ghost.told \/ Queued("opened") =>
         Fresh \/ "opened" \in ghost'.told \/ Queued("opened")')
  <1>e. PICK e : e = Head(queue)
    OBVIOUS
  <1>1. /\ Len(queue) \in Nat /\ Len(queue) > 0 /\ Len(queue') = Len(queue) - 1
        /\ e = queue[1] /\ \A i \in 1..Len(queue') : queue'[i] = queue[i + 1] /\ i + 1 \in 1..Len(queue)
        /\ \A i \in 1..Len(queue) : queue[i] \in Events
    BY <1>e DEF EmitTypes
  <1>2. 1 \in 1..Len(queue) /\ e \in Events /\ ghost' = Begun(e, ghost)
    BY <1>1, <1>e
  <1>3. \A i \in 1..Len(queue') : Before(e, queue'[i])
    BY <1>1, <1>2 DEF QueueInOrder
  <1>b. /\ ghost'.disorder = (ghost.disorder \/ ~InTurn(e, ghost.told))
        /\ ghost'.told = IF e = "STARTING" THEN {e} ELSE IF e \in Payload THEN ghost.told
                         ELSE ghost.told \cup {e}
    <2>1. /\ Begun(e, ghost).disorder = (ghost.disorder \/ ~InTurn(e, ghost.told))
          /\ Begun(e, ghost).told = IF e = "STARTING" THEN {e} ELSE IF e \in Payload THEN ghost.told
                                   ELSE ghost.told \cup {e}
      BY ONLY <1>2, BegunTold, ghost \in Ghost
    <2> QED
      BY <1>2, <2>1
  <1>4. ghost.disorder = FALSE /\ \A f \in ghost.told : f \in Events /\ f \notin Payload
    BY DEF QueueInOrder, Ghost
  <1>5. ~Fresh'
    <2> SUFFICES ASSUME Fresh' PROVE FALSE
      OBVIOUS
    <2>1. 1 \in 1..Len(queue') /\ queue'[1] = "STARTING"
      BY <1>1 DEF Fresh, EmitTypes
    <2>2. Before(e, "STARTING") /\ queue[2] = "STARTING" /\ 2 \in 1..Len(queue)
      BY <1>1, <1>3, <2>1
    <2>3. e \in Payload
      BY <1>2, <2>2, NothingFirst
    <2>4. "opened" \in ghost.told /\ ~Fresh
      BY <1>1, <1>2, <2>3 DEF QueueInOrder
    <2>5. Before("opened", "STARTING")
      BY <2>2, <2>4 DEF QueueInOrder
    <2> QED
      BY <2>5, NothingFirst DEF Events, Payload
  <1>6. CASE e = "STARTING"
    <2>1. Fresh
      BY <1>1, <1>6 DEF Fresh
    <2>2. ghost'.told = {"STARTING"} /\ ghost'.disorder = ghost.disorder
      BY <1>b, <1>4, <1>6 DEF InTurn, Payload
    <2>3. \A f \in Events : Said(f)' => Said(f)
      BY <1>1, <1>2, <1>6, <2>2 DEF Said, Queued
    <2>4. \A i \in 1..Len(queue') : queue'[i] \notin Payload
      BY <1>1, <2>1 DEF QueueInOrder
    <2>5. (\A i \in 1..Len(queue) : \A j \in 1..(i - 1) : Before(queue[j], queue[i]))'
      BY <1>1 DEF QueueInOrder
    <2>6. {"STARTING"} \cap Payload = {}
      BY DEF Payload
    <2> QED
      BY <1>3, <1>5, <1>6, <2>1, <2>2, <2>3, <2>4, <2>5, <2>6 DEF QueueInOrder, SaysNothing
  <1>7. CASE e # "STARTING"
    <2>1. ~Fresh
      BY <1>1, <1>7 DEF Fresh
    <2>2. \A f \in ghost.told : Before(f, e)
      BY <1>1, <1>2, <2>1 DEF QueueInOrder
    <2>3. InTurn(e, ghost.told)
      <3>1. e \in Payload => "opened" \in ghost.told
        BY <1>1, <1>2 DEF QueueInOrder
      <3> QED
        BY <1>4, <2>2, <3>1 DEF InTurn, Before
    <2>4. ghost'.disorder = ghost.disorder
          /\ ghost'.told = IF e \in Payload THEN ghost.told ELSE ghost.told \cup {e}
      BY <1>b, <1>4, <1>7, <2>3
    <2>5. \A f \in Events : Said(f)' => Said(f)
      BY <1>1, <1>2, <2>1, <2>4 DEF Said, Queued
    <2>6. \A i \in 1..Len(queue') : \A f \in ghost'.told : Before(f, queue'[i])
      BY <1>1, <1>3, <2>1, <2>4 DEF QueueInOrder
    <2>7. (\A i \in 1..Len(queue) : \A j \in 1..(i - 1) : Before(queue[j], queue[i]))'
      BY <1>1 DEF QueueInOrder
    <2>8. (\A i \in 1..Len(queue) : queue[i] \in Payload =>
             "opened" \in ghost.told /\ ~Fresh /\ start = "idle")'
      BY <1>1, <1>5, <2>4 DEF QueueInOrder
    <2>9. "opened" \in ghost.told \/ Queued("opened") => "opened" \in ghost'.told \/ Queued("opened")'
      <3>1. ASSUME NEW i \in 1..Len(queue), queue[i] = "opened"
            PROVE  "opened" \in ghost'.told \/ Queued("opened")'
        <4>1. CASE i = 1
          BY <1>1, <2>4, <3>1, <4>1 DEF Payload
        <4>2. CASE i # 1
          <5>1. i - 1 \in 1..Len(queue') /\ queue'[i - 1] = "opened"
            BY <1>1, <3>1, <4>2
          <5> QED
            BY <5>1 DEF Queued
        <4> QED
          BY <4>1, <4>2
      <3> QED
        BY <2>4, <3>1 DEF Queued
    <2>10. ghost'.told \cap Payload = {}
      BY <2>4 DEF QueueInOrder
    <2> QED
      BY <1>5, <2>4, <2>5, <2>6, <2>7, <2>8, <2>9, <2>10 DEF QueueInOrder, SaysNothing
  <1> QED
    BY <1>6, <1>7

-----------------------------------------------------------------------------
\* The life cycle, start() and the stop stay in step.
LEMMA NothingToCancel ==
  ASSUME Plain
  PROVE  /\ ~StartCancelled /\ \A c \in Stoppers : ~StopperCancelled(c)
         /\ StartCalled => ~StopUnderWay
  BY DEF Plain, StartCancelled, StopperCancelled, StartCalled

\* What a call of stop() outside any handler does: nothing to a stop under way or a
\* stopped receiver, a plan otherwise.
Plans(t, d) ==
  /\ stop.phase = "none" /\ state # "STOPPED"
  /\ stop'.phase = "teardown" /\ stop'.owner = t /\ stop'.by = t /\ stop'.deferred = d
  /\ stop'.closes = (state # "STARTING") /\ stop'.error = FALSE
  /\ stop'.event = (state # "STOPPING")
  /\ stop'.cancels => task /\ t # "receiver"
  /\ state' = "STOPPING" /\ task' = FALSE

LEMMA PlanEffect ==
  ASSUME SocketHeld, NEW t, NEW d \in BOOLEAN, NEW c, stop.phase = "none", ~FullyStopped, Plan(t, d, c)
  PROVE  Plans(t, d)
  BY DEF SocketHeld, FullyStopped, Plan, Plans

LEMMA CallStopCases ==
  ASSUME Types, SocketHeld, NEW t \in Callers, NEW g, CallStop(t, g)
  PROVE  /\ \A c \in Callers : c # t => pc'[c] = pc[c]
         /\ \/ /\ UNCHANGED <<state, task, stop>> /\ EmitsNothing(t, g)
               /\ \/ stop.phase # "none" /\ stopping' = stopping
                  \/ stop.phase = "none" /\ state = "STOPPED" /\ stopping' = (stopping \/ Background)
            \/ /\ pc'[t] = "own" /\ stopping' = stopping
               /\ \E d \in BOOLEAN :
                    /\ Plans(t, d) /\ (d => ~Background)
                    /\ IF d \/ state = "STOPPING" THEN EmitsNothing(t, g)
                       ELSE EmitIf(t, "STOPPING", g, ~stopping)
  <1> DEFINE active == ActiveHandler /\ DeliversInline(t)
  <1>t. CallTypes /\ t \notin {"handoff", "completer"} /\ active \in BOOLEAN
    BY TaskAssumption DEF Types, Callers, TaskAssumption, ActiveHandler, DeliversInline
  <1>1. active => ~Background
    BY <1>t DEF DeliversInline
  <1>2. \A c \in Callers : c # t => pc'[c] = pc[c]
    BY <1>t DEF CallStop, StopsDispatcher, CallTypes
  <1>3. CASE /\ stop.phase # "none" /\ EmitsNothing(t, g)
             /\ UNCHANGED <<runtimeVars, stop, stopping>>
    BY <1>2, <1>3 DEF runtimeVars
  <1>4. CASE /\ stop.phase = "none" /\ FullyStopped
             /\ StopsDispatcher(t)
             /\ EmitsNothing(t, g)
             /\ UNCHANGED <<runtimeVars, stop>>
    BY <1>2, <1>4 DEF runtimeVars, FullyStopped, StopsDispatcher
  <1>5. CASE /\ stop.phase = "none" /\ ~FullyStopped
             /\ Plan(t, active, ~active)
             /\ pc' = [pc EXCEPT ![t] = "own"]
             /\ IF active \/ state = "STOPPING" THEN EmitsNothing(t, g) ELSE Emit(t, "STOPPING", g)
             /\ UNCHANGED stopping
    <2>1. Plans(t, active)
      BY <1>t, <1>5, PlanEffect
    <2>2. pc'[t] = "own"
      BY <1>t, <1>5 DEF CallTypes
    <2>3. IF active \/ state = "STOPPING" THEN EmitsNothing(t, g) ELSE EmitIf(t, "STOPPING", g, ~stopping)
      BY <1>5 DEF Emit
    <2> HIDE DEF active
    <2> QED
      BY <1>t, <1>1, <1>2, <1>5, <2>1, <2>2, <2>3
  <1> QED
    BY <1>3, <1>4, <1>5 DEF CallStop

\* A call keeps them in step, whoever makes it.
CallsStop(t) ==
  /\ IF t = "starter"
     THEN /\ start \in {"running", "doomed", "handoff"} \/ (start = "again" /\ Idle("starter"))
          /\ start' \in {"stopping", "again"} /\ opening' = FALSE /\ handoff' = "none"
     ELSE UNCHANGED <<start, opening, handoff>>
  /\ IF t = "receiver" THEN recv = "failing" /\ recv' = "stopping" ELSE recv' = recv
  /\ t \in Stoppers => Idle(t)
  /\ UNCHANGED <<setup, deferred, waiter, worker, sweeper>>

LEMMA ControlCalled ==
  ASSUME Types, SocketHeld, Control, NEW t \in Callers, NEW g, CallStop(t, g), CallsStop(t)
  PROVE  Control'
  <1>t. StopTypes /\ RunTypes /\ CallTypes /\ t \in Tasks
    BY DEF Types, Tasks
  <1>1. \A c \in Callers : c # t => pc'[c] = pc[c]
    BY CallStopCases
  <1>2. CASE /\ UNCHANGED <<state, task, stop>>
             /\ \/ stop.phase # "none" /\ stopping' = stopping
                \/ stop.phase = "none" /\ state = "STOPPED"
    <2>1. LifeSide'
      BY <1>2 DEF Control, LifeSide, CallsStop, Reads, Background, RunTypes
    <2>2. OpeningSide'
      BY <1>2 DEF Control, OpeningSide, CallsStop
    <2>3. OwnSide'
      <3> SUFFICES ASSUME stop.phase # "none", ~stop.deferred PROVE OwnSide'
        BY <1>2 DEF OwnSide
      <3>1. stop.by # t
        BY TaskAssumption DEF Control, OwnSide, CallsStop, Idle, Callers, TaskAssumption
      <3> QED
        BY <1>1, <1>2, <3>1 DEF Control, OwnSide, CallsStop
    <2> QED
      BY <2>1, <2>2, <2>3 DEF Control
  <1>3. ASSUME NEW d \in BOOLEAN, Plans(t, d), pc'[t] = "own", stopping' = stopping PROVE Control'
    <2>0. state \in {"STARTING", "RUNNING"} /\ ~sweeper
      BY <1>t, <1>3 DEF Control, LifeSide, Plans, RunTypes, Lifecycle, Owning
    <2>1. LifeSide'
      BY <1>3, <2>0 DEF Control, LifeSide, CallsStop, Plans, Reads, Owning
    <2>2. OpeningSide'
      BY <1>3, <2>0 DEF Control, OpeningSide, LifeSide, CallsStop, Plans, Ending
    <2>3. OwnSide'
      BY <1>3 DEF Control, OwnSide, CallsStop, Plans
    <2> QED
      BY <2>1, <2>2, <2>3 DEF Control
  <1> QED
    BY <1>2, <1>3, CallStopCases

LEMMA ControlByStart ==
  ASSUME Types, Held, Places, Reading, LeaveInv, Plain, Control, ServingSide, StartCalled \/ StartStep
  PROVE  Control'
  <1>t. StopTypes /\ RunTypes /\ CallTypes /\ PlaceTypes /\ CloseTypes /\ SocketHeld /\ "starter" \in Callers
    BY DEF Types, Held, Callers
  <1> USE <1>t DEF runtimeVars, closeVars, taskVars, emitVars, workerVars, Control
  <1>1. CASE StartCalled
    <2>1. stop.phase = "none" /\ ~sweeper /\ start = "idle" /\ state \in {"STOPPED", "STOPPING"}
      BY <1>1, NothingToCancel DEF StartCalled, StopUnderWay
    <2>2. state = "STOPPED" /\ worker = "none" /\ ~Reads /\ ~task
      BY <2>1 DEF LifeSide, Owning, Reading, Unwinds
    <2>3. /\ state' = "STARTING" /\ start' = "starting"
          /\ Background => worker' = "run" /\ stopping' = FALSE
          /\ UNCHANGED <<setup, task, stop, opening, deferred, waiter, recv, handoff, pc, sweeper>>
      BY <1>1, <2>2 DEF StartCalled
    <2>4. LifeSide'
      BY <2>1, <2>2, <2>3 DEF LifeSide, Reads, Background
    <2>5. OpeningSide'
      BY <2>1, <2>3 DEF OpeningSide, Ending
    <2>6. OwnSide'
      BY <2>1, <2>3 DEF OwnSide
    <2> QED
      BY <2>4, <2>5, <2>6
  <1>2. CASE StartRollsBack
    <2>1. ~Background
      BY <1>2 DEF StartRollsBack, ServingSide, Serves, Served
    <2>2. worker = "none"
      BY <2>1 DEF Places, Sides
    <2>3. /\ start = "starting" /\ start' = "idle"
          /\ state' = IF state = "STARTING" THEN "STOPPED" ELSE state
          /\ UNCHANGED <<setup, task, stop, opening, deferred, waiter, recv, handoff, pc, worker, sweeper>>
      BY <1>2, <2>2 DEF StartRollsBack, StartStopsDispatcher
    <2>4. LifeSide'
      BY <2>1, <2>2, <2>3 DEF LifeSide, Reads, Background
    <2>5. OpeningSide'
      BY <2>3 DEF OpeningSide, Ending
    <2>6. OwnSide'
      BY <2>3 DEF OwnSide
    <2> QED
      BY <2>4, <2>5, <2>6
  <1>3. CASE StartOvertaken
    <2>1. /\ start = "starting" /\ start' \in {"idle", "join"} /\ state # "STARTING"
          /\ UNCHANGED <<setup, state, task, worker, stopping, sweeper, stop, opening, deferred, waiter,
                         recv, handoff>>
          /\ \A c \in Callers : c # "starter" => pc'[c] = pc[c]
      BY <1>3 DEF StartOvertaken, CallTypes
    <2>2. LifeSide'
      BY <2>1 DEF LifeSide, Reads, Background
    <2>3. OpeningSide'
      BY <2>1 DEF OpeningSide, Ending
    <2>4. OwnSide'
      BY <2>1 DEF OwnSide
    <2> QED
      BY <2>2, <2>3, <2>4
  <1>4. CASE Binds \/ BindFails
    <2>1. /\ start = "starting" /\ state = "STARTING"
          /\ \/ start' = "running" /\ state' = "RUNNING"
             \/ start' = "failing" /\ state' = "STOPPED"
          /\ UNCHANGED <<setup, task, worker, stopping, sweeper, stop, opening, deferred, waiter, recv,
                         handoff, pc>>
      BY <1>4 DEF Binds, BindFails
    <2>2. LifeSide'
      BY <2>1 DEF LifeSide, Reads, Background
    <2>3. OpeningSide'
      BY <2>1 DEF OpeningSide, LifeSide, Ending
    <2>4. OwnSide'
      BY <2>1 DEF OwnSide, LifeSide
    <2> QED
      BY <2>2, <2>3, <2>4
  <1>5. CASE StartFails
    <2>1. /\ start = "failing" /\ start' = IF worker = "run" THEN "draining" ELSE "idle"
          /\ UNCHANGED <<setup, state, task, stop, worker, sweeper, opening, deferred, waiter, recv,
                         handoff, pc>>
      BY <1>5 DEF StartFails, StartStopsDispatcher
    <2>2. worker \in {"none", "run"}
      BY DEF Types, WorkerTypes
    <2>3. LifeSide'
      BY <2>1, <2>2 DEF LifeSide, Reads, Background
    <2>4. OpeningSide'
      BY <2>1 DEF OpeningSide, Ending
    <2>5. OwnSide'
      BY <2>1 DEF OwnSide
    <2> QED
      BY <2>3, <2>4, <2>5
  <1>6. CASE Opens
    <2>1. /\ start = "running"
          /\ \/ start' = "opened" /\ opening' = TRUE /\ state = "RUNNING"
             \/ start' = "idle" /\ opening' = opening
          /\ UNCHANGED <<setup, state, task, stop, worker, stopping, sweeper, deferred, waiter, recv,
                         handoff, pc>>
      BY <1>6 DEF Opens, StillRunning
    <2>2. LifeSide'
      BY <2>1 DEF LifeSide, Reads, Background
    <2>3. OpeningSide'
      BY <2>1 DEF OpeningSide, LifeSide, Ending
    <2>4. OwnSide'
      BY <2>1 DEF OwnSide
    <2> QED
      BY <2>2, <2>3, <2>4
  <1>7. CASE HandsOff
    <2>1. /\ start = "opened"
          /\ \/ start' = "doomed" /\ opening' = TRUE
             \/ start' = "handoff" /\ opening' = FALSE
          /\ handoff' = "run"
          /\ UNCHANGED <<setup, state, task, stop, worker, stopping, sweeper, deferred, waiter, recv, pc>>
      BY <1>7 DEF HandsOff
    <2>2. LifeSide'
      BY <2>1 DEF LifeSide, Reads, Background
    <2>3. OpeningSide'
      BY <2>1 DEF OpeningSide, Ending
    <2>4. OwnSide'
      BY <2>1 DEF OwnSide
    <2> QED
      BY <2>2, <2>3, <2>4
  <1>8. CASE StartStops
    <2>1. CallsStop("starter") /\ CallStop("starter", ghost)
      BY <1>8, TaskAssumption DEF StartStops, CallsStop, TaskAssumption
    <2> QED
      BY <2>1, ControlCalled
  <1>9. CASE StartSucceeds
    <2>1. /\ start = "handoff" /\ start' = "idle" /\ handoff' = "none"
          /\ \/ state = "RUNNING" /\ recv' = "reading" /\ task' = TRUE
             \/ UNCHANGED <<recv, task>>
          /\ UNCHANGED <<setup, state, stop, worker, stopping, sweeper, opening, deferred, waiter, pc>>
      BY <1>9 DEF StartSucceeds, StillRunning
    <2>2. LifeSide'
      BY <2>1 DEF LifeSide, Reads, Background
    <2>3. OpeningSide'
      BY <2>1 DEF OpeningSide, Ending
    <2>4. OwnSide'
      BY <2>1 DEF OwnSide, LifeSide
    <2> QED
      BY <2>2, <2>3, <2>4
  <1>10. CASE StartEnds
    <2>1. /\ start \in {"join", "stopping"} /\ start' = "idle" /\ pc["starter"] # "own"
          /\ UNCHANGED <<setup, state, task, stop, worker, stopping, sweeper, opening, deferred, waiter,
                         recv, handoff, pc>>
      BY <1>10 DEF StartEnds, Idle
    <2>2. LifeSide'
      BY <2>1 DEF LifeSide, Reads, Background
    <2>3. OpeningSide'
      BY <2>1 DEF OpeningSide, Ending
    <2>4. OwnSide'
      BY <2>1 DEF OwnSide
    <2> QED
      BY <2>2, <2>3, <2>4
  <1> QED
    BY <1>1, <1>2, <1>3, <1>4, <1>5, <1>6, <1>7, <1>8, <1>9, <1>10 DEF StartStep

\* What the steps of the owned stop do to it.
Carried == /\ stop'.owner = stop.owner /\ stop'.deferred = stop.deferred
           /\ stop'.closes = stop.closes /\ stop'.cancels = stop.cancels
Cleared(t) == failed'[t] = FALSE /\ \A u \in Tasks : u # t => failed'[u] = failed[u]
Closed ==
  \/ /\ stop.deferred /\ stop'.phase = "context" /\ stop'.by = "completer" /\ DropsQueue
  \/ /\ ~stop.deferred /\ stop'.by = stop.by /\ Cleared(stop.by)
     /\ \/ stop'.phase = "close"
        \/ stop'.phase = "stopped" /\ (stop.closes => stop'.error)
     /\ UNCHANGED <<barrier, queue, stopping, pc>>

LEMMA ClosedEffect ==
  ASSUME StopTypes, EmitTypes, ghost \in Ghost, NEW err \in BOOLEAN, SocketCloses(err)
  PROVE  Closed /\ Carried /\ SameTold
  <1>1. SameTold
    BY DEF SocketCloses, SameTold, Ghost
  <1>2. CASE stop.deferred
    <2>1. stop' = [stop EXCEPT !.phase = "context", !.by = "completer"] /\ DropsQueue
      BY <1>2 DEF SocketCloses
    <2> QED
      BY <1>1, <1>2, <2>1 DEF Closed, Carried, StopTypes, StopPlan
  <1>3. CASE ~stop.deferred
    <2>1. /\ stop' = [stop EXCEPT !.phase = IF ~err /\ stop.closes THEN "close" ELSE "stopped",
                                  !.error = err]
          /\ failed' = [failed EXCEPT ![stop.by] = FALSE]
          /\ UNCHANGED <<barrier, queue, stopping, pc>>
      BY <1>3 DEF SocketCloses
    <2>2. /\ stop'.phase = IF ~err /\ stop.closes THEN "close" ELSE "stopped"
          /\ stop'.error = err /\ stop'.by = stop.by /\ Carried
      BY <2>1 DEF Carried, StopTypes, StopPlan
    <2>3. Cleared(stop.by)
      BY <2>1 DEF Cleared, EmitTypes, StopTypes, StopPlan
    <2> QED
      BY <1>1, <1>3, <2>1, <2>2, <2>3 DEF Closed
  <1> QED
    BY <1>2, <1>3

LEMMA TearsDownEffect ==
  ASSUME Types, ghost \in Ghost, TearsDown
  PROVE  /\ stop.phase = "teardown" /\ (stop.deferred \/ Ready(stop.by)) /\ Carried /\ SameTold
         /\ UNCHANGED <<setup, state, task, opening, deferred, waiter, start, handoff, handler, worker,
                        sweeper>>
         /\ \/ /\ stop.cancels /\ recv' = "cancelled" /\ stop'.phase = "reader" /\ stop'.by = stop.by
               /\ blocked'["receiver"] = "none"
               /\ \A u \in Tasks : u # "receiver" => blocked'[u] = blocked[u]
               /\ Cleared(stop.by)
               /\ UNCHANGED <<barrier, queue, stopping, pc>>
            \/ Closed /\ UNCHANGED <<recv, blocked>>
  <1>t. StopTypes /\ EmitTypes /\ SeesError \in BOOLEAN /\ "receiver" \in Tasks
    BY ErrorTyped DEF Types, Tasks, Callers
  <1>1. /\ stop.phase = "teardown" /\ (stop.deferred \/ Ready(stop.by))
        /\ UNCHANGED <<setup, state, task, opening, deferred, waiter, start, handoff, handler, worker,
                       sweeper>>
    BY DEF TearsDown, Executes, runtimeVars, closeVars
  <1>2. CASE stop.cancels /\ recv \notin {"none", "done"}
    <2>1. /\ recv' = "cancelled" /\ blocked' = [blocked EXCEPT !["receiver"] = "none"]
          /\ stop' = [stop EXCEPT !.phase = "reader", !.error = SeesError]
          /\ failed' = [failed EXCEPT ![stop.by] = FALSE]
          /\ UNCHANGED <<barrier, queue, stopping, pc, ghost>>
      BY <1>2 DEF TearsDown
    <2>2. stop'.phase = "reader" /\ stop'.by = stop.by /\ Carried
      BY <2>1, <1>t DEF Carried, StopTypes, StopPlan
    <2>3. Cleared(stop.by)
      BY <2>1, <1>t DEF Cleared, EmitTypes, StopTypes, StopPlan
    <2>4. /\ blocked'["receiver"] = "none"
          /\ \A u \in Tasks : u # "receiver" => blocked'[u] = blocked[u]
      BY <2>1, <1>t DEF EmitTypes
    <2> QED
      BY <1>1, <1>2, <2>1, <2>2, <2>3, <2>4 DEF SameTold
  <1>3. CASE ~(stop.cancels /\ recv \notin {"none", "done"})
    <2>1. SocketCloses(SeesError) /\ UNCHANGED <<recv, blocked>>
      BY <1>3 DEF TearsDown
    <2> QED
      BY <1>t, <1>1, <2>1, ClosedEffect
  <1> QED
    BY <1>2, <1>3

LEMMA ReceiverGoneEffect ==
  ASSUME Types, ghost \in Ghost, ReceiverGone
  PROVE  /\ stop.phase = "reader" /\ Carried /\ SameTold /\ Closed
         /\ UNCHANGED <<setup, state, task, opening, deferred, waiter, start, recv, handoff, handler,
                        blocked, worker, sweeper>>
  <1>1. StopTypes /\ EmitTypes /\ stop.error \in BOOLEAN
    BY DEF Types, StopTypes, StopPlan
  <1>2. SocketCloses(stop.error)
    BY DEF ReceiverGone
  <1>3. Closed /\ Carried /\ SameTold
    BY <1>1, <1>2, ClosedEffect
  <1> QED
    BY <1>3 DEF ReceiverGone, Executes, runtimeVars, closeVars, taskVars

LEMMA HandlersGoneEffect ==
  ASSUME Types, HandlersGone
  PROVE  /\ stop.phase = "context" /\ ~ActiveHandler /\ Carried
         /\ stop'.phase = "close" /\ stop'.by = stop.by /\ stop'.error = stop.error
         /\ \/ EmitIf("completer", "STOPPING", ghost, ~stopping)
            \/ EmitsNothing("completer", ghost)
         /\ UNCHANGED <<setup, state, task, opening, deferred, waiter, start, recv, handoff, pc,
                        worker, stopping, sweeper>>
  <1>1. StopTypes /\ stop' = [stop EXCEPT !.phase = "close"]
    BY DEF Types, HandlersGone
  <1>2. Carried /\ stop'.phase = "close" /\ stop'.by = stop.by /\ stop'.error = stop.error
    BY <1>1 DEF Carried, StopTypes, StopPlan
  <1> QED
    BY <1>2 DEF HandlersGone, Executes, Emit, runtimeVars, closeVars, taskVars, workerVars

LEMMA ClosesEffect ==
  ASSUME Types, Closes
  PROVE  /\ stop.phase = "close" /\ Ready(stop.by) /\ Carried /\ stop'.by = stop.by
         /\ UNCHANGED <<setup, state, task, opening, start, recv, handoff, pc, worker, stopping, sweeper>>
         /\ \/ /\ stop'.phase = "stopped" /\ EmitsNothing(stop.by, ghost)
               /\ stop.closes => stop'.error
               /\ UNCHANGED <<deferred, waiter>>
            \/ /\ stop'.phase = "waiter" /\ opening /\ deferred' = TRUE /\ waiter' = "pending"
               /\ UNCHANGED emitVars
            \/ /\ stop'.phase = "stopped" /\ ~opening /\ EmitIf(stop.by, "closed", ghost, ~stopping)
               /\ ~SeesError /\ stop'.error = stop.error
               /\ UNCHANGED <<deferred, waiter>>
  <1>t. StopTypes /\ EmitTypes /\ SeesError \in BOOLEAN
    BY ErrorTyped DEF Types
  <1>1. /\ stop.phase = "close" /\ Ready(stop.by)
        /\ UNCHANGED <<setup, state, task, opening, start, recv, handoff, pc, worker, stopping, sweeper>>
    BY DEF Closes, Executes, runtimeVars, workerVars
  <1>2. CASE SeesError \/ ~stop.closes
    <2>1. stop' = [stop EXCEPT !.phase = "stopped", !.error = SeesError]
      BY <1>2 DEF Closes
    <2>2. stop'.phase = "stopped" /\ stop'.by = stop.by /\ Carried /\ stop'.error = SeesError
      BY <1>t, <2>1 DEF Carried, StopTypes, StopPlan
    <2>3. EmitsNothing(stop.by, ghost) /\ UNCHANGED <<deferred, waiter>>
      BY <1>2 DEF Closes
    <2> QED
      BY <1>1, <1>2, <2>2, <2>3
  <1>3. CASE ~(SeesError \/ ~stop.closes) /\ opening
    <2>1. /\ stop' = [stop EXCEPT !.phase = "waiter"] /\ deferred' = TRUE /\ waiter' = "pending"
          /\ UNCHANGED emitVars
      BY <1>3 DEF Closes, MustDefer
    <2>2. stop'.phase = "waiter" /\ stop'.by = stop.by /\ Carried
      BY <1>t, <2>1 DEF Carried, StopTypes, StopPlan
    <2> QED
      BY <1>1, <1>3, <2>1, <2>2
  <1>4. CASE ~(SeesError \/ ~stop.closes) /\ ~opening
    <2>1. /\ stop' = [stop EXCEPT !.phase = "stopped"] /\ EmitIf(stop.by, "closed", ghost, ~stopping)
          /\ UNCHANGED <<deferred, waiter>>
      BY <1>4 DEF Closes, MustDefer, Emit
    <2>2. stop'.phase = "stopped" /\ stop'.by = stop.by /\ Carried /\ stop'.error = stop.error
      BY <1>t, <2>1 DEF Carried, StopTypes, StopPlan
    <2> QED
      BY <1>1, <1>4, <2>1, <2>2
  <1> QED
    BY <1>2, <1>3, <1>4

LEMMA StopsEffect ==
  ASSUME Types, Stops
  PROVE  /\ stop.phase = "stopped" /\ Ready(stop.by) /\ Carried /\ stop'.by = stop.by
         /\ stop'.phase = "drain" /\ stop'.error = SeesError /\ state' = "STOPPED"
         /\ IF SeesError THEN EmitsNothing(stop.by, ghost)
            ELSE EmitIf(stop.by, "STOPPED", ghost, ~stopping)
         /\ UNCHANGED <<setup, task, opening, deferred, waiter, start, recv, handoff, pc, worker,
                        stopping, sweeper>>
  <1>t. StopTypes /\ SeesError \in BOOLEAN
    BY ErrorTyped DEF Types
  <1>1. stop' = [stop EXCEPT !.phase = "drain", !.error = SeesError]
    BY DEF Stops
  <1>2. stop'.phase = "drain" /\ stop'.by = stop.by /\ Carried /\ stop'.error = SeesError
    BY <1>t, <1>1 DEF Carried, StopTypes, StopPlan
  <1> QED
    BY <1>2 DEF Stops, Executes, Emit, closeVars, taskVars, workerVars

LEMMA OwnDispatcherEffect ==
  ASSUME Types, StopsOwnDispatcher
  PROVE  /\ stop.phase = "drain" /\ Ready(stop.by) /\ EmitsNothing(stop.by, ghost)
         /\ UNCHANGED <<setup, state, task, opening, deferred, waiter, start, recv, handoff, worker,
                        sweeper>>
         /\ \/ stop'.phase = "none" /\ failed[stop.by] /\ stop.by # "completer" /\ stopping' = stopping
            \/ stop'.phase = "none" /\ worker # "run" /\ stopping' = (stopping \/ Background)
            \/ /\ stop'.phase = "draining" /\ stop'.by = stop.by /\ Carried /\ pc' = pc
               /\ worker = "run" /\ stopping' = (stopping \/ Background)
               /\ stop.error => stop'.error
  <1>t. StopTypes /\ SeesError \in BOOLEAN
    BY ErrorTyped DEF Types
  <1>1. /\ stop.phase = "drain" /\ Ready(stop.by) /\ EmitsNothing(stop.by, ghost)
        /\ UNCHANGED <<setup, state, task, opening, deferred, waiter, start, recv, handoff, worker,
                       sweeper>>
    BY DEF StopsOwnDispatcher, Executes, runtimeVars, closeVars, taskVars
  <1>2. CASE failed[stop.by] /\ ~(stop.by = "completer")
    BY <1>1, <1>2 DEF StopsOwnDispatcher, Completed, NoStop
  <1>3. CASE ~(failed[stop.by] /\ ~(stop.by = "completer")) /\ worker # "run"
    BY <1>1, <1>3 DEF StopsOwnDispatcher, Completed, NoStop
  <1>4. CASE ~(failed[stop.by] /\ ~(stop.by = "completer")) /\ worker = "run"
    <2>1. /\ stop' = [stop EXCEPT !.phase = "draining", !.error = SeesError] /\ pc' = pc
          /\ stopping' = (stopping \/ Background)
      BY <1>4 DEF StopsOwnDispatcher
    <2>2. stop'.phase = "draining" /\ stop'.by = stop.by /\ Carried /\ stop'.error = SeesError
      BY <1>t, <2>1 DEF Carried, StopTypes, StopPlan
    <2> QED
      BY <1>1, <1>4, <2>1, <2>2 DEF SeesError
  <1> QED
    BY <1>2, <1>3, <1>4

\* Closing the socket keeps them in step.
LEMMA ControlClosed ==
  ASSUME StopTypes, Control, stop.phase \in Holding, Closed, Carried,
         UNCHANGED <<setup, state, task, opening, deferred, waiter, start, recv, handoff, worker, sweeper>>,
         state = "STOPPING"
  PROVE  Control'
  <1> USE DEF Control
  <1>1. stop'.phase \in {"context", "close", "stopped"} /\ (stop'.phase = "stopped" /\ stop.closes => stop'.error)
    BY DEF Closed
  <1>2. LifeSide'
    BY <1>1 DEF LifeSide, Reads, Owning, Holding
  <1>3. OpeningSide'
    BY <1>1 DEF OpeningSide, Carried, Holding, Ending
  <1>4. OwnSide'
    BY <1>1 DEF OwnSide, Carried, Closed, Holding
  <1> QED
    BY <1>2, <1>3, <1>4

LEMMA ControlByStop ==
  ASSUME Types, Held, Places, LeaveInv, Plain, Control, ServingSide, StopStep
  PROVE  Control'
  <1>t. /\ StopTypes /\ EmitTypes /\ ghost \in Ghost /\ SocketHeld
        /\ stop.phase \in Owning => state = "STOPPING"
        /\ ~setup.overlap
    BY DEF Types, Held, SocketHeld, Plain
  <1> USE <1>t DEF Control
  <1>1. CASE TearsDown
    <2>1. stop.phase = "teardown" /\ state = "STOPPING"
      BY <1>1, TearsDownEffect DEF Owning
    <2>2. CASE Closed /\ recv' = recv
      BY <1>1, <2>1, <2>2, TearsDownEffect, ControlClosed DEF Holding
    <2>3. CASE recv' = "cancelled" /\ stop'.phase = "reader"
      <3>0. /\ Carried /\ stop'.by = stop.by /\ stop.cancels
            /\ pc' = pc
            /\ UNCHANGED <<setup, state, task, opening, deferred, waiter, start, handoff, worker, sweeper>>
        BY <1>1, <2>3, TearsDownEffect DEF Closed
      <3>1. LifeSide'
        BY <2>1, <2>3, <3>0 DEF LifeSide, Reads, Owning
      <3>2. OpeningSide'
        BY <2>1, <2>3, <3>0 DEF OpeningSide, Carried, Ending
      <3>3. OwnSide'
        BY <2>1, <2>3, <3>0 DEF OwnSide, Carried
      <3> QED
        BY <3>1, <3>2, <3>3
    <2> QED
      BY <1>1, <2>2, <2>3, TearsDownEffect
  <1>2. CASE ReceiverGone
    <2>1. stop.phase = "reader" /\ state = "STOPPING"
      BY <1>2, ReceiverGoneEffect DEF Owning
    <2> QED
      BY <1>2, <2>1, ReceiverGoneEffect, ControlClosed DEF Holding
  <1>3. CASE HandlersGone
    <2>0. /\ stop.phase = "context" /\ Carried /\ stop'.phase = "close" /\ stop'.by = stop.by
          /\ UNCHANGED <<setup, state, task, opening, deferred, waiter, start, recv, handoff, pc,
                         worker, stopping, sweeper>>
      BY <1>3, HandlersGoneEffect
    <2>1. LifeSide'
      BY <2>0 DEF LifeSide, Reads, Owning
    <2>2. OpeningSide'
      BY <2>0 DEF OpeningSide, Carried, Ending
    <2>3. OwnSide'
      BY <2>0 DEF OwnSide, Carried
    <2> QED
      BY <2>1, <2>2, <2>3
  <1>4. CASE Closes
    <2>0. /\ stop.phase = "close" /\ Carried /\ stop'.by = stop.by
          /\ \/ /\ stop'.phase = "stopped" /\ UNCHANGED <<deferred, waiter>>
                /\ (stop.closes => stop'.error) \/ ~opening
             \/ stop'.phase = "waiter" /\ deferred' = TRUE /\ waiter' = "pending"
          /\ UNCHANGED <<setup, state, task, opening, start, recv, handoff, pc, worker, stopping, sweeper>>
      BY <1>4, ClosesEffect
    <2>1. LifeSide'
      BY <2>0 DEF LifeSide, Reads, Owning
    <2>2. OpeningSide'
      BY <2>0 DEF OpeningSide, Carried, Ending
    <2>3. OwnSide'
      BY <2>0 DEF OwnSide, Carried
    <2> QED
      BY <2>1, <2>2, <2>3
  <1>5. CASE Stops
    <2>0. /\ stop.phase = "stopped" /\ Carried /\ stop'.by = stop.by /\ stop'.phase = "drain"
          /\ stop'.error = SeesError /\ state' = "STOPPED"
          /\ UNCHANGED <<setup, task, opening, deferred, waiter, start, recv, handoff, pc, worker, stopping,
                         sweeper>>
      BY <1>5, StopsEffect
    <2>1. LifeSide'
      BY <2>0 DEF LifeSide, Reads, Owning
    <2>2. OpeningSide'
      BY <2>0 DEF OpeningSide, Carried, Ending, SeesError
    <2>3. OwnSide'
      BY <2>0 DEF OwnSide, Carried
    <2> QED
      BY <2>1, <2>2, <2>3
  <1>6. CASE StopsOwnDispatcher
    <2>0. /\ stop.phase = "drain"
          /\ \/ stop'.phase = "none" /\ failed[stop.by] /\ stop.by # "completer"
             \/ stop'.phase = "none" /\ worker # "run"
             \/ /\ stop'.phase = "draining" /\ stop'.by = stop.by /\ Carried /\ pc' = pc
                /\ (stop.error => stop'.error)
          /\ UNCHANGED <<setup, state, task, opening, deferred, waiter, start, recv, handoff, worker, sweeper>>
      BY <1>6, OwnDispatcherEffect
    <2>1. state = "STOPPED"
      BY <2>0 DEF LeaveInv, Ending
    <2>2. stop'.phase = "none" => worker = "none"
      <3>1. CASE ~Background
        BY <3>1 DEF Places, Sides
      <3>2. ASSUME Background, failed[stop.by], stop.by # "completer" PROVE FALSE
        <4>1. ~stop.deferred
          BY <2>0, <3>2 DEF ServingSide, Serves, Served, Holding
        <4>2. stop.by \in Callers /\ (stop.by = "starter" => start # "opened")
          BY <2>0, <4>1 DEF OwnSide
        <4> QED
          BY <3>2, <4>2 DEF ServingSide, Serves, Served, Callers
      <3> QED
        BY <2>0, <3>1, <3>2 DEF Types, WorkerTypes
    <2>3. LifeSide'
      BY <2>0, <2>1, <2>2 DEF LifeSide, Reads, Owning
    <2>4. OpeningSide'
      BY <2>0 DEF OpeningSide, Carried, Ending
    <2>5. OwnSide'
      BY <2>0 DEF OwnSide, Carried
    <2> QED
      BY <2>3, <2>4, <2>5
  <1>7. CASE StopEnds
    <2>0. /\ stop.phase = "drained" /\ stop'.phase = "none"
          /\ UNCHANGED <<setup, state, task, opening, deferred, waiter, start, recv, handoff, worker, stopping,
                         sweeper>>
      BY <1>7 DEF StopEnds, Executes, Completed, NoStop, runtimeVars, closeVars, taskVars, workerVars
    <2>1. state = "STOPPED" /\ worker = "none"
      BY <2>0 DEF LeaveInv, Ending
    <2>2. LifeSide'
      BY <2>0, <2>1 DEF LifeSide, Reads, Owning
    <2>3. OpeningSide'
      BY <2>0 DEF OpeningSide, Ending
    <2>4. OwnSide'
      BY <2>0 DEF OwnSide
    <2> QED
      BY <2>2, <2>3, <2>4
  <1> QED
    BY <1>1, <1>2, <1>3, <1>4, <1>5, <1>6, <1>7 DEF StopStep

\* What the handlers, the hand-off and the worker do to them.
LEMMA DropsEffect ==
  ASSUME EmitTypes, Background \in BOOLEAN, DropsQueue
  PROVE  /\ stopping' = (stopping \/ Background)
         /\ queue' = IF Background THEN <<>> ELSE queue
         /\ \A u \in Tasks : u # "starter" => failed'[u] = failed[u]
         /\ \/ /\ Background /\ (Queued("STARTING") \/ Queued("opened"))
               /\ failed'["starter"] = TRUE /\ barrier' = FALSE
            \/ /\ Background => ~Queued("STARTING") /\ ~Queued("opened")
               /\ failed'["starter"] = failed["starter"] /\ barrier' = barrier
  <1> DEFINE drops == Background /\ \E i \in 1..Len(queue) : IsBarrier(queue[i])
  <1>1. drops \in BOOLEAN /\ drops = (Background /\ (Queued("STARTING") \/ Queued("opened")))
    BY DEF Queued, IsBarrier
  <1>2. /\ stopping' = (stopping \/ Background)
        /\ queue' = IF Background THEN <<>> ELSE queue
        /\ barrier' = (barrier /\ ~drops)
        /\ failed' = [failed EXCEPT !["starter"] = @ \/ drops]
    BY DEF DropsQueue
  <1> HIDE DEF drops
  <1>3. /\ failed'["starter"] = (failed["starter"] \/ drops)
        /\ \A u \in Tasks : u # "starter" => failed'[u] = failed[u]
        /\ failed["starter"] \in BOOLEAN /\ barrier \in BOOLEAN
    BY <1>2 DEF EmitTypes, Tasks, Callers
  <1> QED
    BY <1>1, <1>2, <1>3

LEMMA HandlerStopsEffect ==
  ASSUME Types, Held, NEW t \in Tasks, HandlerStops(t)
  PROVE  /\ handler[t] # "none" /\ ~InTeardown(t) /\ SameTold
         /\ UNCHANGED <<setup, opening, deferred, waiter, start, recv, handoff, pc, handler, blocked,
                        worker>>
         /\ \/ Plans(t, TRUE) /\ UNCHANGED <<failed, barrier, queue, stopping, sweeper>>
            \/ /\ stop.phase = "none" => state = "STOPPED"
               /\ stop.phase # "none" => stop.owner = t /\ sweeper' = sweeper
               /\ DropsQueue /\ UNCHANGED <<state, task, stop>>
  <1>t. /\ SocketHeld /\ ghost \in Ghost
        /\ sweeper \in BOOLEAN
    BY DEF Held, Types, WorkerTypes
  <1>1. /\ handler[t] # "none" /\ ~InTeardown(t)
        /\ UNCHANGED <<setup, opening, deferred, waiter, start, recv, handoff, pc, handler, blocked, worker>>
        /\ ghost' = [ghost EXCEPT !.stops = @ + 1]
    BY DEF HandlerStops, closeVars, taskVars
  <1>2. SameTold
    BY <1>t, <1>1 DEF SameTold, Ghost
  <1>3. CASE /\ stop.phase = "none" /\ ~FullyStopped /\ Plan(t, TRUE, TRUE)
             /\ UNCHANGED <<failed, barrier, queue, stopping, sweeper>>
    BY <1>t, <1>1, <1>2, <1>3, PlanEffect
  <1>4. CASE /\ IF stop.phase = "none" THEN FullyStopped ELSE stop.owner = t
             /\ DropsQueue
             /\ sweeper' = (sweeper \/ (Background /\ stop.phase = "none"))
             /\ UNCHANGED <<runtimeVars, stop>>
    BY <1>t, <1>1, <1>2, <1>4 DEF FullyStopped, runtimeVars
  <1> QED
    BY <1>3, <1>4 DEF HandlerStops

LEMMA HandoffEndsEffect ==
  ASSUME Types, HandoffEnds, OpeningSide
  PROVE  /\ handoff = "emitted" /\ handoff' # "emitted" /\ handoff' \in {"raised", "yes"}
         /\ waiter' = "none" /\ Ready("handoff") /\ EmitsNothing("handoff", ghost)
         /\ stop.phase = "waiter" /\ stop'.phase = "stopped" /\ stop'.by = stop.by /\ Carried
         /\ UNCHANGED <<setup, state, task, opening, deferred, start, recv, pc, worker, stopping, sweeper>>
  <1>1. StopTypes /\ failed["handoff"] \in BOOLEAN
    BY DEF Types, EmitTypes, Tasks
  <1>2. stop.phase = "waiter"
    BY DEF HandoffEnds, OpeningSide
  <1>3. stop' = [stop EXCEPT !.phase = "stopped", !.error = failed["handoff"]]
    BY <1>2 DEF HandoffEnds, Settles
  <1>4. stop'.phase = "stopped" /\ stop'.by = stop.by /\ Carried
    BY <1>1, <1>3 DEF Carried, StopTypes, StopPlan
  <1> QED
    BY <1>2, <1>4 DEF HandoffEnds, Settles, runtimeVars, workerVars

LEMMA WorkerExitsEffect ==
  ASSUME Types, WorkerExits
  PROVE  /\ worker = "run" /\ stopping /\ queue = <<>> /\ handler["worker"] = "none" /\ worker' = "none"
         /\ stop'.phase = IF stop.phase = "draining" THEN "drained" ELSE stop.phase
         /\ stop'.by = stop.by /\ Carried /\ stop'.error = stop.error
         /\ \A c \in Callers : pc[c] = "own" => pc'[c] = "own"
         /\ start' = IF start = "draining" THEN "idle" ELSE start
         /\ UNCHANGED <<setup, state, task, opening, deferred, waiter, recv, handoff, emitVars, stopping,
                        sweeper>>
  <1>1. StopTypes
    BY DEF Types
  <1>2. stop' = [stop EXCEPT !.phase = IF @ = "draining" THEN "drained" ELSE @]
    BY DEF WorkerExits
  <1>3. /\ stop'.phase = IF stop.phase = "draining" THEN "drained" ELSE stop.phase
        /\ stop'.by = stop.by /\ Carried /\ stop'.error = stop.error
    BY <1>1, <1>2 DEF Carried, StopTypes, StopPlan
  <1>4. \A c \in Callers : pc[c] = "own" => pc'[c] = "own"
    BY DEF WorkerExits
  <1> QED
    BY <1>3, <1>4 DEF WorkerExits, runtimeVars, closeVars

LEMMA ControlByRest ==
  ASSUME Types, Held, Places, LeaveInv, Plain, Control, ServingSide,
         \/ \E c \in Stoppers : StopCalled(c)
         \/ DatagramArrives \/ ReceiveFails \/ ReceiverStep \/ WorkerStep \/ HandoffStep \/ Sweeps
         \/ \E t \in Tasks : HandlerStops(t) \/ HandlerRaises(t) \/ HandlerReturns(t) \/ Unblocked(t)
  PROVE  Control'
  <1>t. /\ StopTypes /\ EmitTypes /\ RunTypes /\ ghost \in Ghost /\ SocketHeld
        /\ Stoppers \subseteq Callers /\ "receiver" \in Callers
        /\ \A c \in Stoppers : c \notin {"starter", "receiver"}
    BY TaskAssumption DEF Types, Held, Callers, TaskAssumption
  <1> USE <1>t DEF Control
  <1>1. ASSUME NEW c \in Stoppers, StopCalled(c) PROVE Control'
    <2>1. CallsStop(c) /\ \E g : CallStop(c, g)
      BY <1>1 DEF StopCalled, CallsStop, closeVars, taskVars
    <2> QED
      BY <2>1, ControlCalled
  <1>2. CASE /\ UNCHANGED <<setup, state, task, stop, opening, deferred, waiter, start, handoff, worker,
                            sweeper, stopping>>
             /\ \A c \in Callers : pc[c] = "own" => pc'[c] = "own"
             /\ recv' = recv \/ recv \in {"reading", "emitted", "failing", "cancelled"}
                \/ (recv = "stopping" /\ recv' = "done" /\ pc["receiver"] # "own")
             /\ Reads' => Reads
    <2>1. LifeSide'
      BY <1>2 DEF LifeSide, Reads, Background
    <2>2. OpeningSide'
      BY <1>2 DEF OpeningSide
    <2>3. OwnSide'
      BY <1>2 DEF OwnSide
    <2> QED
      BY <2>1, <2>2, <2>3
  <1>3. CASE DatagramArrives \/ ReceiveFails \/ ReceiverLoops
    BY <1>2, <1>3 DEF DatagramArrives, ReceiveFails, ReceiverLoops, runtimeVars, closeVars, workerVars, Reads
  <1>4. CASE ReceiverExits
    <2>1. CASE running
      <3>1. CallsStop("receiver") /\ CallStop("receiver", ghost)
        BY <1>4, <2>1 DEF ReceiverExits, CallsStop, closeVars
      <3> QED
        BY <3>1, ControlCalled
    <2>2. CASE ~running
      BY <1>2, <1>4, <2>2 DEF ReceiverExits, runtimeVars, closeVars, Reads
    <2> QED
      BY <2>1, <2>2
  <1>5. CASE ReceiverEnds
    <2>1. \A c \in Callers : c # "receiver" => pc'[c] = pc[c]
      BY <1>5 DEF ReceiverEnds, Types, CallTypes
    <2>2. /\ UNCHANGED <<setup, state, task, stop, opening, deferred, waiter, start, handoff, worker,
                         sweeper, stopping>>
          /\ recv' = "done" /\ \/ recv = "cancelled"
                               \/ recv = "stopping" /\ pc["receiver"] # "own"
      BY <1>5 DEF ReceiverEnds, Idle, runtimeVars, closeVars, workerVars
    <2>3. LifeSide'
      BY <2>2 DEF LifeSide, Reads, Background
    <2>4. OpeningSide'
      BY <2>2 DEF OpeningSide
    <2>5. OwnSide'
      BY <2>1, <2>2 DEF OwnSide
    <2> QED
      BY <2>3, <2>4, <2>5
  <1>6. ASSUME NEW t \in Tasks, HandlerRaises(t) \/ HandlerReturns(t) \/ Unblocked(t) PROVE Control'
    BY <1>2, <1>6 DEF HandlerRaises, HandlerReturns, HandlerEnds, Unblocked, runtimeVars, closeVars, taskVars,
                      workerVars, Reads
  <1>7. ASSUME NEW t \in Tasks, HandlerStops(t) PROVE Control'
    <2>0. UNCHANGED <<setup, opening, deferred, waiter, start, recv, handoff, pc, worker>>
      BY <1>7, HandlerStopsEffect
    <2>1. CASE Plans(t, TRUE) /\ UNCHANGED <<stopping, sweeper>>
      <3>0. state \in {"STARTING", "RUNNING"} /\ ~sweeper
        BY <2>1 DEF LifeSide, Plans, RunTypes, Lifecycle, Owning
      <3>1. LifeSide'
        BY <2>0, <2>1, <3>0 DEF LifeSide, Plans, Reads, Owning
      <3>2. OpeningSide'
        BY <2>0, <2>1, <3>0 DEF OpeningSide, LifeSide, Plans, Ending
      <3>3. OwnSide'
        BY <2>1 DEF OwnSide, Plans
      <3> QED
        BY <3>1, <3>2, <3>3
    <2>2. CASE /\ stop.phase = "none" => state = "STOPPED"
               /\ stop.phase # "none" => sweeper' = sweeper
               /\ UNCHANGED <<state, task, stop>>
      <3>1. LifeSide'
        BY <2>0, <2>2 DEF LifeSide, Reads
      <3>2. OpeningSide'
        BY <2>0, <2>2 DEF OpeningSide
      <3>3. OwnSide'
        BY <2>0, <2>2 DEF OwnSide
      <3> QED
        BY <3>1, <3>2, <3>3
    <2> QED
      BY <1>7, <2>1, <2>2, HandlerStopsEffect
  <1>8. CASE HandoffTakes
    <2>0. /\ handoff = "run"
          /\ \/ deferred /\ handoff' = "emitted" /\ deferred' = FALSE
             \/ handoff' = "no" /\ deferred' = deferred
          /\ UNCHANGED <<setup, state, task, stop, opening, waiter, start, recv, pc, worker, stopping, sweeper>>
      BY <1>8 DEF HandoffTakes, runtimeVars, workerVars
    <2>1. LifeSide'
      BY <2>0 DEF LifeSide, Reads, Background
    <2>2. OpeningSide'
      BY <2>0 DEF OpeningSide
    <2>3. OwnSide'
      BY <2>0 DEF OwnSide
    <2> QED
      BY <2>1, <2>2, <2>3
  <1>9. CASE HandoffEnds
    <2>0. /\ handoff = "emitted" /\ handoff' # "emitted" /\ waiter' = "none"
          /\ stop.phase = "waiter" /\ stop'.phase = "stopped" /\ stop'.by = stop.by /\ Carried
          /\ UNCHANGED <<setup, state, task, opening, deferred, start, recv, pc, worker, stopping, sweeper>>
      BY <1>9, HandoffEndsEffect
    <2>e. start \in {"handoff", "doomed"} /\ ~deferred
      BY <2>0 DEF Places, HandoffPlaced, OpeningSide
    <2>1. LifeSide'
      BY <2>0 DEF LifeSide, Reads, Owning, Background
    <2>2. OpeningSide'
      BY <2>0, <2>e DEF OpeningSide, Carried
    <2>3. OwnSide'
      BY <2>0 DEF OwnSide, Carried
    <2> QED
      BY <2>1, <2>2, <2>3
  <1>10. CASE WorkerTakes
    BY <1>2, <1>10 DEF WorkerTakes, runtimeVars, closeVars, taskVars, workerVars, Reads
  <1>11. CASE WorkerExits
    <2>0. /\ stopping /\ worker' = "none"
          /\ stop'.phase = IF stop.phase = "draining" THEN "drained" ELSE stop.phase
          /\ stop'.by = stop.by /\ Carried /\ stop'.error = stop.error
          /\ \A c \in Callers : pc[c] = "own" => pc'[c] = "own"
          /\ start' = IF start = "draining" THEN "idle" ELSE start
          /\ UNCHANGED <<setup, state, task, opening, deferred, waiter, recv, handoff, stopping, sweeper>>
      BY <1>11, WorkerExitsEffect
    <2>b. Background
      BY <1>11, WorkerExitsEffect DEF Places, Sides
    <2>1. LifeSide'
      BY <2>0, <2>b DEF LifeSide, Reads, Owning, Carried
    <2>2. OpeningSide'
      BY <2>0 DEF OpeningSide, Ending, Carried
    <2>3. OwnSide'
      BY <2>0 DEF OwnSide, Carried
    <2> QED
      BY <2>1, <2>2, <2>3
  <1>12. CASE Sweeps
    <2>0. /\ sweeper /\ sweeper' = FALSE
          /\ UNCHANGED <<setup, state, task, stop, opening, deferred, waiter, start, recv, handoff, pc, worker>>
      BY <1>12 DEF Sweeps, runtimeVars, closeVars, taskVars
    <2>1. LifeSide'
      BY <2>0 DEF LifeSide, Reads
    <2>2. OpeningSide'
      BY <2>0 DEF OpeningSide
    <2>3. OwnSide'
      BY <2>0 DEF OwnSide
    <2> QED
      BY <2>1, <2>2, <2>3
  <1> QED
    BY <1>1, <1>3, <1>4, <1>5, <1>6, <1>7, <1>8, <1>9, <1>10, <1>11, <1>12
    DEF ReceiverStep, WorkerStep, HandoffStep

-----------------------------------------------------------------------------
\* The dispatcher serves whoever has to emit through the queue.  A queue is used in the
\* background only.
LEMMA InlineEmits ==
  ASSUME ~Background, NEW t, NEW e, NEW g, NEW a, EmitIf(t, e, g, a)
  PROVE  queue' = queue
  BY DEF EmitIf, DeliversInline

LEMMA InlineStep ==
  ASSUME Types, Places, ~Background, queue = <<>>, Acts
  PROVE  queue' = <<>>
  <1> USE DEF runtimeVars, closeVars, taskVars, emitVars, workerVars
  <1>s. worker = "none" /\ handler["worker"] = "none"
    BY DEF Places, Sides
  <1>c. ASSUME NEW t, NEW g, CallStop(t, g) PROVE queue' = queue
    BY <1>c, InlineEmits DEF CallStop, EmitsNothing, Emit
  <1>d. DropsQueue => queue' = queue
    BY DEF DropsQueue
  <1>n. ASSUME NEW t, NEW g, EmitsNothing(t, g) PROVE queue' = queue
    BY <1>n DEF EmitsNothing
  <1>1. CASE StartCalled \/ StartCancelled \/ StartStep
    BY <1>1, <1>c, <1>n, InlineEmits
    DEF StartCalled, StartCancelled, CancelsEmit, StartStep, StartRollsBack, StartOvertaken, Binds,
        BindFails, StartFails, Opens, HandsOff, StartStops, StartSucceeds, StartEnds, Emit
  <1>2. CASE \E c \in Stoppers : StopCalled(c) \/ StopperCancelled(c)
    BY <1>2, <1>c DEF StopCalled, StopperCancelled, CancelsEmit
  <1>3. CASE DatagramArrives \/ ReceiveFails \/ ReceiverStep
    BY <1>3, <1>c, <1>n, InlineEmits
    DEF DatagramArrives, ReceiveFails, ReceiverStep, ReceiverLoops, ReceiverExits, ReceiverEnds, Emit
  <1>4. CASE \E t \in Tasks : HandlerStops(t) \/ HandlerRaises(t) \/ HandlerReturns(t)
    BY <1>4, <1>s, <1>d DEF HandlerStops, HandlerRaises, HandlerReturns, HandlerEnds
  <1>5. CASE \E t \in Tasks : Unblocked(t)
    BY <1>5 DEF Unblocked, Places, Sides
  <1>6. CASE StopStep
    <2>1. ASSUME NEW err, SocketCloses(err) PROVE queue' = queue
      BY <2>1, <1>d DEF SocketCloses
    <2> QED
      BY <1>6, <2>1, <1>n, InlineEmits
      DEF StopStep, TearsDown, ReceiverGone, HandlersGone, Closes, Stops, StopsOwnDispatcher, StopEnds, Emit
  <1>7. CASE HandoffStep \/ WorkerStep \/ Sweeps
    BY <1>7, <1>s, <1>n, InlineEmits
    DEF HandoffStep, HandoffTakes, HandoffEnds, WorkerStep, WorkerTakes, WorkerExits, Sweeps, Emit
  <1> QED
    BY <1>1, <1>2, <1>3, <1>4, <1>5, <1>6, <1>7 DEF Acts

\* Who may emit in the background: the queue is empty when start() goes on from the
\* STARTING barrier, and the receive loop has a dispatcher that serves it.
LEMMA NothingQueuedYet ==
  ASSUME Types, Background, BarrierSide, Story, state = "STARTING", start = "starting", ~barrier
  PROVE  queue = <<>>
  <1> SUFFICES ASSUME queue # <<>> PROVE FALSE
    OBVIOUS
  <1>1. 1 \in 1..Len(queue) /\ queue[1] \in Events
    BY DEF Types, EmitTypes
  <1>2. Queued(queue[1])
    BY <1>1 DEF Queued
  <1>3. queue[1] \notin Payload
    BY <1>1 DEF Story, QueueInOrder
  <1>4. queue[1] # "STARTING"
    BY <1>2 DEF BarrierSide
  <1>5. queue[1] \notin {"RUNNING", "opened", "STOPPING", "closed", "STOPPED"}
    BY <1>1, <1>2 DEF Story, SaidSoFar, Said, Due, OpenedDue, StoppingDue, ClosedDue, StoppedDue
  <1> QED
    BY <1>1, <1>3, <1>4, <1>5 DEF Events

LEMMA ReadsServed ==
  ASSUME Control, Reading, Background, Serves, Reads
  PROVE  /\ worker = "run" /\ ~stopping
         /\ stop.phase \in Holding \/ (stop.phase = "none" /\ state = "RUNNING")
  BY DEF Control, LifeSide, Reading, Serves, Served, Unwinds, Holding

\* A handler that runs in the background runs on the worker, or publishes the deferred
\* close or the deferred stop; and none runs while the first event of a life is queued.
LEMMA BackgroundHandler ==
  ASSUME Types, Places, Background, Control, Serves, NEW t \in Tasks, handler[t] # "none"
  PROVE  /\ t \notin Callers
         /\ \/ t = "worker"
            \/ t = "handoff" /\ stop.phase = "waiter" /\ start \in {"handoff", "doomed"}
            \/ t = "completer" /\ stop.deferred /\ stop.phase \notin Holding \cup {"none"} /\ queue = <<>>
  <1>1. t \notin Callers
    BY DEF Places, Sides
  <1>2. CASE t = "handoff"
    <2>1. stop.by # t \/ stop.phase = "none"
      BY <1>2, TaskAssumption DEF Control, OwnSide, Serves, Served, Holding, Callers, TaskAssumption
    <2>2. ~Publishes(t)
      BY <2>1 DEF Publishes
    <2>3. handoff = "emitted"
      BY <1>2, <2>2 DEF Places, Placed, Busy
    <2> QED
      BY <1>1, <1>2, <2>3 DEF Places, HandoffPlaced, Control, OpeningSide
  <1>3. CASE t = "completer"
    <2>1. Publishes(t)
      BY <1>3 DEF Places, Placed, Busy
    <2>2. stop.phase # "none" /\ stop.by = t
      BY <2>1 DEF Publishes
    <2>3. stop.deferred
      BY <1>3, <2>2, TaskAssumption DEF Control, OwnSide, Callers, TaskAssumption
    <2>4. stop.phase \notin Holding
      BY <1>3, <2>2, <2>3 DEF Serves, Served
    <2> QED
      BY <1>1, <1>3, <2>2, <2>3, <2>4 DEF Serves, Served
  <1> QED
    BY <1>1, <1>2, <1>3 DEF Tasks

LEMMA NoHandlerYet ==
  ASSUME Types, Places, Background, Control, Serves, BarrierSide, Queued("STARTING")
  PROVE  \A t \in Tasks : handler[t] = "none"
  <1> SUFFICES ASSUME NEW t \in Tasks, handler[t] # "none" PROVE FALSE
    OBVIOUS
  <1>1. start = "starting" /\ handler["worker"] = "none"
    BY DEF BarrierSide
  <1>2. queue # <<>>
    BY DEF Queued
  <1> QED
    BY <1>1, <1>2, BackgroundHandler

\* Who calls stop() does not wait for space.
LEMMA CallerUnblocked ==
  ASSUME Types, Control, Serves, NEW t \in Callers, CallsStop(t), t = "receiver" => blocked[t] = "none"
  PROVE  blocked[t] = "none"
  <1> SUFFICES ASSUME blocked[t] # "none" PROVE FALSE
    OBVIOUS
  <1>1. t # "receiver" /\ Waiting(t)
    BY DEF Serves, Tasks
  <1>2. ~(t = "starter" /\ start = "opened")
    BY DEF CallsStop
  <1>3. stop.phase # "none" /\ ~stop.deferred /\ stop.by = t
    BY <1>1, <1>2 DEF Waiting, Publishes
  <1>4. pc[t] = "own" /\ (t = "starter" => start \in {"stopping", "again"})
    BY <1>3 DEF Control, OwnSide
  <1> QED
    BY <1>1, <1>4, TaskAssumption DEF CallsStop, Idle, Callers, TaskAssumption

\* A call of stop() keeps the dispatcher serving.
LEMMA ServesCalled ==
  ASSUME Types, SocketHeld, Control, Background, Serves, NEW t \in Callers, NEW g, CallStop(t, g),
         CallsStop(t), t = "receiver" => blocked[t] = "none"
  PROVE  Serves'
  <1>t. StopTypes /\ EmitTypes /\ WorkerTypes /\ t \in Tasks /\ ~DeliversInline(t) /\ "STOPPING" \in Events
    BY TaskAssumption DEF Types, Tasks, Callers, TaskAssumption, DeliversInline, Events
  <1> USE <1>t
  <1>1. Background' /\ worker' = worker
    BY DEF CallsStop, Background
  <1>2. blocked[t] = "none"
    BY CallerUnblocked
  <1>3. \A u \in Tasks : u # t => /\ u = "starter" => start' = start
                                  /\ u = "receiver" => recv' = recv
    BY DEF CallsStop
  <1>4. start' = "opened" => start = "opened" /\ t # "starter"
    BY DEF CallsStop
  <1>5. start' = "doomed" => start = "doomed"
    BY DEF CallsStop
  <1>6. ASSUME stop' = stop, EmitsNothing(t, g),
               \/ stop.phase # "none" /\ stopping' = stopping
               \/ stop.phase = "none" /\ stopping' = (stopping \/ Background)
        PROVE  Serves'
    <2>1. /\ \A u \in Tasks : u # t => failed'[u] = failed[u]
          /\ failed'[t] = FALSE /\ UNCHANGED <<handler, blocked, barrier, queue>>
      BY <1>6, NothingEffect
    <2>s. \/ stopping' = stopping /\ stop.phase # "none"
          \/ stopping' = TRUE /\ stop.phase = "none"
      BY <1>6
    <2>f. /\ failed'["starter"] => failed["starter"]
          /\ \A u \in Stoppers \cup {"receiver"} : ~failed'[u]
      BY <2>1 DEF Serves, Served, Tasks, Callers
    <2>2. Served'
      <3>1. start' = "opened" \/ ~failed'["starter"]
        BY <1>4, <2>1, <2>f DEF Serves, Served, CallsStop, Tasks, Callers
      <3>2. stopping => stopping'
        BY <2>s
      <3> QED
        BY <1>1, <1>5, <1>6, <2>1, <2>s, <2>f, <3>1, <3>2 DEF Serves, Served, Holding
    <2>3. \A u \in Tasks : blocked'[u] # "none" => Waiting(u)'
      BY <1>2, <1>3, <1>6, <2>1 DEF Serves, Waiting, Publishes, Awaited
    <2> QED
      BY <2>2, <2>3 DEF Serves
  <1>7. ASSUME NEW d \in BOOLEAN, Plans(t, d), ~d, stopping' = stopping,
               IF state = "STOPPING" THEN EmitsNothing(t, g) ELSE EmitIf(t, "STOPPING", g, ~stopping)
        PROVE  Serves'
    <2>1. state \in {"STARTING", "RUNNING"} /\ worker = "run" /\ ~stopping
      BY <1>7 DEF Control, LifeSide, Plans, Types, RunTypes, Lifecycle, Owning
    <2>2. EmitIf(t, "STOPPING", g, TRUE)
      BY <1>7, <2>1
    <2>3. /\ \A u \in Tasks : u # t => failed'[u] = failed[u] /\ handler'[u] = handler[u]
                                       /\ blocked'[u] = blocked[u]
          /\ failed'[t] = FALSE /\ blocked'[t] \in {"none", "STOPPING"}
      BY <1>2, <2>2, EmitEffect
    <2>4. stop'.phase = "teardown" /\ stop'.by = t /\ stop'.deferred = FALSE /\ stop.phase = "none"
      BY <1>7 DEF Plans
    <2>5. Served'
      BY <1>1, <1>4, <1>5, <1>7, <2>1, <2>3, <2>4 DEF Serves, Served, Tasks, Callers, Holding
    <2>6. Waiting(t)' \/ blocked'[t] = "none"
      BY <2>3, <2>4 DEF Waiting, Publishes, Awaited
    <2>7. \A u \in Tasks : u # t /\ blocked'[u] # "none" => Waiting(u)'
      BY <1>3, <2>3, <2>4 DEF Serves, Waiting, Publishes, Awaited
    <2> QED
      BY <2>5, <2>6, <2>7 DEF Serves
  <1> QED
    BY <1>6, <1>7, CallStopCases

\* An emission through the queue: it takes a place there or waits for one; refused by
\* a dispatcher that stops, it leaves nothing.
LEMMA QueueEmits ==
  ASSUME EmitTypes, Background, NEW t \in Callers, NEW e \in Events, NEW g, blocked[t] = "none",
         EmitIf(t, e, g, TRUE)
  PROVE  /\ \A u \in Tasks : u # t => failed'[u] = failed[u] /\ blocked'[u] = blocked[u]
         /\ failed'[t] = FALSE /\ handler' = handler /\ ghost' = g
         /\ \/ queue' = Append(queue, e) /\ barrier' = (barrier \/ IsBarrier(e)) /\ blocked' = blocked
            \/ ~(Len(queue) < QueueBound) /\ blocked'[t] = e /\ UNCHANGED <<barrier, queue>>
  <1>1. t \in Tasks /\ ~DeliversInline(t)
    BY TaskAssumption DEF Tasks, Callers, TaskAssumption, DeliversInline
  <1> QED
    BY <1>1, EmitEffect

LEMMA ServesByStart ==
  ASSUME Types, Held, Reading, Plain, Control, Background, Serves, BarrierSide, Story,
         StartCalled \/ StartStep
  PROVE  Serves'
  <1>t. /\ EmitTypes /\ CallTypes /\ WorkerTypes /\ SocketHeld /\ "starter" \in Callers /\ "starter" \in Tasks
        /\ {"STARTING", "RUNNING", "opened", "STOPPED"} \subseteq Events
        /\ 0 < QueueBound /\ Len(queue) \in Nat
    BY RoomAssumption DEF Types, EmitTypes, Held, Callers, Tasks, Events
  <1> USE <1>t DEF runtimeVars, closeVars, taskVars, emitVars, workerVars
  <1>f. failed["starter"] => start = "opened" /\ stopping
    BY DEF Serves, Served
  <1>1. CASE StartCalled
    <2>1. stop.phase = "none" /\ ~sweeper /\ start = "idle" /\ state \in {"STOPPED", "STOPPING"}
      BY <1>1, NothingToCancel DEF StartCalled, StopUnderWay
    <2>2. state = "STOPPED" /\ worker = "none" /\ ~Reads
      BY <2>1 DEF Control, LifeSide, Owning, Reading, Unwinds
    <2>3. queue = <<>> /\ handler["worker"] = "none" /\ Len(queue) = 0
      BY <2>2 DEF Serves, Served
    <2>4. \A u \in Tasks : blocked[u] = "none"
      BY <2>1, <2>2 DEF Serves, Waiting, Publishes, Reads
    <2>5. /\ start' = "starting" /\ worker' = "run" /\ stopping' = FALSE
          /\ UNCHANGED <<setup, stop, recv>>
      BY <1>1, <2>2 DEF StartCalled
    <2>6. PICK g : EmitIf("starter", "STARTING", g, ~stopping')
      BY <1>1, <2>2 DEF StartCalled
    <2>7. EmitIf("starter", "STARTING", g, TRUE)
      BY <2>5, <2>6
    <2>8. /\ \A u \in Tasks : u # "starter" => failed'[u] = failed[u]
          /\ failed'["starter"] = FALSE /\ blocked' = blocked
      BY <2>3, <2>4, <2>7, QueueEmits
    <2>9. Served'
      BY <2>1, <2>5, <2>8 DEF Serves, Served, Tasks, Callers, Holding
    <2> QED
      BY <2>4, <2>5, <2>8, <2>9 DEF Serves, Background
  <1>2. CASE StartRollsBack
    BY <1>2, <1>f DEF StartRollsBack
  <1>3. ASSUME UNCHANGED <<setup, stop, worker, stopping, handler, blocked, failed, queue>>,
               start \notin {"opened"}, start' \notin {"opened", "doomed"},
               recv' = recv \/ ~Reads
        PROVE  Serves'
    <2>1. Served'
      BY <1>3, <1>f DEF Serves, Served, Holding
    <2>2. ASSUME NEW u \in Tasks, blocked'[u] # "none" PROVE Waiting(u)'
      BY <1>3, <2>2 DEF Serves, Waiting, Publishes, Awaited, Reads
    <2> QED
      BY <1>3, <2>1, <2>2 DEF Serves
  <1>4. CASE StartOvertaken
    BY <1>3, <1>4 DEF StartOvertaken
  <1>5. ASSUME NEW e \in {"RUNNING", "STOPPED"}, NEW g, state = "STARTING", Ready("starter"), start = "starting",
               start' \in {"running", "failing"}, UNCHANGED <<setup, stop, worker, stopping, recv>>,
               Emit("starter", e, g)
        PROVE  Serves'
    <2>1. worker = "run" /\ ~stopping /\ stop.phase = "none"
      BY <1>5 DEF Control, LifeSide
    <2>2. queue = <<>> /\ Len(queue) = 0
      BY <1>5, NothingQueuedYet DEF Ready
    <2>3. EmitIf("starter", e, g, TRUE) /\ blocked["starter"] = "none" /\ e \in Events
      BY <1>5, <2>1 DEF Emit, Ready
    <2>4. /\ \A u \in Tasks : u # "starter" => failed'[u] = failed[u]
          /\ failed'["starter"] = FALSE /\ blocked' = blocked
      BY <2>2, <2>3, QueueEmits
    <2>5. Served'
      BY <1>5, <2>1, <2>4 DEF Serves, Served, Tasks, Callers, Holding
    <2>6. ASSUME NEW u \in Tasks, blocked'[u] # "none" PROVE Waiting(u)'
      BY <1>5, <2>1, <2>4, <2>6 DEF Serves, Waiting, Publishes
    <2> QED
      BY <2>5, <2>6 DEF Serves
  <1>6. CASE Binds
    <2>1. PICK g : Emit("starter", "RUNNING", g)
      BY <1>6 DEF Binds
    <2> QED
      BY <1>5, <1>6, <2>1 DEF Binds
  <1>7. CASE BindFails
    BY <1>5, <1>7 DEF BindFails
  <1>8. CASE StartFails
    <2>1. /\ start = "failing" /\ start' \in {"draining", "idle"} /\ stopping' = TRUE
          /\ UNCHANGED <<setup, stop, recv, worker>> /\ EmitsNothing("starter", ghost)
      BY <1>8 DEF StartFails, StartStopsDispatcher
    <2>2. /\ \A u \in Tasks : u # "starter" => failed'[u] = failed[u]
          /\ failed'["starter"] = FALSE /\ UNCHANGED <<handler, blocked, queue>>
      BY <2>1, NothingEffect
    <2>3. stop.phase = "none"
      BY <2>1 DEF Control, LifeSide
    <2>4. Served'
      BY <2>1, <2>2, <2>3 DEF Serves, Served, Tasks, Callers, Holding
    <2>5. ASSUME NEW u \in Tasks, blocked'[u] # "none" PROVE Waiting(u)'
      BY <2>1, <2>2, <2>5 DEF Serves, Waiting, Publishes, Awaited
    <2> QED
      BY <2>4, <2>5 DEF Serves
  <1>9. CASE Opens
    <2>1. CASE StillRunning
      <3>1. worker = "run" /\ ~stopping /\ stop.phase = "none"
        BY <2>1 DEF StillRunning, Control, LifeSide
      <3>2. /\ start = "running" /\ start' = "opened" /\ EmitIf("starter", "opened", ghost, TRUE)
            /\ blocked["starter"] = "none" /\ UNCHANGED <<setup, stop, recv, worker, stopping>>
        BY <1>9, <2>1, <3>1 DEF Opens, Emit, Ready
      <3>3. /\ \A u \in Tasks : u # "starter" => failed'[u] = failed[u] /\ blocked'[u] = blocked[u]
            /\ failed'["starter"] = FALSE /\ handler' = handler /\ blocked'["starter"] \in {"none", "opened"}
        BY <3>2, QueueEmits
      <3>4. Served'
        BY <3>1, <3>2, <3>3 DEF Serves, Served, Tasks, Callers, Holding
      <3>5. ASSUME NEW u \in Tasks, blocked'[u] # "none" PROVE Waiting(u)'
        BY <3>1, <3>2, <3>3, <3>5 DEF Serves, Waiting, Publishes
      <3> QED
        BY <3>4, <3>5 DEF Serves
    <2>2. CASE ~StillRunning
      BY <1>3, <1>9, <2>2 DEF Opens
    <2> QED
      BY <2>1, <2>2
  <1>10. CASE HandsOff
    <2>1. /\ start = "opened" /\ start' = IF failed["starter"] THEN "doomed" ELSE "handoff"
          /\ blocked["starter"] = "none"
          /\ UNCHANGED <<setup, stop, recv, worker, stopping>> /\ EmitsNothing("starter", ghost)
      BY <1>10 DEF HandsOff, Ready
    <2>2. /\ \A u \in Tasks : u # "starter" => failed'[u] = failed[u]
          /\ failed'["starter"] = FALSE /\ UNCHANGED <<handler, blocked, queue>>
      BY <2>1, NothingEffect
    <2>4. Served'
      BY <1>f, <2>1, <2>2 DEF Serves, Served, Tasks, Callers, Holding
    <2>5. ASSUME NEW u \in Tasks, blocked'[u] # "none" PROVE Waiting(u)'
      BY <2>1, <2>2, <2>5 DEF Serves, Waiting, Publishes, Awaited
    <2> QED
      BY <2>4, <2>5 DEF Serves
  <1>11. CASE StartStops
    <2>1. CallsStop("starter") /\ CallStop("starter", ghost)
      BY <1>11, TaskAssumption DEF StartStops, CallsStop, TaskAssumption
    <2> QED
      BY <2>1, ServesCalled
  <1>12. CASE StartSucceeds
    <2>1. ~Reads
      BY <1>12 DEF StartSucceeds, Control, LifeSide
    <2> QED
      BY <1>3, <1>12, <2>1 DEF StartSucceeds
  <1>13. CASE StartEnds
    BY <1>3, <1>13 DEF StartEnds
  <1> QED
    BY <1>1, <1>2, <1>4, <1>6, <1>7, <1>8, <1>9, <1>10, <1>11, <1>12, <1>13 DEF StartStep

LEMMA ServesClosed ==
  ASSUME Types, Background, Serves, BarrierSide, stop.phase \in Holding, Closed, Carried,
         stop.phase = "reader" \/ stop.deferred \/ blocked[stop.by] = "none",
         UNCHANGED <<setup, start, recv, blocked, handler, worker>>
  PROVE  Serves'
  <1>t. StopTypes /\ EmitTypes
    BY DEF Types
  <1>w. Background' /\ worker = "run" /\ ~stopping
    BY DEF Background, Serves, Served
  <1>1. ASSUME NEW u \in Tasks, blocked'[u] # "none" PROVE Waiting(u)'
    <2>1. \/ u = "starter" /\ start = "opened" /\ blocked[u] = "opened"
          \/ u = "receiver" /\ recv \in {"emitted", "failing"} /\ blocked[u] \in Payload
      BY <1>1 DEF Serves, Waiting, Publishes, Holding
    <2> QED
      BY <2>1 DEF Waiting
  <1>2. CASE stop.deferred
    <2>1. /\ stop'.phase = "context" /\ stop'.by = "completer" /\ stop'.deferred = TRUE
          /\ stopping' = TRUE /\ queue' = <<>> /\ worker' = "run"
          /\ \A u \in Tasks : u # "starter" => failed'[u] = failed[u]
          /\ failed'["starter"] => failed["starter"] \/ Queued("STARTING") \/ Queued("opened")
      BY <1>t, <1>w, <1>2, DropsEffect DEF Closed, Carried, StopTypes, StopPlan, Background
    <2>2. failed'["starter"] => start = "opened"
      BY <1>2, <2>1 DEF Serves, Served, BarrierSide
    <2>3. \A u \in Stoppers \cup {"receiver"} : ~failed'[u]
      BY <2>1, TaskAssumption DEF Serves, Served, Tasks, Callers, TaskAssumption
    <2>4. Served'
      BY <2>1, <2>2, <2>3 DEF Served, Holding
    <2> QED
      BY <1>1, <2>4 DEF Serves
  <1>3. CASE ~stop.deferred
    <2>1. /\ stop'.phase \in {"close", "stopped"} /\ stop'.deferred = FALSE
          /\ Cleared(stop.by) /\ UNCHANGED <<queue, stopping>>
      BY <1>t, <1>3 DEF Closed, Carried, StopTypes, StopPlan
    <2>2. \A u \in Tasks : failed'[u] => failed[u]
      BY <2>1 DEF Cleared
    <2>3. Served'
      BY <1>w, <2>1, <2>2 DEF Serves, Served, Tasks, Callers, Holding
    <2> QED
      BY <1>1, <2>3 DEF Serves
  <1> QED
    BY <1>2, <1>3

\* The executor of a stop publishes an event, or goes on.
LEMMA ServesPublished ==
  ASSUME Types, Background, Control, Serves, Carried, stop'.by = stop.by,
         stop.phase \in {"context", "close", "stopped"},
         stop'.phase \in {"close", "waiter", "stopped", "drain"},
         UNCHANGED <<setup, start, recv, worker, stopping>>,
         stop.deferred \/ blocked[stop.by] = "none",
         NEW e \in Events,
         \/ EmitsNothing(stop.by, ghost) \/ UNCHANGED <<handler, blocked, failed, queue>>
         \/ /\ EmitIf(stop.by, e, ghost, ~stopping)
            /\ ~stop.deferred => e = Awaited' /\ ~stop'.error
  PROVE  Serves'
  <1>t. StopTypes /\ EmitTypes /\ stop.by \in Tasks /\ Background'
    BY DEF Types, StopTypes, StopPlan, Background
  <1>1. ASSUME NEW u \in Tasks, blocked[u] # "none" PROVE Waiting(u)' \/ blocked'[u] # blocked[u]
    BY <1>1 DEF Serves, Waiting, Publishes
  <1>2. ASSUME \A u \in Tasks : failed'[u] => failed[u], UNCHANGED <<handler, blocked, queue>> PROVE Serves'
    <2>1. Served'
      BY <1>2 DEF Serves, Served, Tasks, Callers, Holding, Carried
    <2> QED
      BY <1>1, <1>2, <2>1 DEF Serves
  <1>3. CASE EmitsNothing(stop.by, ghost)
    <2>1. \A u \in Tasks : failed'[u] => failed[u]
      BY <1>t, <1>3, NothingEffect
    <2>2. UNCHANGED <<handler, blocked, queue>>
      BY <1>3 DEF EmitsNothing
    <2> QED
      BY <1>2, <2>1, <2>2
  <1>4. CASE UNCHANGED <<handler, blocked, failed, queue>>
    BY <1>2, <1>4
  <1>5. CASE EmitIf(stop.by, e, ghost, ~stopping) /\ stop.deferred
    <2>1. stop.by = "completer" /\ DeliversInline(stop.by) /\ queue = <<>> /\ stopping
      BY <1>5 DEF Serves, Served, DeliversInline, Holding
    <2>2. /\ failed' = [failed EXCEPT !["completer"] = FALSE] /\ UNCHANGED <<blocked, queue>>
          /\ handler' = [handler EXCEPT !["completer"] = e]
      BY <1>5, <2>1 DEF EmitIf
    <2>3. (\A u \in Tasks : failed'[u] => failed[u]) /\ handler'["worker"] = handler["worker"]
      BY <1>t, <2>2 DEF EmitTypes, Tasks
    <2>4. Served'
      BY <1>5, <2>1, <2>2, <2>3 DEF Serves, Served, Tasks, Callers, Holding, Carried
    <2> QED
      BY <1>1, <2>2, <2>4 DEF Serves
  <1>6. CASE EmitIf(stop.by, e, ghost, ~stopping) /\ e = Awaited' /\ ~stop'.error /\ ~stop.deferred
    <2>1. worker = "run" /\ ~stopping /\ stop.by \in Callers /\ blocked[stop.by] = "none"
      BY <1>6 DEF Serves, Served, Control, OwnSide, Holding
    <2>2. EmitIf(stop.by, e, ghost, TRUE)
      BY <1>6, <2>1
    <2>3. /\ \A u \in Tasks : u # stop.by => failed'[u] = failed[u] /\ blocked'[u] = blocked[u]
          /\ failed'[stop.by] = FALSE /\ handler' = handler /\ blocked'[stop.by] \in {"none", e}
      BY <1>t, <2>1, <2>2, QueueEmits
    <2>4. \A u \in Tasks : failed'[u] => failed[u]
      BY <2>3
    <2>5. Served'
      BY <1>6, <2>1, <2>3, <2>4 DEF Serves, Served, Tasks, Callers, Holding, Carried
    <2>6. Waiting(stop.by)' \/ blocked'[stop.by] = "none"
      BY <1>6, <2>3 DEF Waiting, Publishes, Carried, Awaited
    <2> QED
      BY <1>1, <2>3, <2>5, <2>6 DEF Serves
  <1> QED
    BY <1>3, <1>4, <1>5, <1>6

LEMMA ServesByStop ==
  ASSUME Types, Held, Control, Background, Serves, BarrierSide, StopStep
  PROVE  Serves'
  <1>t. /\ StopTypes /\ EmitTypes /\ ghost \in Ghost /\ SocketHeld /\ stop.by \in Tasks
        /\ {"STOPPING", "closed", "STOPPED"} \subseteq Events
    BY DEF Types, Held, StopTypes, StopPlan, Events
  <1> USE <1>t
  <1>1. CASE TearsDown
    <2>1. /\ stop.phase = "teardown" /\ Carried /\ (stop.deferred \/ blocked[stop.by] = "none")
          /\ UNCHANGED <<setup, start, handler, worker>>
      BY <1>1, TearsDownEffect DEF Ready
    <2>2. CASE Closed /\ UNCHANGED <<recv, blocked>>
      BY <2>1, <2>2, ServesClosed DEF Holding
    <2>3. CASE /\ recv' = "cancelled" /\ stop'.phase = "reader" /\ stop'.by = stop.by
               /\ blocked'["receiver"] = "none"
               /\ \A u \in Tasks : u # "receiver" => blocked'[u] = blocked[u]
               /\ Cleared(stop.by)
               /\ UNCHANGED <<queue, stopping>>
      <3>1. \A u \in Tasks : failed'[u] => failed[u]
        BY <2>3 DEF Cleared
      <3>2. Served'
        BY <2>1, <2>3, <3>1 DEF Serves, Served, Tasks, Callers, Holding, Carried
      <3>3. ASSUME NEW u \in Tasks, blocked'[u] # "none" PROVE Waiting(u)'
        BY <2>1, <2>3, <3>3 DEF Serves, Waiting, Publishes
      <3> QED
        BY <3>2, <3>3 DEF Serves
    <2> QED
      BY <1>1, <2>2, <2>3, TearsDownEffect
  <1>2. CASE ReceiverGone
    BY <1>2, ReceiverGoneEffect, ServesClosed DEF Holding
  <1>3. CASE HandlersGone
    <2>1. stop.deferred /\ stop.by = "completer"
      BY <1>3, HandlersGoneEffect, TaskAssumption DEF SocketHeld, Control, OwnSide, Callers, TaskAssumption
    <2> QED
      BY <1>3, <2>1, HandlersGoneEffect, ServesPublished
  <1>4. CASE Closes
    <2>1. stop'.phase = "stopped" => Awaited' = "closed"
      BY DEF Awaited
    <2>2. ~SeesError => ~stop.error
      BY DEF SeesError
    <2>3. UNCHANGED emitVars => UNCHANGED <<handler, blocked, failed, queue>>
      BY DEF emitVars
    <2>4. Ready(stop.by) => blocked[stop.by] = "none"
      BY DEF Ready
    <2> QED
      BY <1>4, <2>1, <2>2, <2>3, <2>4, ClosesEffect, ServesPublished
  <1>5. CASE Stops
    <2>1. stop'.phase = "drain" => Awaited' = "STOPPED"
      BY DEF Awaited
    <2>2. blocked[stop.by] = "none"
      BY <1>5, StopsEffect DEF Ready
    <2> QED
      BY <1>5, <2>1, <2>2, StopsEffect, ServesPublished
  <1>6. CASE StopsOwnDispatcher
    <2>1. /\ stop.phase = "drain" /\ blocked[stop.by] = "none" /\ EmitsNothing(stop.by, ghost)
          /\ UNCHANGED <<setup, start, recv, worker>>
      BY <1>6, OwnDispatcherEffect DEF Ready
    <2>2. \A u \in Tasks : failed'[u] => failed[u]
      BY <2>1, NothingEffect
    <2>3. UNCHANGED <<handler, blocked, queue>>
      BY <2>1 DEF EmitsNothing
    <2>4. failed[stop.by] /\ stop.by # "completer" => FALSE
      <3>1. stop.by # "completer" => ~stop.deferred
        BY <2>1 DEF Serves, Served, Holding
      <3>2. ~stop.deferred => stop.by \in Callers /\ (stop.by = "starter" => start # "opened")
        BY <2>1 DEF Control, OwnSide
      <3> QED
        BY <3>1, <3>2 DEF Serves, Served, Callers
    <2>5. \/ stop'.phase = "none" /\ stopping' = TRUE
          \/ stop'.phase = "draining" /\ Carried /\ stop'.by = stop.by /\ stopping' = TRUE
      BY <1>6, <2>4, OwnDispatcherEffect
    <2>6. Served'
      BY <2>1, <2>2, <2>3, <2>5 DEF Serves, Served, Tasks, Callers, Holding, Carried
    <2>7. ASSUME NEW u \in Tasks, blocked'[u] # "none" PROVE Waiting(u)'
      BY <2>1, <2>3, <2>7 DEF Serves, Waiting, Publishes
    <2> QED
      BY <2>6, <2>7 DEF Serves
  <1>7. CASE StopEnds
    <2>1. /\ stop.phase = "drained" /\ stop'.phase = "none"
          /\ UNCHANGED <<setup, start, recv, handler, blocked, failed, queue, worker, stopping>>
      BY <1>7 DEF StopEnds, Executes, Completed, NoStop, runtimeVars, closeVars, taskVars, emitVars, workerVars
    <2>2. Served'
      BY <2>1 DEF Serves, Served, Holding
    <2>3. ASSUME NEW u \in Tasks, blocked'[u] # "none" PROVE Waiting(u)'
      BY <2>1, <2>3 DEF Serves, Waiting, Publishes
    <2> QED
      BY <2>2, <2>3 DEF Serves
  <1> QED
    BY <1>1, <1>2, <1>3, <1>4, <1>5, <1>6, <1>7 DEF StopStep

\* A handler that calls stop() in the background: on the worker it plans a stop; what it
\* drops belongs to no stop under way that still serves.
LEMMA HandlerStopsBackground ==
  ASSUME Types, Held, Places, Control, Background, Serves, BarrierSide, NEW t \in Tasks, HandlerStops(t)
  PROVE  /\ ~Queued("STARTING")
         /\ \/ Plans(t, TRUE) /\ t = "worker" /\ UNCHANGED <<failed, barrier, queue, stopping, sweeper>>
            \/ /\ \/ stop.phase = "none" /\ state = "STOPPED"
                  \/ stop.phase \notin Holding \cup {"none"} /\ stop.deferred
               /\ DropsQueue /\ UNCHANGED <<state, task, stop>>
  <1>1. handler[t] # "none" /\ ~InTeardown(t) /\ t \notin Callers /\ ~Queued("STARTING")
    BY HandlerStopsEffect, BackgroundHandler, NoHandlerYet
  <1>2. CASE Plans(t, TRUE) /\ UNCHANGED <<failed, barrier, queue, stopping, sweeper>>
    <2>1. stop.phase = "none"
      BY <1>2 DEF Plans
    <2>2. t = "worker"
      BY <1>1, <2>1, BackgroundHandler
    <2> QED
      BY <1>1, <1>2, <2>2
  <1>3. CASE /\ stop.phase = "none" => state = "STOPPED"
             /\ stop.phase # "none" => stop.owner = t
             /\ DropsQueue /\ UNCHANGED <<state, task, stop>>
    <2>1. stop.phase # "none" => stop.deferred
      BY <1>1, <1>3 DEF Control, OwnSide
    <2>2. stop.phase \in Holding => stop.by = "worker" /\ t = "worker"
      BY <1>3, <2>1 DEF Serves, Served, Holding
    <2>3. stop.phase \notin Holding
      BY <1>1, <2>1, <2>2 DEF InTeardown, Holding
    <2> QED
      BY <1>1, <1>3, <2>1, <2>3
  <1> QED
    BY <1>2, <1>3, HandlerStopsEffect

LEMMA ServesByHandlers ==
  ASSUME Types, Held, Places, Control, Background, Serves, BarrierSide, NEW t \in Tasks,
         HandlerStops(t) \/ HandlerRaises(t) \/ HandlerReturns(t) \/ Unblocked(t)
  PROVE  Serves'
  <1>t. StopTypes /\ EmitTypes /\ WorkerTypes /\ ({"starter", "receiver", "worker"} \subseteq Tasks)
    BY DEF Types, Tasks, Callers
  <1> USE <1>t DEF runtimeVars, closeVars, taskVars, emitVars, workerVars
  <1>1. CASE HandlerStops(t)
    <2>0. UNCHANGED <<setup, start, recv, handler, blocked, worker>> /\ handler[t] # "none" /\ Background'
      BY <1>1, HandlerStopsEffect DEF Background
    <2>1. CASE Plans(t, TRUE) /\ t = "worker" /\ UNCHANGED <<failed, queue, stopping>>
      <3>1. /\ stop.phase = "none" /\ stop'.phase = "teardown" /\ stop'.owner = "worker" /\ stop'.by = "worker"
            /\ stop'.deferred = TRUE
        BY <2>1 DEF Plans
      <3>2. worker = "run" /\ ~stopping
        BY <2>1 DEF Control, LifeSide, Plans, Types, RunTypes, Lifecycle, Owning
      <3>3. Served'
        BY <2>0, <2>1, <3>1, <3>2 DEF Serves, Served, Holding
      <3>4. ASSUME NEW u \in Tasks, blocked'[u] # "none" PROVE Waiting(u)'
        BY <2>0, <3>1, <3>4 DEF Serves, Waiting, Publishes
      <3> QED
        BY <3>3, <3>4 DEF Serves
    <2>2. CASE /\ \/ stop.phase = "none" /\ state = "STOPPED"
                  \/ stop.phase \notin Holding \cup {"none"} /\ stop.deferred
               /\ DropsQueue /\ stop' = stop /\ ~Queued("STARTING")
      <3>1. /\ stopping' = TRUE /\ queue' = <<>>
            /\ \A u \in Tasks : u # "starter" => failed'[u] = failed[u]
            /\ failed'["starter"] => failed["starter"] \/ Queued("opened")
        BY <2>2, DropsEffect DEF Background
      <3>2. failed'["starter"] => start = "opened"
        BY <3>1 DEF Serves, Served, BarrierSide
      <3>3. \A u \in Stoppers \cup {"receiver"} : ~failed'[u]
        BY <3>1, TaskAssumption DEF Serves, Served, Tasks, Callers, TaskAssumption
      <3>4. Served'
        BY <2>0, <2>2, <3>1, <3>2, <3>3 DEF Serves, Served, Holding
      <3>5. ASSUME NEW u \in Tasks, blocked'[u] # "none" PROVE Waiting(u)'
        BY <2>0, <2>2, <3>5 DEF Serves, Waiting, Publishes
      <3> QED
        BY <3>4, <3>5 DEF Serves
    <2> QED
      BY <1>1, <2>1, <2>2, HandlerStopsBackground
  <1>2. CASE HandlerRaises(t) \/ HandlerReturns(t)
    <2>r. PICK r \in BOOLEAN : HandlerEnds(t, r)
      BY <1>2 DEF HandlerRaises, HandlerReturns
    <2>h. PICK h : handler' = [handler EXCEPT ![t] = h]
      BY <2>r DEF HandlerEnds
    <2>f. PICK f : failed' = [failed EXCEPT ![t] = f]
      BY <2>r DEF HandlerEnds
    <2>q. /\ handler[t] # "none" /\ ~InTeardown(t)
          /\ UNCHANGED <<setup, stop, start, recv, blocked, worker, stopping>>
          /\ queue = <<>> => queue' = <<>> /\ handler' = [handler EXCEPT ![t] = "none"]
          /\ t # "worker" => queue' = queue
      BY <2>r DEF HandlerEnds
    <2>1. /\ handler[t] # "none" /\ ~InTeardown(t)
          /\ UNCHANGED <<setup, stop, start, recv, blocked, worker, stopping>>
          /\ \A u \in Tasks : u # t => failed'[u] = failed[u] /\ handler'[u] = handler[u]
          /\ queue = <<>> => queue' = <<>>
          /\ t # "worker" => queue' = queue
      BY <2>h, <2>f, <2>q
    <2>2. t = "worker" => worker = "run"
      BY <2>1 DEF Serves, Served, WorkerTypes
    <2>3. t \notin Callers
      BY <2>1, BackgroundHandler
    <2>4. Served'
      <3>1. worker = "none" => queue' = <<>> /\ handler'["worker"] = "none"
        BY <2>1, <2>2 DEF Serves, Served, Types, WorkerTypes
      <3>2. stop.deferred /\ stop.phase \in Holding => handler'["worker"] # "none"
        BY <2>1 DEF Serves, Served, InTeardown, Holding
      <3>3. /\ failed'["starter"] = failed["starter"]
            /\ \A u \in Stoppers \cup {"receiver"} : failed'[u] = failed[u]
        BY <2>1, <2>3 DEF Callers, Tasks
      <3> QED
        BY <2>1, <3>1, <3>2, <3>3 DEF Serves, Served
    <2>5. ASSUME NEW u \in Tasks, blocked'[u] # "none" PROVE Waiting(u)'
      BY <2>1, <2>5 DEF Serves, Waiting, Publishes, Awaited
    <2> QED
      BY <2>1, <2>4, <2>5 DEF Serves
  <1>3. CASE Unblocked(t)
    <2>1. /\ blocked[t] # "none" /\ UNCHANGED <<setup, stop, start, recv, handler, worker, stopping>>
          /\ blocked' = [blocked EXCEPT ![t] = "none"]
          /\ failed' = [failed EXCEPT ![t] = stopping /\ IsBarrier(blocked[t])]
          /\ queue' = IF stopping THEN queue ELSE Append(queue, blocked[t])
      BY <1>3 DEF Unblocked
    <2>b. IsBarrier(blocked[t]) \in BOOLEAN
      BY DEF IsBarrier
    <2>2. /\ blocked'[t] = "none"
          /\ \A u \in Tasks : u # t => blocked'[u] = blocked[u] /\ failed'[u] = failed[u]
          /\ failed'[t] = (stopping /\ IsBarrier(blocked[t]))
      BY ONLY EmitTypes, <2>1, <2>b, t \in Tasks DEF EmitTypes
    <2>3. worker = "run" \/ stopping
      BY <2>1 DEF Serves, Served, Types, WorkerTypes
    <2>4. failed'[t] => t = "starter" /\ start = "opened" /\ stopping
      BY <2>1, <2>2, TaskAssumption DEF Serves, Waiting, Awaited, IsBarrier, Payload
    <2>5. Served'
      <3>1. worker = "none" => queue' = <<>>
        BY <2>1, <2>3 DEF Serves, Served
      <3>2. /\ failed'["starter"] => start = "opened" /\ stopping
            /\ \A u \in Stoppers \cup {"receiver"} : ~failed'[u]
        BY <2>2, <2>4, TaskAssumption DEF Serves, Served, Tasks, Callers, TaskAssumption
      <3>3. worker = "none" /\ ~stopping => FALSE
        BY <2>3
      <3>4. stopping => queue' = queue
        BY <2>1
      <3>5. /\ worker = "none" => handler["worker"] = "none"
            /\ stop.phase # "none" /\ stop.deferred /\ stop.phase \notin Holding
                 => stopping /\ queue' = <<>> /\ stop.by = "completer"
        BY <3>4 DEF Serves, Served
      <3>6. /\ stop.phase \in Holding \/ (stop.phase \notin {"none", "draining", "drained"} /\ ~stop.deferred)
                 => worker = "run" /\ ~stopping
            /\ stop.deferred /\ stop.phase \in Holding
                 => stop.by = "worker" /\ stop.owner = "worker" /\ handler["worker"] # "none"
            /\ start = "doomed" => stopping
        BY DEF Serves, Served
      <3> QED
        BY <2>1, <3>1, <3>2, <3>3, <3>5, <3>6 DEF Served
    <2>6. ASSUME NEW u \in Tasks, blocked'[u] # "none" PROVE Waiting(u)'
      BY <2>1, <2>2, <2>6 DEF Serves, Waiting, Publishes, Awaited
    <2> QED
      BY <2>1, <2>5, <2>6 DEF Serves
  <1> QED
    BY <1>1, <1>2, <1>3

LEMMA ServesByRest ==
  ASSUME Types, Held, Places, Reading, Control, Background, Serves, BarrierSide,
         \/ \E c \in Stoppers : StopCalled(c)
         \/ DatagramArrives \/ ReceiveFails \/ ReceiverStep \/ WorkerStep \/ HandoffStep \/ Sweeps
  PROVE  Serves'
  <1>t. /\ StopTypes /\ EmitTypes /\ WorkerTypes /\ SocketHeld
        /\ {"starter", "receiver", "worker", "handoff"} \subseteq Tasks
        /\ Stoppers \subseteq Callers /\ "receiver" \in Callers
        /\ \A c \in Stoppers : c \notin {"starter", "receiver"}
        /\ Payload \cup {"closed"} \subseteq Events
    BY TaskAssumption DEF Types, Held, Tasks, Callers, TaskAssumption, Events, Payload
  <1> USE <1>t DEF runtimeVars, closeVars, taskVars, emitVars, workerVars
  <1>1. ASSUME NEW c \in Stoppers, StopCalled(c) PROVE Serves'
    <2>1. CallsStop(c) /\ \E g : CallStop(c, g)
      BY <1>1 DEF StopCalled, CallsStop
    <2> QED
      BY <2>1, ServesCalled
  <1>2. ASSUME NEW e \in Payload, NEW g, Reads, recv = "reading" \/ Ready("receiver"), recv' \in {"emitted", "failing"},
               Emit("receiver", e, g), UNCHANGED <<setup, stop, start, worker, stopping>>
        PROVE  Serves'
    <2>1. worker = "run" /\ ~stopping
      BY <1>2, ReadsServed
    <2>2. blocked["receiver"] = "none"
      BY <1>2 DEF Ready, Serves, Waiting, Publishes, Control, OwnSide
    <2>3. EmitIf("receiver", e, g, TRUE) /\ e \in Events
      BY <1>2, <2>1 DEF Emit
    <2>4. /\ \A u \in Tasks : u # "receiver" => failed'[u] = failed[u] /\ blocked'[u] = blocked[u]
          /\ failed'["receiver"] = FALSE /\ handler' = handler /\ blocked'["receiver"] \in {"none", e}
      BY <2>2, <2>3, QueueEmits
    <2>5. Served'
      BY <1>2, <2>1, <2>4 DEF Serves, Served, Tasks, Callers
    <2>6. ASSUME NEW u \in Tasks, blocked'[u] # "none" PROVE Waiting(u)'
      BY <1>2, <2>4, <2>6 DEF Serves, Waiting, Publishes, Awaited
    <2> QED
      BY <1>2, <2>5, <2>6 DEF Serves, Background
  <1>3. CASE DatagramArrives
    <2>1. PICK g : Emit("receiver", "bytes", g)
      BY <1>3 DEF DatagramArrives
    <2> QED
      BY <1>2, <1>3, <2>1 DEF DatagramArrives, Reads, Payload
  <1>4. CASE ReceiveFails
    BY <1>2, <1>4 DEF ReceiveFails, Reads, Payload
  <1>5. ASSUME UNCHANGED <<setup, stop, start, worker, handler, blocked, queue>>,
               stopping' = stopping \/ (stopping' = TRUE /\ stop.phase = "none"),
               \A u \in Tasks : failed'[u] => failed[u],
               recv' = recv \/ recv \notin {"emitted", "failing"} \/ blocked["receiver"] = "none"
        PROVE  Serves'
    <2>1. Served'
      BY <1>5 DEF Serves, Served, Tasks, Callers, Holding
    <2>2. ASSUME NEW u \in Tasks, blocked'[u] # "none" PROVE Waiting(u)'
      BY <1>5, <2>2 DEF Serves, Waiting, Publishes, Awaited
    <2> QED
      BY <1>5, <2>1, <2>2 DEF Serves, Background
  <1>6. CASE ReceiverLoops
    BY <1>5, <1>6 DEF ReceiverLoops, Ready
  <1>7. CASE ReceiverExits
    <2>1. CASE running
      <3>1. CallsStop("receiver") /\ CallStop("receiver", ghost) /\ blocked["receiver"] = "none"
        BY <1>7, <2>1 DEF ReceiverExits, CallsStop, Ready
      <3> QED
        BY <3>1, ServesCalled
    <2>2. CASE ~running
      <3>1. \A u \in Tasks : failed'[u] => failed[u]
        BY <1>7, <2>2, NothingEffect DEF ReceiverExits
      <3> QED
        BY <1>5, <1>7, <2>2, <3>1 DEF ReceiverExits, EmitsNothing, Ready
    <2> QED
      BY <2>1, <2>2
  <1>8. CASE ReceiverEnds
    <2>1. \A u \in Tasks : failed'[u] => failed[u]
      BY <1>8, NothingEffect DEF ReceiverEnds
    <2> QED
      BY <1>5, <1>8, <2>1 DEF ReceiverEnds, EmitsNothing
  <1>9. CASE WorkerTakes
    <2>1. /\ worker = "run" /\ queue # <<>>
          /\ UNCHANGED <<setup, stop, start, recv, blocked, failed, worker, stopping>>
          /\ handler'["worker"] # "none"
      BY <1>9 DEF WorkerTakes, EmitTypes, Events, Payload
    <2>2. Served'
      BY <2>1 DEF Serves, Served
    <2>3. ASSUME NEW u \in Tasks, blocked'[u] # "none" PROVE Waiting(u)'
      BY <2>1, <2>3 DEF Serves, Waiting, Publishes, Awaited
    <2> QED
      BY <2>1, <2>2, <2>3 DEF Serves
  <1>10. CASE WorkerExits
    <2>1. /\ stopping /\ queue = <<>> /\ handler["worker"] = "none" /\ worker' = "none"
          /\ stop'.phase = IF stop.phase = "draining" THEN "drained" ELSE stop.phase
          /\ stop'.by = stop.by /\ Carried /\ stop'.error = stop.error
          /\ start' = IF start = "draining" THEN "idle" ELSE start
          /\ UNCHANGED <<setup, recv, emitVars, stopping>>
      BY <1>10, WorkerExitsEffect
    <2>2. Served'
      BY <2>1 DEF Serves, Served, Carried, Holding
    <2>3. ASSUME NEW u \in Tasks, blocked'[u] # "none" PROVE Waiting(u)'
      BY <2>1, <2>3 DEF Serves, Served, Waiting, Publishes, Awaited, Carried
    <2> QED
      BY <2>1, <2>2, <2>3 DEF Serves
  <1>11. CASE HandoffTakes
    <2>1. DeliversInline("handoff")
      BY DEF DeliversInline
    <2>2. /\ UNCHANGED <<setup, stop, start, recv, blocked, queue, worker, stopping>>
          /\ \/ failed' = failed /\ handler' = handler
             \/ EmitIf("handoff", "closed", ghost, ~stopping) /\ UNCHANGED <<blocked, queue>>
      BY <1>11, <2>1 DEF HandoffTakes, Emit, EmitIf
    <2>3. (\A u \in Tasks : failed'[u] => failed[u]) /\ handler'["worker"] = handler["worker"]
      BY <2>1, <2>2, EmitEffect
    <2>4. Served'
      BY <2>2, <2>3 DEF Serves, Served, Tasks, Callers
    <2>5. ASSUME NEW u \in Tasks, blocked'[u] # "none" PROVE Waiting(u)'
      BY <2>2, <2>5 DEF Serves, Waiting, Publishes, Awaited
    <2> QED
      BY <2>2, <2>4, <2>5 DEF Serves
  <1>12. CASE HandoffEnds
    <2>1. /\ EmitsNothing("handoff", ghost)
          /\ stop.phase = "waiter" /\ stop'.phase = "stopped" /\ stop'.by = stop.by /\ Carried
          /\ UNCHANGED <<setup, start, recv, worker, stopping>>
      BY <1>12, HandoffEndsEffect DEF Control
    <2>2. (\A u \in Tasks : failed'[u] => failed[u]) /\ UNCHANGED <<handler, blocked, queue>>
      BY <2>1, NothingEffect
    <2>3. Served'
      BY <2>1, <2>2 DEF Serves, Served, Tasks, Callers, Carried, Holding
    <2>4. ASSUME NEW u \in Tasks, blocked'[u] # "none" PROVE Waiting(u)'
      BY <2>1, <2>2, <2>4 DEF Serves, Waiting, Publishes
    <2> QED
      BY <2>1, <2>3, <2>4 DEF Serves
  <1>13. CASE Sweeps
    <2>1. stop.phase = "none"
      BY <1>13 DEF Sweeps, Control, LifeSide
    <2> QED
      BY <1>5, <1>13, <2>1 DEF Sweeps
  <1> QED
    BY <1>1, <1>3, <1>4, <1>6, <1>7, <1>8, <1>9, <1>10, <1>11, <1>12, <1>13
    DEF ReceiverStep, WorkerStep, HandoffStep

-----------------------------------------------------------------------------
\* The events that start() awaits are where it looks for them.
LEMMA BarrierKept ==
  ASSUME EmitTypes, BarrierSide, setup' = setup, barrier' = barrier,
         start' = start \/ ~barrier,
         handler'["worker"] = handler["worker"],
         blocked'["starter"] \in {blocked["starter"], "none"} \/ ~barrier,
         queue' = queue \/ \E e \in Events \ {"STARTING", "opened"} : queue' = Append(queue, e)
  PROVE  BarrierSide'
  <1>1. /\ Queued("STARTING")' => Queued("STARTING") /\ queue'[1] = queue[1]
        /\ Queued("opened")' => Queued("opened")
        /\ \A i \in 2..Len(queue') : queue'[i] = "STARTING" =>
             \E j \in 2..Len(queue) : queue[j] = "STARTING"
    <2>1. CASE queue' = queue
      BY <2>1 DEF Queued
    <2>2. ASSUME NEW e \in Events \ {"STARTING", "opened"}, queue' = Append(queue, e)
          PROVE  /\ Queued("STARTING")' => Queued("STARTING") /\ queue'[1] = queue[1]
                 /\ Queued("opened")' => Queued("opened")
                 /\ \A i \in 2..Len(queue') : queue'[i] = "STARTING" =>
                      \E j \in 2..Len(queue) : queue[j] = "STARTING"
      <3>1. /\ Len(queue') = Len(queue) + 1 /\ Len(queue) \in Nat /\ queue'[Len(queue) + 1] = e
            /\ \A i \in 1..Len(queue) : queue'[i] = queue[i]
        BY <2>2 DEF EmitTypes
      <3>2. ASSUME NEW i \in 1..Len(queue'), NEW f \in {"STARTING", "opened"}, queue'[i] = f
            PROVE  i \in 1..Len(queue) /\ queue[i] = f
        BY <2>2, <3>1, <3>2
      <3>3. Queued("STARTING")' => Queued("STARTING") /\ 1 \in 1..Len(queue)
        BY <3>1, <3>2 DEF Queued
      <3>4. Queued("opened")' => Queued("opened")
        BY <3>2 DEF Queued
      <3>5. ASSUME NEW i \in 2..Len(queue'), queue'[i] = "STARTING"
            PROVE  i \in 2..Len(queue) /\ queue[i] = "STARTING"
        BY <3>1, <3>2, <3>5
      <3> QED
        BY <3>1, <3>3, <3>4, <3>5
    <2> QED
      BY <2>1, <2>2
  <1> QED
    BY <1>1 DEF BarrierSide, Background

LEMMA BarrierDrops ==
  ASSUME EmitTypes, BarrierSide, Background, UNCHANGED <<setup, start, handler, blocked>>, DropsQueue,
         ~Queued("STARTING")
  PROVE  BarrierSide'
  <1>1. /\ queue' = <<>>
        /\ barrier' = barrier \/ (Queued("opened") /\ barrier' = FALSE)
    BY DropsEffect
  <1>2. \A e : ~Queued(e)'
    BY <1>1 DEF Queued
  <1> QED
    BY <1>1, <1>2 DEF BarrierSide, Background

LEMMA BarrierEmits ==
  ASSUME EmitTypes, BarrierSide, Background, setup' = setup, NEW t \in Callers,
         NEW e \in Events \ {"STARTING", "opened"}, NEW g, blocked[t] = "none", EmitIf(t, e, g, TRUE),
         IF t = "starter" THEN ~barrier ELSE start' = start
  PROVE  BarrierSide'
  <1>1. /\ handler' = handler /\ barrier' = barrier
        /\ t = "starter" \/ blocked'["starter"] = blocked["starter"]
        /\ queue' = queue \/ queue' = Append(queue, e)
    BY QueueEmits DEF IsBarrier, EmitTypes, Tasks, Callers
  <1> QED
    BY <1>1, BarrierKept

LEMMA BarrierCalled ==
  ASSUME Types, SocketHeld, Control, Background, Serves, BarrierSide, NEW t \in Callers, NEW g,
         CallStop(t, g), CallsStop(t), t = "receiver" => blocked[t] = "none"
  PROVE  BarrierSide'
  <1>t. EmitTypes /\ setup' = setup /\ IF t = "starter" THEN ~barrier ELSE start' = start
    BY DEF Types, CallsStop, BarrierSide
  <1>1. CASE EmitsNothing(t, g)
    BY <1>t, <1>1, BarrierKept DEF EmitsNothing
  <1>2. CASE EmitIf(t, "STOPPING", g, ~stopping) /\ \E d \in BOOLEAN : Plans(t, d)
    <2>1. ~stopping
      BY <1>2 DEF Control, LifeSide, Plans, Types, RunTypes, Lifecycle, Owning
    <2>2. blocked[t] = "none"
      BY CallerUnblocked
    <2>3. EmitIf(t, "STOPPING", g, TRUE) /\ "STOPPING" \in Events
      BY <1>2, <2>1 DEF Events
    <2> QED
      BY <1>t, <2>2, <2>3, BarrierEmits
  <1> QED
    BY <1>1, <1>2, CallStopCases

LEMMA BarrierByStart ==
  ASSUME Types, Held, Reading, Plain, Control, Background, Serves, BarrierSide, Story,
         StartCalled \/ StartStep
  PROVE  BarrierSide'
  <1>t. /\ EmitTypes /\ SocketHeld /\ "starter" \in Callers /\ "starter" \in Tasks
        /\ {"STARTING", "RUNNING", "opened", "STOPPED"} \subseteq Events
        /\ 0 < QueueBound /\ Len(queue) \in Nat
    BY RoomAssumption DEF Types, EmitTypes, Held, Callers, Tasks, Events
  <1> USE <1>t DEF runtimeVars, closeVars, taskVars, emitVars, workerVars
  <1>b. start \notin {"starting", "opened"} \/ Ready("starter") => ~barrier
    BY DEF BarrierSide, Ready
  <1>1. CASE StartCalled
    <2>1. stop.phase = "none" /\ ~sweeper /\ start = "idle" /\ state \in {"STOPPED", "STOPPING"}
      BY <1>1, NothingToCancel DEF StartCalled, StopUnderWay
    <2>2. state = "STOPPED" /\ worker = "none" /\ ~Reads
      BY <2>1 DEF Control, LifeSide, Owning, Reading, Unwinds
    <2>3. queue = <<>> /\ handler["worker"] = "none" /\ Len(queue) = 0 /\ blocked["starter"] = "none"
      BY <2>1, <2>2 DEF Serves, Served, Waiting, Publishes
    <2>5. start' = "starting" /\ stopping' = FALSE /\ setup' = setup
      BY <1>1, <2>2 DEF StartCalled
    <2>6. PICK g : EmitIf("starter", "STARTING", g, ~stopping')
      BY <1>1, <2>2 DEF StartCalled
    <2>7. EmitIf("starter", "STARTING", g, TRUE)
      BY <2>5, <2>6
    <2>8. handler' = handler /\ queue' = Append(queue, "STARTING") /\ barrier' = TRUE /\ blocked' = blocked
      BY <2>3, <2>7, QueueEmits DEF IsBarrier
    <2>9. queue' = <<"STARTING">> /\ Len(queue') = 1 /\ queue'[1] = "STARTING"
      BY <2>3, <2>8
    <2>10. ~Queued("opened")'
      BY <2>9 DEF Queued
    <2> QED
      BY <2>3, <2>5, <2>8, <2>9, <2>10 DEF BarrierSide
  <1>2. ASSUME ~barrier, UNCHANGED <<setup, handler, blocked, barrier, queue>> PROVE BarrierSide'
    BY <1>2, BarrierKept
  <1>3. CASE StartRollsBack \/ StartOvertaken \/ StartFails \/ HandsOff \/ StartSucceeds \/ StartEnds
    BY <1>2, <1>3, <1>b
    DEF StartRollsBack, StartOvertaken, StartFails, HandsOff, StartSucceeds, StartEnds, EmitsNothing
  <1>4. ASSUME NEW e \in {"RUNNING", "STOPPED"}, NEW g, state = "STARTING", Ready("starter"), Emit("starter", e, g),
               setup' = setup
        PROVE  BarrierSide'
    <2>1. ~stopping /\ blocked["starter"] = "none" /\ ~barrier
      BY <1>4 DEF Control, LifeSide, Ready
    <2>2. EmitIf("starter", e, g, TRUE)
      BY <1>4, <2>1 DEF Emit
    <2> QED
      BY <1>4, <2>1, <2>2, BarrierEmits
  <1>5. CASE Binds
    <2>1. PICK g : Emit("starter", "RUNNING", g)
      BY <1>5 DEF Binds
    <2> QED
      BY <1>4, <1>5, <2>1 DEF Binds
  <1>6. CASE BindFails
    BY <1>4, <1>6 DEF BindFails
  <1>7. CASE Opens
    <2>1. CASE StillRunning
      <3>1. ~stopping
        BY <2>1 DEF StillRunning, Control, LifeSide
      <3>2. /\ start' = "opened" /\ EmitIf("starter", "opened", ghost, TRUE)
            /\ blocked["starter"] = "none" /\ setup' = setup /\ ~barrier
        BY <1>7, <2>1, <3>1 DEF Opens, Emit, Ready
      <3>3. /\ handler' = handler
            /\ \/ queue' = Append(queue, "opened") /\ barrier' = TRUE /\ blocked' = blocked
               \/ barrier' = barrier /\ queue' = queue
        BY <3>2, QueueEmits DEF IsBarrier
      <3>4. CASE barrier' = barrier /\ queue' = queue
        BY <3>2, <3>3, <3>4, BarrierKept
      <3>5. CASE queue' = Append(queue, "opened") /\ barrier' = TRUE /\ blocked' = blocked
        <4>1. /\ Len(queue') = Len(queue) + 1 /\ queue'[Len(queue) + 1] = "opened"
              /\ \A i \in 1..Len(queue) : queue'[i] = queue[i]
          BY <3>5
        <4>2. ~Queued("STARTING")'
          BY <3>2, <4>1 DEF BarrierSide, Queued
        <4> QED
          BY <3>2, <3>3, <3>5, <4>2 DEF BarrierSide
      <3> QED
        BY <3>3, <3>4, <3>5
    <2>2. CASE ~StillRunning
      BY <1>2, <1>7, <1>b, <2>2 DEF Opens
    <2> QED
      BY <2>1, <2>2
  <1>8. CASE StartStops
    <2>1. CallsStop("starter") /\ CallStop("starter", ghost)
      BY <1>8, TaskAssumption DEF StartStops, CallsStop, TaskAssumption
    <2> QED
      BY <2>1, BarrierCalled
  <1> QED
    BY <1>1, <1>3, <1>5, <1>6, <1>7, <1>8 DEF StartStep

LEMMA BarrierByStop ==
  ASSUME Types, Held, Control, Background, Serves, BarrierSide, StopStep
  PROVE  BarrierSide'
  <1>t. /\ StopTypes /\ EmitTypes /\ ghost \in Ghost /\ SocketHeld /\ stop.by \in Tasks
        /\ {"STOPPING", "closed", "STOPPED"} \subseteq Events \ {"STARTING", "opened"}
    BY DEF Types, Held, StopTypes, StopPlan, Events
  <1> USE <1>t
  <1>1. ASSUME UNCHANGED <<setup, start, handler, barrier, queue>>,
               blocked'["starter"] = blocked["starter"]
        PROVE  BarrierSide'
    BY <1>1, BarrierKept
  <1>2. ASSUME Closed, stop.phase \in Holding, UNCHANGED <<setup, start, handler, blocked>> PROVE BarrierSide'
    <2>1. CASE stop.deferred /\ DropsQueue
      <3>1. ~Queued("STARTING")
        BY <1>2, <2>1 DEF BarrierSide, Serves, Served
      <3> QED
        BY <1>2, <2>1, <3>1, BarrierDrops
    <2>2. CASE UNCHANGED <<barrier, queue>>
      BY <1>1, <1>2, <2>2
    <2> QED
      BY <1>2, <2>1, <2>2 DEF Closed
  <1>3. ASSUME NEW e \in Events \ {"STARTING", "opened"}, UNCHANGED <<setup, start>>,
               EmitIf(stop.by, e, ghost, ~stopping), stop.deferred \/ Ready(stop.by),
               stop.phase \in {"context", "close", "stopped"}
        PROVE  BarrierSide'
    <2>1. CASE stop.deferred
      <3>1. stop.by = "completer" /\ DeliversInline(stop.by)
        BY <1>3, <2>1 DEF Serves, Served, DeliversInline, Holding
      <3>2. UNCHANGED <<blocked, barrier, queue>> /\ handler'["worker"] = handler["worker"]
        BY <1>3, <3>1 DEF EmitIf, EmitTypes, Tasks
      <3> QED
        BY <1>3, <3>2, BarrierKept
    <2>2. CASE ~stop.deferred
      <3>1. /\ ~stopping /\ stop.by \in Callers /\ blocked[stop.by] = "none"
            /\ stop.by = "starter" => ~barrier
        BY <1>3, <2>2 DEF Serves, Served, Control, OwnSide, Holding, BarrierSide, Ready
      <3>2. EmitIf(stop.by, e, ghost, TRUE)
        BY <1>3, <3>1
      <3> QED
        BY <1>3, <3>1, <3>2, BarrierEmits
    <2> QED
      BY <2>1, <2>2
  <1>4. ASSUME NEW t, EmitsNothing(t, ghost), UNCHANGED <<setup, start>> PROVE BarrierSide'
    BY <1>1, <1>4 DEF EmitsNothing
  <1>5. CASE TearsDown
    <2>1. stop.phase \in Holding /\ UNCHANGED <<setup, start, handler>>
      BY <1>5, TearsDownEffect DEF Holding
    <2>2. CASE Closed /\ blocked' = blocked
      BY <1>2, <2>1, <2>2
    <2>3. CASE (\A u \in Tasks : u # "receiver" => blocked'[u] = blocked[u]) /\ UNCHANGED <<barrier, queue>>
      BY <1>1, <2>1, <2>3 DEF Tasks, Callers
    <2> QED
      BY <1>5, <2>2, <2>3, TearsDownEffect
  <1>6. CASE ReceiverGone
    BY <1>2, <1>6, ReceiverGoneEffect DEF Holding
  <1>7. CASE HandlersGone
    <2>1. stop.deferred /\ stop.by = "completer"
      BY <1>7, HandlersGoneEffect, TaskAssumption DEF SocketHeld, Control, OwnSide, Callers, TaskAssumption
    <2> QED
      BY <1>3, <1>4, <1>7, <2>1, HandlersGoneEffect
  <1>8. CASE Closes
    <2>1. UNCHANGED emitVars /\ UNCHANGED <<setup, start>> => BarrierSide'
      BY <1>1 DEF emitVars
    <2> QED
      BY <1>3, <1>4, <1>8, <2>1, ClosesEffect
  <1>9. CASE Stops
    BY <1>3, <1>4, <1>9, StopsEffect
  <1>10. CASE StopsOwnDispatcher
    BY <1>4, <1>10, OwnDispatcherEffect
  <1>11. CASE StopEnds
    BY <1>1, <1>11 DEF StopEnds, runtimeVars, taskVars, emitVars
  <1> QED
    BY <1>5, <1>6, <1>7, <1>8, <1>9, <1>10, <1>11 DEF StopStep

\* The worker takes the oldest event, from its sleep or from the end of a handler.
LEMMA BarrierTakes ==
  ASSUME EmitTypes, BarrierSide, QueueInOrder, Background, queue # <<>>, queue' = Tail(queue),
         UNCHANGED <<setup, start, blocked>>, handler'["worker"] = Head(queue),
         barrier' = (barrier /\ ~IsBarrier(handler["worker"]))
  PROVE  BarrierSide'
  <1>e. PICK e : e = Head(queue)
    OBVIOUS
  <1>1. /\ Len(queue) \in Nat /\ Len(queue) > 0 /\ e = queue[1] /\ Len(queue') = Len(queue) - 1
        /\ \A i \in 1..Len(queue') : queue'[i] = queue[i + 1] /\ i + 1 \in 2..Len(queue)
        /\ handler'["worker"] = e
    BY <1>e DEF EmitTypes
  <1>2. /\ Queued(e) /\ \A f : Queued(f)' => \E j \in 2..Len(queue) : queue[j] = f
        /\ \A f : Queued(f)' => Queued(f)
    <2>1. Queued(e)
      BY <1>1 DEF Queued
    <2>2. \A f : Queued(f)' => \E j \in 2..Len(queue) : queue[j] = f
      BY <1>1 DEF Queued
    <2>3. \A f : (\E j \in 2..Len(queue) : queue[j] = f) => Queued(f)
      BY <1>1 DEF Queued
    <2> QED
      BY <2>1, <2>2, <2>3
  <1>3. e = "opened" => ~Queued("opened")'
    <2> SUFFICES ASSUME e = "opened", NEW j \in 2..Len(queue), queue[j] = "opened" PROVE FALSE
      BY <1>2
    <2>1. Before(queue[1], queue[j])
      BY <1>1 DEF QueueInOrder
    <2> QED
      BY <1>1, <2>1, Ranks DEF Before, Unordered, Payload
  <1>4. CASE e = "STARTING"
    <2>1. /\ start = "starting" /\ barrier /\ handler["worker"] = "none" /\ ~Queued("STARTING")'
          /\ ~Queued("opened")
      BY <1>1, <1>2, <1>4 DEF BarrierSide
    <2>2. barrier' /\ start' = "starting" /\ blocked["starter"] = "none"
      BY <2>1 DEF IsBarrier, BarrierSide
    <2>3. ~Queued("opened")' /\ handler'["worker"] = "STARTING" /\ blocked'["starter"] = "none"
      BY <1>1, <1>2, <1>4, <2>1, <2>2
    <2> QED
      BY <2>1, <2>2, <2>3 DEF BarrierSide
  <1>5. CASE e # "STARTING"
    <2>1. ~Queued("STARTING")
      BY <1>1, <1>5 DEF BarrierSide
    <2>2. Queued("opened") => start = "opened" /\ barrier' /\ barrier
      BY DEF BarrierSide, IsBarrier
    <2>3. barrier' => barrier
      OBVIOUS
    <2> QED
      BY <1>1, <1>2, <1>3, <1>5, <2>1, <2>2, <2>3 DEF BarrierSide
  <1> QED
    BY <1>4, <1>5

LEMMA BarrierByHandlers ==
  ASSUME Types, Held, Places, Control, Background, Serves, BarrierSide, Story, NEW t \in Tasks,
         HandlerStops(t) \/ HandlerRaises(t) \/ HandlerReturns(t) \/ Unblocked(t)
  PROVE  BarrierSide'
  <1>t. StopTypes /\ EmitTypes /\ ({"starter", "receiver", "worker"} \subseteq Tasks)
    BY DEF Types, Tasks, Callers
  <1> USE <1>t DEF runtimeVars, closeVars, taskVars, emitVars, workerVars
  <1>1. CASE HandlerStops(t)
    <2>0. UNCHANGED <<setup, start, handler, blocked>>
      BY <1>1, HandlerStopsEffect
    <2>1. ~Queued("STARTING") /\ (UNCHANGED <<barrier, queue>> \/ DropsQueue)
      BY <1>1, HandlerStopsBackground
    <2>2. UNCHANGED <<barrier, queue>> => BarrierSide'
      BY <2>0, BarrierKept
    <2> QED
      BY <2>0, <2>1, <2>2, BarrierDrops
  <1>2. CASE HandlerRaises(t) \/ HandlerReturns(t)
    <2>r. PICK r \in BOOLEAN : HandlerEnds(t, r)
      BY <1>2 DEF HandlerRaises, HandlerReturns
    <2>0. UNCHANGED <<setup, start, blocked>> /\ handler[t] # "none"
      BY <2>r DEF HandlerEnds
    <2>1. CASE t # "worker"
      <3>1. handler'["worker"] = handler["worker"] /\ queue' = queue
        BY <2>1, <2>r DEF HandlerEnds
      <3>2. barrier' = barrier
        BY <2>1, <2>r DEF HandlerEnds, EmitTypes
      <3> QED
        BY <2>0, <3>1, <3>2, BarrierKept
    <2>2. CASE t = "worker" /\ queue # <<>>
      <3>1. /\ handler' = [handler EXCEPT !["worker"] = Head(queue)] /\ queue' = Tail(queue)
            /\ barrier' = (barrier /\ ~IsBarrier(handler["worker"]))
        BY <2>2, <2>r DEF HandlerEnds
      <3>2. handler'["worker"] = Head(queue)
        BY <3>1 DEF EmitTypes
      <3> QED
        BY <2>0, <2>2, <3>1, <3>2, BarrierTakes DEF Story
    <2>3. CASE t = "worker" /\ queue = <<>>
      <3>1. queue' = queue /\ handler' = [handler EXCEPT !["worker"] = "none"]
        BY <2>3, <2>r DEF HandlerEnds
      <3>q. Len(queue') = 0
        BY <2>3, <3>1
      <3>2. handler'["worker"] = "none" /\ \A f : ~Queued(f)'
        BY <3>1, <3>q DEF EmitTypes, Queued
      <3>3. barrier' => barrier
        BY <2>3, <2>r DEF HandlerEnds
      <3> QED
        BY <2>0, <3>2, <3>3 DEF BarrierSide
    <2> QED
      BY <2>1, <2>2, <2>3
  <1>3. CASE Unblocked(t)
    <2>1. /\ blocked[t] # "none" /\ UNCHANGED <<setup, start, handler>>
          /\ blocked' = [blocked EXCEPT ![t] = "none"]
          /\ queue' = IF stopping THEN queue ELSE Append(queue, blocked[t])
          /\ barrier' = (barrier \/ (~stopping /\ IsBarrier(blocked[t])))
      BY <1>3 DEF Unblocked
    <2>2. blocked[t] \in Events /\ blocked'["starter"] \in {blocked["starter"], "none"}
      BY <2>1 DEF EmitTypes
    <2>3. \/ blocked[t] \in Events \ {"STARTING", "opened"}
          \/ t = "starter" /\ start = "opened" /\ blocked[t] = "opened"
      BY <2>1, <2>2 DEF Serves, Waiting, Awaited, Payload
    <2>4. CASE stopping \/ ~IsBarrier(blocked[t])
      <3>1. barrier' = barrier
        BY <2>1, <2>4 DEF EmitTypes
      <3>2. ~stopping => blocked[t] \in Events \ {"STARTING", "opened"}
        BY <2>2, <2>4 DEF IsBarrier
      <3> QED
        BY <2>1, <2>2, <3>1, <3>2, BarrierKept
    <2>5. CASE ~stopping /\ t = "starter" /\ start = "opened" /\ blocked[t] = "opened"
      <3>1. ~barrier /\ barrier' = TRUE /\ queue' = Append(queue, "opened") /\ blocked'["starter"] = "none"
        BY <2>1, <2>5 DEF BarrierSide, IsBarrier, EmitTypes
      <3>2. /\ Len(queue') = Len(queue) + 1 /\ queue'[Len(queue) + 1] = "opened" /\ Len(queue) \in Nat
            /\ \A i \in 1..Len(queue) : queue'[i] = queue[i]
        BY <3>1 DEF EmitTypes
      <3>3. ~Queued("STARTING")'
        BY <3>1, <3>2 DEF BarrierSide, Queued
      <3> QED
        BY <2>1, <2>5, <3>1, <3>3 DEF BarrierSide
    <2> QED
      BY <2>3, <2>4, <2>5 DEF IsBarrier
  <1> QED
    BY <1>1, <1>2, <1>3

LEMMA BarrierByRest ==
  ASSUME Types, Held, Places, Reading, Control, Background, Serves, BarrierSide, Story,
         \/ \E c \in Stoppers : StopCalled(c)
         \/ DatagramArrives \/ ReceiveFails \/ ReceiverStep \/ WorkerStep \/ HandoffStep \/ Sweeps
  PROVE  BarrierSide'
  <1>t. /\ StopTypes /\ EmitTypes /\ SocketHeld
        /\ {"starter", "receiver", "worker", "handoff"} \subseteq Tasks
        /\ Stoppers \subseteq Callers /\ "receiver" \in Callers
        /\ \A c \in Stoppers : c \notin {"starter", "receiver"}
        /\ Payload \cup {"closed"} \subseteq Events \ {"STARTING", "opened"}
    BY TaskAssumption DEF Types, Held, Tasks, Callers, TaskAssumption, Events, Payload
  <1> USE <1>t DEF runtimeVars, closeVars, taskVars, emitVars, workerVars
  <1>1. ASSUME NEW c \in Stoppers, StopCalled(c) PROVE BarrierSide'
    <2>1. CallsStop(c) /\ \E g : CallStop(c, g)
      BY <1>1 DEF StopCalled, CallsStop
    <2> QED
      BY <2>1, BarrierCalled
  <1>2. ASSUME NEW e \in Payload, NEW g, Reads, recv = "reading" \/ Ready("receiver"),
               Emit("receiver", e, g), UNCHANGED <<setup, start>>
        PROVE  BarrierSide'
    <2>1. ~stopping
      BY <1>2, ReadsServed
    <2>2. blocked["receiver"] = "none"
      BY <1>2 DEF Ready, Serves, Waiting, Publishes, Control, OwnSide
    <2>3. EmitIf("receiver", e, g, TRUE)
      BY <1>2, <2>1 DEF Emit
    <2> QED
      BY <1>2, <2>2, <2>3, BarrierEmits
  <1>3. CASE DatagramArrives
    <2>1. PICK g : Emit("receiver", "bytes", g)
      BY <1>3 DEF DatagramArrives
    <2> QED
      BY <1>2, <1>3, <2>1 DEF DatagramArrives, Reads, Payload
  <1>4. CASE ReceiveFails
    BY <1>2, <1>4 DEF ReceiveFails, Reads, Payload
  <1>5. ASSUME UNCHANGED <<setup, start, handler, blocked, barrier, queue>> PROVE BarrierSide'
    BY <1>5, BarrierKept
  <1>6. CASE ReceiverLoops \/ ReceiverEnds \/ HandoffEnds \/ Sweeps
    BY <1>5, <1>6 DEF ReceiverLoops, ReceiverEnds, HandoffEnds, Sweeps, EmitsNothing
  <1>7. CASE ReceiverExits
    <2>1. CASE running
      <3>1. CallsStop("receiver") /\ CallStop("receiver", ghost) /\ blocked["receiver"] = "none"
        BY <1>7, <2>1 DEF ReceiverExits, CallsStop, Ready
      <3> QED
        BY <3>1, BarrierCalled
    <2>2. CASE ~running
      BY <1>5, <1>7, <2>2 DEF ReceiverExits, EmitsNothing
    <2> QED
      BY <2>1, <2>2
  <1>8. CASE WorkerTakes
    <2>0. ~IsBarrier(handler["worker"]) /\ barrier' = barrier /\ barrier \in BOOLEAN
      BY <1>8 DEF WorkerTakes, IsBarrier, EmitTypes
    <2>1. barrier' = (barrier /\ ~IsBarrier(handler["worker"]))
      BY <2>0
    <2>2. handler'["worker"] = Head(queue)
      BY <1>8 DEF WorkerTakes, EmitTypes
    <2>3. /\ queue # <<>> /\ queue' = Tail(queue) /\ UNCHANGED <<setup, start, blocked>>
          /\ QueueInOrder
      BY <1>8 DEF WorkerTakes, Story
    <2> QED
      BY <2>1, <2>2, <2>3, BarrierTakes
  <1>9. CASE WorkerExits
    <2>1. UNCHANGED <<setup, handler, blocked, barrier, queue>> /\ (start' = start \/ start = "draining")
      BY <1>9 DEF WorkerExits
    <2> QED
      BY <2>1, BarrierKept DEF BarrierSide
  <1>10. CASE HandoffTakes
    <2>1. DeliversInline("handoff")
      BY DEF DeliversInline
    <2>2. /\ UNCHANGED <<setup, start, blocked, barrier, queue>>
          /\ \/ handler' = handler
             \/ handler' = [handler EXCEPT !["handoff"] = "closed"]
      BY <1>10, <2>1 DEF HandoffTakes, Emit, EmitIf
    <2>3. handler'["worker"] = handler["worker"]
      BY <2>2 DEF EmitTypes
    <2> QED
      BY <2>2, <2>3, BarrierKept
  <1> QED
    BY <1>1, <1>3, <1>4, <1>6, <1>7, <1>8, <1>9, <1>10
    DEF ReceiverStep, WorkerStep, HandoffStep

-----------------------------------------------------------------------------
(***************************************************************************)
(* What has been said of a life stays in its turn.  First the steps that    *)
(* say nothing, that drop what is queued, and that emit an event.           *)
(***************************************************************************)
\* No event becomes due again, and where start() and the deferred close have got to.
DueKept == \A e \in Events : Due(e)' => Due(e)
Goes ==
  /\ Listens' => Listens \/ start = "handoff"
  /\ start' = "handoff" => start = "handoff"
  /\ start' = "opened" =>
       /\ start = "opened" /\ (Background => Background')
       /\ Background /\ ~failed'["starter"] /\ blocked'["starter"] = "none" =>
            (~failed["starter"] /\ blocked["starter"] = "none") \/ Queued("opened")'
  /\ stop'.phase = "waiter" /\ start' \in {"handoff", "doomed"} =>
       stop.phase = "waiter" /\ start \in {"handoff", "doomed"}
  /\ start = "idle" => start' = "idle"

LEMMA SaidKept ==
  ASSUME SaidSoFar, DueKept, NEW x, \A f \in Events : Said(f)' => Said(f) \/ f = x, ~Due(x)'
  PROVE  SaidSoFar'
  BY DEF SaidSoFar, DueKept

LEMMA NothingSaid ==
  ASSUME SaidSoFar, DueKept, SaysNothing
  PROVE  SaidSoFar'
  BY DEF SaidSoFar, DueKept, SaysNothing

LEMMA StoryKept ==
  ASSUME Story, DueKept, Goes, queue' = queue, SameTold
  PROVE  Story'
  <1>1. QueueInOrder' /\ SaysNothing
    BY OrderKeeps DEF Story, Goes
  <1>2. SaidSoFar'
    BY <1>1, NothingSaid DEF Story
  <1>3. OpenedSaid'
    BY DEF Story, OpenedSaid, Goes, SameTold, Queued
  <1> QED
    BY <1>1, <1>2, <1>3 DEF Story

LEMMA StoryDrops ==
  ASSUME EmitTypes, Background, Story, DueKept, Goes, SameTold, DropsQueue, ~Fresh
  PROVE  Story'
  <1>0. queue' = <<>> /\ (Queued("opened") => failed'["starter"] = TRUE)
    BY DropsEffect DEF Background
  <1>1. queue' = <<>> /\ Len(queue') = 0 /\ (Queued("opened") => failed'["starter"] = TRUE)
    BY <1>0
  <1>2. QueueInOrder' /\ SaysNothing
    BY <1>1, OrderDrops DEF Story
  <1>3. SaidSoFar'
    BY <1>2, NothingSaid DEF Story
  <1>4. OpenedSaid'
    BY <1>1 DEF Story, OpenedSaid, Goes, SameTold
  <1> QED
    BY <1>2, <1>3, <1>4 DEF Story

\* An event comes in its turn when what must not come before it is still due.
Comes(e) ==
  /\ Due("STOPPED")
  /\ e \in {"RUNNING", "opened", "closed"} \cup Payload => Due("closed")
  /\ e \in {"RUNNING", "opened"} => Due("opened")
  /\ e \in {"RUNNING", "STOPPING"} => Due("STOPPING")
  /\ e = "RUNNING" => Due("RUNNING")

LEMMA StoppingMeets ==
  /\ Unordered("opened", "STOPPING") /\ Unordered("closed", "STOPPING")
  /\ Unordered("STOPPING", "opened") /\ Unordered("STOPPING", "closed")
  BY DEF Unordered

LEMMA ComesInTurn ==
  ASSUME SaidSoFar, NEW e \in Events \ {"STARTING"}, Comes(e)
  PROVE  \A f \in Events : Said(f) => Before(f, e)
  <1> SUFFICES ASSUME NEW f \in Events, Said(f) PROVE Before(f, e)
    OBVIOUS
  <1>1. ~Due(f)
    BY DEF SaidSoFar
  <1>2. \A x : Before(f, x) <=> IF x \in Payload THEN f \notin {"closed", "STOPPED"}
                               ELSE f \in Payload \/ Rank[f] < Rank[x] \/ Unordered(x, f)
    BY DEF Before
  <1>3. f # "STOPPED"
    BY <1>1 DEF Comes
  <1>4. CASE e \in Payload
    <2>1. f # "closed"
      BY <1>1, <1>4 DEF Comes
    <2> QED
      BY <1>2, <1>3, <1>4, <2>1
  <1>5. CASE e = "RUNNING"
    <2>1. f \in {"STARTING"} \cup Payload
      BY <1>1, <1>5 DEF Comes, Events
    <2> QED
      BY <1>2, <1>5, <2>1, Ranks DEF Payload
  <1>6. CASE e = "opened"
    <2>1. f \in {"STARTING", "RUNNING", "STOPPING"} \cup Payload
      BY <1>1, <1>3, <1>6 DEF Comes, Events
    <2> QED
      BY <1>2, <1>6, <2>1, Ranks, StoppingMeets DEF Payload
  <1>7. CASE e = "STOPPING"
    <2>1. f \in {"STARTING", "RUNNING", "opened", "closed"} \cup Payload
      BY <1>1, <1>3, <1>7 DEF Comes, Events
    <2> QED
      BY <1>2, <1>7, <2>1, Ranks, StoppingMeets DEF Payload
  <1>8. CASE e = "closed"
    <2>1. f \in {"STARTING", "RUNNING", "opened", "STOPPING"} \cup Payload
      BY <1>1, <1>3, <1>8 DEF Comes, Events
    <2> QED
      BY <1>2, <1>8, <2>1, Ranks, StoppingMeets DEF Payload
  <1>9. CASE e = "STOPPED"
    <2>1. f \in {"STARTING", "RUNNING", "opened", "STOPPING", "closed"} \cup Payload
      BY <1>1, <1>3, <1>9 DEF Comes, Events
    <2> QED
      BY <1>2, <1>9, <2>1, Ranks, StoppingMeets DEF Payload
  <1> QED
    BY <1>4, <1>5, <1>6, <1>7, <1>8, <1>9 DEF Events

LEMMA StoryAppends ==
  ASSUME EmitTypes, ghost \in Ghost, Story, NEW e \in Events \ {"STARTING"}, queue' = Append(queue, e), SameTold,
         Comes(e), e \in Payload => "opened" \in ghost.told /\ ~Fresh /\ start = "idle",
         DueKept, Goes, ~Due(e)',
         ~(stop'.phase = "waiter" /\ start' \in {"handoff", "doomed"})
  PROVE  Story'
  <1>1. \A f \in Events : Said(f) => Before(f, e)
    BY ComesInTurn DEF Story
  <1>2. QueueInOrder' /\ \A f \in Events : Said(f)' => Said(f) \/ f = e
    BY <1>1, OrderAppends DEF Story, Goes
  <1>3. SaidSoFar'
    BY <1>2, SaidKept DEF Story
  <1>4. Queued("opened") => Queued("opened")'
    <2>1. Len(queue') = Len(queue) + 1 /\ Len(queue) \in Nat /\ \A i \in 1..Len(queue) : queue'[i] = queue[i]
      BY DEF EmitTypes
    <2> QED
      BY <2>1 DEF Queued
  <1>5. OpenedSaid'
    BY <1>4 DEF Story, OpenedSaid, Goes, SameTold
  <1> QED
    BY <1>2, <1>3, <1>5 DEF Story

LEMMA StoryDelivers ==
  ASSUME EmitTypes, ghost \in Ghost, Story, NEW e \in Events \ {"STARTING"}, NEW g \in Ghost,
         g.told = ghost.told, g.disorder = ghost.disorder, ghost' = Begun(e, g), queue' = queue,
         Comes(e), e \in Payload => "opened" \in ghost.told,
         \A i \in 1..Len(queue) : queue[i] = "STOPPING" /\ e = "closed",
         DueKept, Goes, ~Due(e)'
  PROVE  Story'
  <1>1. \A f \in Events : Said(f) => Before(f, e)
    BY ComesInTurn DEF Story
  <1>2. ~Fresh
    <2>1. queue # <<>> => 1 \in 1..Len(queue)
      BY DEF EmitTypes
    <2> QED
      BY <2>1 DEF Fresh
  <1>3. \A i \in 1..Len(queue) : Before(e, queue[i])
    BY DEF Before, Unordered, Payload
  <1>4. QueueInOrder' /\ \A f \in Events : Said(f)' => Said(f) \/ f = e
    BY <1>1, <1>2, <1>3, OrderDelivers DEF Story, Goes
  <1>5. SaidSoFar'
    BY <1>4, SaidKept DEF Story
  <1>6. "opened" \in ghost.told => "opened" \in ghost'.told
    BY BegunTold
  <1>7. OpenedSaid'
    BY <1>6 DEF Story, OpenedSaid, Goes, Queued
  <1> QED
    BY <1>4, <1>5, <1>7 DEF Story

LEMMA StoryEmits ==
  ASSUME EmitTypes, ghost \in Ghost, Story, NEW t \in Tasks, NEW e \in Events \ {"STARTING"}, NEW g \in Ghost,
         g.told = ghost.told, g.disorder = ghost.disorder, NEW a \in BOOLEAN, EmitIf(t, e, g, a),
         Comes(e), e \in Payload => "opened" \in ghost.told /\ ~Fresh /\ start = "idle",
         IF DeliversInline(t)
         THEN \A i \in 1..Len(queue) : queue[i] = "STOPPING" /\ e = "closed"
         ELSE a /\ ~(stop'.phase = "waiter" /\ start' \in {"handoff", "doomed"}),
         DueKept, Goes, blocked' = blocked => ~Due(e)'
  PROVE  Story'
  <1>1. CASE DeliversInline(t)
    <2>1. ghost' = Begun(e, g) /\ queue' = queue /\ blocked' = blocked
      BY <1>1, EmitEffect
    <2> QED
      BY <1>1, <2>1, StoryDelivers
  <1>2. CASE ~DeliversInline(t)
    <2>1. /\ ghost' = g /\ SameTold
          /\ \/ queue' = Append(queue, e) /\ blocked' = blocked
             \/ queue' = queue
      BY ONLY EmitIf(t, e, g, a), <1>2, g.told = ghost.told, g.disorder = ghost.disorder DEF EmitIf, SameTold
    <2>2. CASE queue' = queue
      BY <2>1, <2>2, StoryKept
    <2>3. CASE queue' = Append(queue, e) /\ blocked' = blocked
      <3>1. ~Due(e)' /\ ~(stop'.phase = "waiter" /\ start' \in {"handoff", "doomed"})
        BY <1>2, <2>3
      <3>2. SameTold
        BY <2>1
      <3> QED
        BY <2>3, <3>1, <3>2, StoryAppends
    <2> QED
      BY <2>1, <2>2, <2>3
  <1> QED
    BY <1>1, <1>2

\* What is due in the current state, event by event.
LEMMA DueKeptBy ==
  ASSUME state' = "STARTING" => state = "STARTING", OpenedDue' => OpenedDue, StoppingDue' => StoppingDue,
         ClosedDue' => ClosedDue, StoppedDue' => StoppedDue
  PROVE  DueKept
  BY DEF DueKept, Due

LEMMA DueOf ==
  /\ Due("RUNNING") <=> state = "STARTING"
  /\ Due("opened") <=> OpenedDue
  /\ Due("STOPPING") <=> StoppingDue
  /\ Due("closed") <=> ClosedDue
  /\ Due("STOPPED") <=> StoppedDue
  /\ \A e \in Payload : ~Due(e)
  BY DEF Due, Payload

LEMMA DueAfter ==
  /\ Due("RUNNING")' <=> state' = "STARTING"
  /\ Due("opened")' <=> OpenedDue'
  /\ Due("STOPPING")' <=> StoppingDue'
  /\ Due("closed")' <=> ClosedDue'
  /\ Due("STOPPED")' <=> StoppedDue'
  /\ \A e \in Payload : ~Due(e)'
  BY DEF Due, Payload

\* A step that moves neither the life cycle nor the stop nor start().
LEMMA DueStays ==
  ASSUME state' \in {state, "STOPPED"}, stop'.phase = stop.phase, stop'.by = stop.by, stop'.deferred = stop.deferred,
         start' = "running" => start = "running", handoff' = "emitted" \/ handoff # "emitted",
         OpeningWaits' => OpeningWaits,
         blocked'[stop.by] = blocked[stop.by] \/ blocked'[stop.by] \notin {"STOPPING", "closed", "STOPPED"}
  PROVE  DueKept
  <1>1. OpenedDue' => OpenedDue
    BY DEF OpenedDue
  <1>2. StoppingDue' => StoppingDue
    BY DEF StoppingDue
  <1>3. ClosedDue' => ClosedDue
    BY DEF ClosedDue
  <1>4. StoppedDue' => StoppedDue
    BY DEF StoppedDue
  <1> QED
    BY <1>1, <1>2, <1>3, <1>4, DueKeptBy

\* start() waits for space in the background and at its opened barrier only.
LEMMA WhereOpeningWaits ==
  ASSUME Types, Places, Control, ServingSide
  PROVE  /\ blocked["starter"] = "opened" => start = "opened" /\ opening /\ Background
         /\ blocked[stop.by] \in {"STOPPING", "closed", "STOPPED"} => stop.phase \in {"teardown", "stopped", "drain"}
         /\ \A t \in Tasks : ~Background => blocked[t] = "none"
  <1>t. "starter" \in Tasks /\ stop.by \in Tasks
    BY DEF Tasks, Callers, Types, StopTypes, StopPlan
  <1>1. CASE ~Background
    BY <1>t, <1>1 DEF Places, Sides
  <1>2. CASE Background
    <2>1. Serves
      BY <1>2 DEF ServingSide
    <2>2. blocked["starter"] = "opened" => start = "opened"
      BY <1>t, <2>1 DEF Serves, Waiting, Awaited
    <2>3. blocked[stop.by] \in {"STOPPING", "closed", "STOPPED"} => stop.phase \in {"teardown", "stopped", "drain"}
      BY <1>t, <2>1 DEF Serves, Waiting, Awaited, Payload
    <2> QED
      BY <1>2, <2>2, <2>3 DEF Control, OpeningSide
  <1> QED
    BY <1>1, <1>2

\* A life is fresh only until start() goes on from its STARTING barrier.
LEMMA WhereFresh ==
  ASSUME Types, ServingSide, BarrierSide, Fresh
  PROVE  Background /\ Queued("STARTING") /\ start = "starting" /\ handler["worker"] = "none"
  <1>1. Background
    BY DEF Fresh, ServingSide
  <1>2. 1 \in 1..Len(queue)
    BY DEF Fresh, Types, EmitTypes
  <1>3. Queued("STARTING")
    BY <1>2 DEF Fresh, Queued
  <1> QED
    BY <1>1, <1>3 DEF BarrierSide

LEMMA StoryCalled ==
  ASSUME Types, Held, Places, Control, ServingSide, BarrierSide, Story, NEW t \in Callers, NEW g \in Ghost,
         g.told = ghost.told, g.disorder = ghost.disorder, CallStop(t, g), CallsStop(t),
         t = "receiver" => blocked[t] = "none", t = "starter" => handoff # "emitted"
  PROVE  Story'
  <1>t. /\ StopTypes /\ EmitTypes /\ ghost \in Ghost /\ SocketHeld /\ t \in Tasks /\ "starter" \in Tasks
        /\ stop.by \in Tasks
        /\ "STOPPING" \in Events \ {"STARTING"} /\ "STOPPING" \notin Payload
    BY DEF Types, Held, Tasks, Callers, Events, Payload, StopTypes, StopPlan
  <1> USE <1>t
  <1>1. blocked[t] = "none"
    <2>1. CASE Background
      BY <2>1, CallerUnblocked DEF ServingSide
    <2>2. CASE ~Background
      BY <2>2 DEF Places, Sides
    <2> QED
      BY <2>1, <2>2
  <1>2. /\ t # "starter" => start' = start
        /\ t = "starter" => start' \in {"stopping", "again"} /\ start # "idle"
        /\ (Reads' => Reads)
        /\ handoff' = handoff \/ handoff # "emitted"
        /\ setup' = setup
    BY DEF CallsStop, Reads
  <1>3. ASSUME t # "starter" => failed'["starter"] = failed["starter"] /\ blocked'["starter"] = blocked["starter"],
               stop'.phase = "waiter" => stop.phase = "waiter",
               task' => task, stop'.phase = "teardown" /\ stop'.cancels => task \/ stop' = stop
        PROVE  Goes
    <2>1. CASE t = "starter"
      <3>1. start' \in {"stopping", "again"} /\ start # "idle" /\ (Listens' => Listens)
        BY <1>2, <1>3, <2>1 DEF Listens
      <3> QED
        BY <3>1 DEF Goes
    <2>2. CASE t # "starter"
      <3>1. /\ start' = start /\ (Listens' => Listens)
            /\ failed'["starter"] = failed["starter"] /\ blocked'["starter"] = blocked["starter"]
        BY <1>2, <1>3, <2>2 DEF Listens
      <3> QED
        BY <1>2, <3>1, <1>3 DEF Goes, Background
    <2> QED
      BY <2>1, <2>2
  <1>4. CASE /\ UNCHANGED <<state, task, stop>> /\ EmitsNothing(t, g)
             /\ stopping' = stopping \/ stopping' = (stopping \/ Background)
    <2>1. UNCHANGED <<blocked, queue>> /\ SameTold /\ \A u \in Tasks : u # t => failed'[u] = failed[u]
      BY <1>4, NothingEffect DEF SameTold
    <2>2. Goes
      BY <1>3, <1>4, <2>1
    <2>3. OpeningWaits' => OpeningWaits
      BY <1>4, <2>1 DEF OpeningWaits
    <2>4. DueKept
      BY <1>2, <1>4, <2>1, <2>3, DueStays
    <2> QED
      BY <2>1, <2>2, <2>4, StoryKept
  <1>5. ASSUME NEW d \in BOOLEAN, Plans(t, d), d => ~Background, stopping' = stopping,
               IF d \/ state = "STOPPING" THEN EmitsNothing(t, g) ELSE EmitIf(t, "STOPPING", g, ~stopping)
        PROVE  Story'
    <2>1. /\ state \in {"STARTING", "RUNNING"} /\ stop.phase = "none" /\ (Background => ~stopping)
          /\ state' = "STOPPING" /\ stop'.phase = "teardown" /\ stop'.by = t /\ stop'.deferred = d
          /\ task' = FALSE /\ (stop'.cancels => task)
      BY <1>5 DEF Control, LifeSide, Plans, Types, RunTypes, Lifecycle, Owning
    <2>a. (~stopping) \in BOOLEAN /\ "STOPPING" \in Events
      BY DEF Types, WorkerTypes
    <2>2. /\ \A u \in Tasks : u # t => failed'[u] = failed[u] /\ blocked'[u] = blocked[u]
          /\ blocked'[t] \in {"none", "STOPPING"}
      <3>1. CASE EmitsNothing(t, g)
        BY <1>1, <3>1, NothingEffect
      <3>2. CASE EmitIf(t, "STOPPING", g, ~stopping)
        <4>1. \A u \in Tasks : u # t => failed'[u] = failed[u] /\ blocked'[u] = blocked[u]
          BY ONLY EmitTypes, t \in Tasks, <2>a, <3>2, EmitEffect
        <4>2. blocked' = blocked \/ blocked'[t] \in {"none", "STOPPING"}
          BY ONLY EmitTypes, t \in Tasks, <2>a, <3>2, EmitEffect
        <4> QED
          BY <1>1, <4>1, <4>2
      <3> QED
        BY <1>5, <3>1, <3>2
    <2>3. Goes
      BY <1>3, <2>1, <2>2
    <2>4. OpeningWaits' => OpeningWaits
      BY <1>5, <2>2 DEF OpeningWaits
    <2>5. DueKept
      <3>1. StoppingDue /\ ClosedDue /\ StoppedDue
        BY <2>1 DEF StoppingDue, ClosedDue, StoppedDue
      <3>2. OpenedDue' => OpenedDue
        BY <2>1, <2>4 DEF OpenedDue
      <3> QED
        BY <2>1, <3>1, <3>2, DueKeptBy
    <2>6. CASE d
      <3>1. queue' = queue /\ SameTold
        BY <1>5, <2>6 DEF EmitsNothing, SameTold
      <3> QED
        BY <2>3, <2>5, <3>1, StoryKept
    <2>7. CASE ~d
      <3>1. EmitIf(t, "STOPPING", g, ~stopping) /\ (~stopping) \in BOOLEAN
        BY <1>5, <2>1, <2>7 DEF Types, WorkerTypes
      <3>2. Comes("STOPPING")
        BY <1>t, <2>1, DueOf DEF Comes, StoppingDue, StoppedDue, Payload
      <3>3. IF DeliversInline(t)
            THEN \A i \in 1..Len(queue) : queue[i] = "STOPPING" /\ "STOPPING" = "closed"
            ELSE ~stopping /\ ~(stop'.phase = "waiter" /\ start' \in {"handoff", "doomed"})
        <4>1. CASE DeliversInline(t)
          <5>1. ~Background
            BY <4>1, TaskAssumption DEF DeliversInline, Callers, TaskAssumption
          <5>2. queue = <<>> /\ Len(queue) = 0
            BY <5>1 DEF ServingSide
          <5> QED
            BY <4>1, <5>2
        <4>2. CASE ~DeliversInline(t)
          BY <2>1, <4>2 DEF DeliversInline
        <4> QED
          BY <4>1, <4>2
      <3>4. blocked' = blocked => ~Due("STOPPING")'
        BY <1>1, <2>1, <2>7, DueAfter DEF StoppingDue, Holding
      <3> QED
        BY <2>3, <2>5, <3>1, <3>2, <3>3, <3>4, StoryEmits
    <2> QED
      BY <2>6, <2>7
  <1> QED
    BY <1>4, <1>5, CallStopCases


\* A life begins: its first event is told at once, or waits alone at the head of the queue.
LEMMA StoryBegins ==
  ASSUME Story, ghost'.disorder = ghost.disorder,
         \/ queue' = <<>> /\ ghost'.told = {"STARTING"}
         \/ queue' = <<"STARTING">> /\ ghost'.told = ghost.told,
         start' = "starting", ~Listens', stop'.phase # "waiter"
  PROVE  Story'
  <1>1. OpenedSaid'
    BY DEF OpenedSaid
  <1>2. ghost'.disorder = FALSE /\ ghost.told \cap Payload = {} /\ "STARTING" \notin Payload
    BY DEF Story, QueueInOrder, Payload
  <1>3. CASE queue' = <<>> /\ ghost'.told = {"STARTING"}
    <2>1. Len(queue') = 0
      BY <1>3
    <2>2. QueueInOrder'
      BY <1>2, <1>3, <2>1 DEF QueueInOrder
    <2>3. \A e \in Events : Said(e)' => e = "STARTING"
      BY <1>3, <2>1 DEF Said, Queued
    <2>4. SaidSoFar'
      BY <1>2, <2>3 DEF SaidSoFar, Due
    <2> QED
      BY <1>1, <2>2, <2>4 DEF Story
  <1>4. CASE queue' = <<"STARTING">> /\ ghost'.told = ghost.told
    <2>1. Len(queue') = 1 /\ queue'[1] = "STARTING" /\ Fresh'
      BY <1>4 DEF Fresh
    <2>2. QueueInOrder'
      BY <1>2, <1>4, <2>1 DEF QueueInOrder
    <2>3. \A e \in Events : Said(e)' => e = "STARTING"
      BY <2>1 DEF Said, Queued
    <2>4. SaidSoFar'
      BY <1>2, <2>3 DEF SaidSoFar, Due
    <2> QED
      BY <1>1, <2>2, <2>4 DEF Story
  <1> QED
    BY <1>3, <1>4

\* The opened event is published: its barrier is taken, or waited for.
LEMMA StoryOpens ==
  ASSUME Types, ghost \in Ghost, Control, ServingSide, Story, start = "running", start' = "opened",
         state = "RUNNING", UNCHANGED <<setup, state, task, stop, recv, handoff, stopping>>,
         blocked["starter"] = "none", EmitIf("starter", "opened", ghost, ~stopping)
  PROVE  Story'
  <1>t. /\ EmitTypes /\ "starter" \in Tasks /\ "opened" \in Events \ {"STARTING"} /\ "opened" \notin Payload
        /\ (~stopping) \in BOOLEAN
    BY DEF Types, WorkerTypes, Tasks, Callers, Events, Payload
  <1>1. stop.phase = "none" /\ (Background => ~stopping) /\ ~Listens'
    BY DEF Control, LifeSide, Listens, Reads
  <1>2. OpenedDue /\ StoppingDue /\ ClosedDue /\ StoppedDue /\ state' # "STARTING"
    BY DEF OpenedDue, StoppingDue, ClosedDue, StoppedDue
  <1>3. DueKept
    BY <1>2, DueKeptBy
  <1>4. \A f \in Events : Said(f) => Before(f, "opened")
    <2>1. Comes("opened")
      BY <1>t, <1>2, DueOf DEF Comes
    <2> QED
      BY <1>t, <2>1, ComesInTurn DEF Story
  <1>5. blocked' = blocked => ~Due("opened")'
    BY <1>1, DueAfter DEF OpenedDue, OpeningWaits
  <1>6. CASE DeliversInline("starter")
    <2>1. ghost' = Begun("opened", ghost) /\ UNCHANGED <<blocked, queue>>
      BY <1>t, <1>6, EmitEffect
    <2>2. queue = <<>> /\ Len(queue) = 0
      BY <1>6, TaskAssumption DEF DeliversInline, ServingSide, TaskAssumption
    <2>3. ~Fresh
      BY <2>2 DEF Fresh
    <2>4. QueueInOrder' /\ \A f \in Events : Said(f)' => Said(f) \/ f = "opened"
      BY <1>t, <1>4, <2>1, <2>2, <2>3, OrderDelivers DEF Story
    <2>5. SaidSoFar'
      BY <1>3, <1>5, <2>1, <2>4, SaidKept DEF Story
    <2>6. "opened" \in ghost'.told
      <3>1. Begun("opened", ghost).told = ghost.told \cup {"opened"}
        BY ONLY <1>t, BegunTold, ghost \in Ghost
      <3> QED
        BY <2>1, <3>1
    <2>7. OpenedSaid'
      BY <1>1, <2>6 DEF OpenedSaid
    <2> QED
      BY <2>4, <2>5, <2>7 DEF Story
  <1>7. CASE ~DeliversInline("starter")
    <2>0. ~stopping
      BY <1>1, <1>7 DEF DeliversInline
    <2>1. /\ ghost' = ghost
          /\ \/ queue' = Append(queue, "opened") /\ blocked' = blocked
             \/ queue' = queue /\ blocked'["starter"] = "opened"
      BY <1>t, <1>7, <2>0, EmitEffect
    <2>2. CASE queue' = Append(queue, "opened") /\ blocked' = blocked
      <3>1. QueueInOrder' /\ \A f \in Events : Said(f)' => Said(f) \/ f = "opened"
        BY <1>t, <1>4, <2>1, <2>2, OrderAppends DEF Story, SameTold
      <3>2. SaidSoFar'
        BY <1>3, <1>5, <2>2, <3>1, SaidKept DEF Story
      <3>3. Len(queue') = Len(queue) + 1 /\ queue'[Len(queue) + 1] = "opened" /\ Len(queue) \in Nat
        BY <1>t, <2>2 DEF EmitTypes
      <3>4. Queued("opened")'
        BY <3>3 DEF Queued
      <3>5. OpenedSaid'
        BY <1>1, <3>4 DEF OpenedSaid
      <3> QED
        BY <3>1, <3>2, <3>5 DEF Story
    <2>3. CASE queue' = queue /\ blocked'["starter"] = "opened"
      <3>1. QueueInOrder' /\ SaysNothing
        BY <2>1, <2>3, OrderKeeps DEF Story, SameTold
      <3>2. SaidSoFar'
        BY <1>3, <3>1, NothingSaid DEF Story
      <3>3. OpenedSaid'
        BY <1>1, <1>7, <2>3 DEF OpenedSaid, DeliversInline, Background
      <3> QED
        BY <3>1, <3>2, <3>3 DEF Story
    <2> QED
      BY <2>1, <2>2, <2>3
  <1> QED
    BY <1>6, <1>7


\* When the opened barrier is over nothing is queued that a deferred close would overtake.
LEMMA OnlyStopping ==
  ASSUME Types, Places, Control, ServingSide, BarrierSide, Story, start = "opened", stop.phase = "waiter",
         ~barrier, failed["starter"] \/ "opened" \in ghost.told
  PROVE  \A i \in 1..Len(queue) : queue[i] = "STOPPING"
  <1>t. "starter" \in Tasks /\ EmitTypes /\ StopTypes
    BY DEF Tasks, Callers, Types
  <1>1. CASE ~Background
    <2>1. queue = <<>> /\ Len(queue) = 0
      BY <1>1 DEF ServingSide
    <2> QED
      BY <2>1
  <1>2. CASE Background /\ failed["starter"]
    <2>1. stopping
      BY <1>2 DEF ServingSide, Serves, Served
    <2>2. stop.deferred
      BY <1>2, <2>1 DEF ServingSide, Serves, Served
    <2>3. queue = <<>> /\ Len(queue) = 0
      BY <1>2, <2>2 DEF ServingSide, Serves, Served, Holding
    <2> QED
      BY <2>3
  <1>3. CASE Background /\ "opened" \in ghost.told
    <2> SUFFICES ASSUME NEW i \in 1..Len(queue) PROVE queue[i] = "STOPPING"
      OBVIOUS
    <2>1. queue[i] \in Events /\ Queued(queue[i])
      BY <1>t DEF EmitTypes, Queued
    <2>2. ~Fresh
      BY WhereFresh
    <2>3. queue[i] \notin {"STARTING", "opened"}
      BY <1>3, <2>1 DEF BarrierSide
    <2>4. queue[i] \notin Payload
      BY DEF Story, QueueInOrder
    <2>5. queue[i] # "RUNNING"
      <3>1. Before("opened", queue[i])
        BY <1>3, <2>2 DEF Story, QueueInOrder
      <3>2. ~Before("opened", "RUNNING")
        BY Ranks DEF Before, Unordered, Payload
      <3> QED
        BY <3>1, <3>2
    <2>6. handoff = "none"
      BY DEF Places, HandoffPlaced
    <2>7. queue[i] \notin {"closed", "STOPPED"}
      <3>1. ClosedDue /\ StoppedDue
        BY <2>6 DEF ClosedDue, StoppedDue, Owning
      <3>2. ~Said("closed") /\ ~Said("STOPPED")
        BY <3>1, DueOf DEF Story, SaidSoFar, Events
      <3> QED
        BY <2>1, <3>2 DEF Said
    <2> QED
      BY <2>1, <2>3, <2>4, <2>5, <2>7 DEF Events
  <1> QED
    BY <1>1, <1>2, <1>3

LEMMA StoryHandsOff ==
  ASSUME Types, Held, Places, Control, ServingSide, BarrierSide, Story, HandsOff
  PROVE  Story'
  <1>t. EmitTypes /\ "starter" \in Tasks /\ ghost \in Ghost
    BY DEF Types, Held, Tasks, Callers
  <1>1. /\ start = "opened" /\ blocked["starter"] = "none" /\ ~barrier
        /\ start' = IF failed["starter"] THEN "doomed" ELSE "handoff"
        /\ EmitsNothing("starter", ghost)
        /\ UNCHANGED <<state, task, stop, recv, stopping>>
    BY DEF HandsOff, Ready, runtimeVars, workerVars
  <1>2. UNCHANGED <<handler, blocked, queue>> /\ ghost' = ghost
    BY <1>1, <1>t DEF EmitsNothing
  <1>3. handoff = "none"
    BY <1>1 DEF Places, HandoffPlaced
  <1>4. QueueInOrder' /\ SaysNothing
    BY <1>1, <1>2, OrderKeeps DEF Story, SameTold
  <1>5. DueKept
    <2>1. OpeningWaits' => OpeningWaits
      BY <1>1, <1>2 DEF OpeningWaits
    <2> QED
      BY <1>1, <1>2, <1>3, <2>1, DueStays
  <1>6. SaidSoFar'
    BY <1>4, <1>5, NothingSaid DEF Story
  <1>7. ~failed["starter"] => "opened" \in ghost.told
    <2>1. ~Queued("opened")
      <3>1. CASE Background
        BY <1>1, <3>1 DEF BarrierSide
      <3>2. CASE ~Background
        <4>1. Len(queue) = 0
          BY <3>2 DEF ServingSide
        <4> QED
          BY <4>1 DEF Queued
      <3> QED
        BY <3>1, <3>2
    <2> QED
      BY <1>1, <2>1 DEF Story, OpenedSaid
  <1>8. OpenedSaid'
    <2>1. ~Listens'
      BY <1>1 DEF Control, LifeSide, Listens, Reads
    <2>2. start' = "handoff" => "opened" \in ghost'.told
      BY <1>1, <1>2, <1>7
    <2>3. start' # "opened"
      BY <1>1
    <2>4. stop'.phase = "waiter" => \A i \in 1..Len(queue') : queue'[i] = "STOPPING"
      BY <1>1, <1>2, <1>7, OnlyStopping
    <2> QED
      BY <2>1, <2>2, <2>3, <2>4 DEF OpenedSaid
  <1> QED
    BY <1>4, <1>6, <1>8 DEF Story

LEMMA StoryByStart ==
  ASSUME Types, Held, Places, Reading, LeaveInv, Plain, Control, ServingSide, BarrierSide, Story,
         StartCalled \/ StartStep
  PROVE  Story'
  <1>t. /\ EmitTypes /\ StopTypes /\ SocketHeld /\ ghost \in Ghost /\ (~stopping) \in BOOLEAN
        /\ "starter" \in Tasks /\ "starter" \in Callers
        /\ {"RUNNING", "STOPPED", "opened"} \subseteq Events \ {"STARTING"}
        /\ "RUNNING" \notin Payload /\ "STOPPED" \notin Payload
    BY DEF Types, Held, WorkerTypes, Tasks, Callers, Events, Payload
  <1> USE <1>t DEF runtimeVars, closeVars, taskVars, emitVars, workerVars
  <1>1. CASE StartCalled
    <2>1. stop.phase = "none" /\ ~sweeper /\ start = "idle" /\ state \in {"STOPPED", "STOPPING"}
      BY <1>1, NothingToCancel DEF StartCalled, StopUnderWay
    <2>2. state = "STOPPED" /\ worker = "none" /\ ~Reads /\ ~task
      BY <2>1 DEF Control, LifeSide, Owning, Reading, Unwinds
    <2>3. PICK g : g = [ghost EXCEPT !.starts = @ + 1]
      OBVIOUS
    <2>4. /\ start' = "starting" /\ stop' = stop /\ task' = task /\ recv' = recv /\ setup' = setup
          /\ stopping' = (stopping /\ ~(Background /\ worker = "none"))
          /\ EmitIf("starter", "STARTING", g, ~stopping')
      BY <1>1, <2>2, <2>3 DEF StartCalled
    <2>5. g.told = ghost.told /\ g.disorder = ghost.disorder /\ g \in Ghost
      BY <2>3 DEF Ghost
    <2>6. ~Listens' /\ stop'.phase # "waiter"
      BY <2>1, <2>2, <2>4 DEF Listens, Reads
    <2>7. CASE Background
      <3>1. queue = <<>> /\ stopping' = FALSE /\ ~DeliversInline("starter")
        BY <2>2, <2>4, <2>7, TaskAssumption DEF ServingSide, Serves, Served, DeliversInline, TaskAssumption, Control, OwnSide
      <3>2. ghost' = g /\ queue' = Append(queue, "STARTING")
        BY <2>4, <3>1, RoomAssumption DEF EmitIf
      <3>3. queue' = <<"STARTING">>
        BY <3>1, <3>2
      <3> QED
        BY <2>4, <2>5, <2>6, <3>2, <3>3, StoryBegins
    <2>8. CASE ~Background
      <3>1. queue = <<>>
        BY <2>8 DEF ServingSide
      <3>2. ghost' = Begun("STARTING", g) /\ queue' = queue
        BY <2>4, <2>8 DEF EmitIf, DeliversInline
      <3>3. "STARTING" \in Events /\ InTurn("STARTING", g.told)
        BY DEF Events, InTurn, Payload
      <3>4. ghost'.disorder = g.disorder /\ ghost'.told = {"STARTING"}
        <4>1. g.disorder \in BOOLEAN
          BY <2>5 DEF Ghost
        <4> QED
          BY <2>5, <3>2, <3>3, <4>1, BegunTold
      <3> QED
        BY <2>4, <2>5, <2>6, <3>1, <3>2, <3>4, StoryBegins
    <2> QED
      BY <2>7, <2>8
  <1>2. ASSUME state' \in {state, "STOPPED"}, UNCHANGED <<stop, blocked, queue, ghost>>,
               stopping' = stopping \/ stopping' = (stopping \/ Background),
               start' \notin {"running", "handoff", "doomed", "opened"}, start = "idle" => start' = "idle",
               Listens' => Listens \/ start = "handoff",
               handoff' = handoff \/ handoff # "emitted"
        PROVE  Story'
    <2>1. SameTold
      BY <1>2 DEF SameTold
    <2>2. Goes
      BY <1>2 DEF Goes
    <2>3. OpeningWaits' => OpeningWaits
      BY <1>2 DEF OpeningWaits
    <2>4. DueKept
      BY <1>2, <2>3, DueStays
    <2> QED
      BY <1>2, <2>1, <2>2, <2>4, StoryKept
  <1>3. CASE StartRollsBack \/ StartFails
    BY <1>2, <1>3 DEF StartRollsBack, StartFails, StartStopsDispatcher, EmitsNothing, Listens, Reads
  <1>4. CASE StartOvertaken \/ StartEnds
    BY <1>2, <1>4 DEF StartOvertaken, StartEnds, Listens, Reads
  <1>5. CASE StartSucceeds
    BY <1>2, <1>5 DEF StartSucceeds, Listens, Reads
  <1>6. CASE Opens
    <2>1. CASE StillRunning
      BY <1>6, <2>1, StoryOpens DEF Opens, StillRunning, Ready, Emit
    <2>2. CASE ~StillRunning
      BY <1>2, <1>6, <2>2 DEF Opens, Listens, Reads
    <2> QED
      BY <2>1, <2>2
  <1>7. CASE HandsOff
    BY <1>7, StoryHandsOff
  <1>8. CASE StartStops
    <2>1. CallsStop("starter") /\ CallStop("starter", ghost)
      BY <1>8, TaskAssumption DEF StartStops, CallsStop, TaskAssumption
    <2>2. handoff # "emitted"
      BY <1>8 DEF StartStops, HandedOff, Places, HandoffPlaced
    <2> QED
      BY <2>1, <2>2, StoryCalled
  <1>9. ASSUME start = "starting", state = "STARTING", start' \in {"running", "failing"}, stop' = stop, recv' = recv, task' = task,
               stopping' = stopping, blocked["starter"] = "none",
               NEW e \in {"RUNNING", "STOPPED"}, NEW g \in Ghost, g.told = ghost.told, g.disorder = ghost.disorder,
               EmitIf("starter", e, g, ~stopping), setup' = setup,
               IF e = "RUNNING" THEN state' = "RUNNING" ELSE state' = "STOPPED" /\ start' = "failing"
        PROVE  Story'
    <2>1. stop.phase = "none" /\ (Background => ~stopping)
      BY <1>9 DEF Control, LifeSide
    <2>2. OpenedDue /\ StoppingDue /\ ClosedDue /\ StoppedDue
      BY <1>9 DEF OpenedDue, StoppingDue, ClosedDue, StoppedDue
    <2>3. Comes(e)
      BY <1>9, <2>2, DueOf DEF Comes
    <2>4. DueKept
      BY <1>9, <2>2, DueKeptBy
    <2>5. Goes
      BY <1>9, <2>1 DEF Goes, Listens, Reads
    <2>6. blocked' = blocked => ~Due(e)'
      BY <1>9, <2>1, DueAfter DEF StoppedDue, Owning, OpeningWaits
    <2>7. IF DeliversInline("starter")
          THEN \A i \in 1..Len(queue) : queue[i] = "STOPPING" /\ e = "closed"
          ELSE ~stopping /\ ~(stop'.phase = "waiter" /\ start' \in {"handoff", "doomed"})
      <3>1. CASE DeliversInline("starter")
        <4>1. ~Background
          BY <3>1, TaskAssumption DEF DeliversInline, TaskAssumption
        <4>2. queue = <<>> /\ Len(queue) = 0
          BY <4>1 DEF ServingSide
        <4> QED
          BY <3>1, <4>2
      <3>2. CASE ~DeliversInline("starter")
        BY <1>9, <2>1, <3>2 DEF DeliversInline
      <3> QED
        BY <3>1, <3>2
    <2> QED
      BY <1>9, <2>3, <2>4, <2>5, <2>6, <2>7, StoryEmits
  <1>10. CASE Binds
    <2>1. PICK g : g = [ghost EXCEPT !.open = @ + 1]
      OBVIOUS
    <2>2. g \in Ghost /\ g.told = ghost.told /\ g.disorder = ghost.disorder
      BY <2>1 DEF Ghost
    <2>3. /\ start = "starting" /\ blocked["starter"] = "none" /\ state = "STARTING"
          /\ state' = "RUNNING" /\ start' = "running" /\ EmitIf("starter", "RUNNING", g, ~stopping)
          /\ UNCHANGED <<setup, task, stop, recv, stopping>>
      BY <1>10, <2>1 DEF Binds, Ready, Emit
    <2> QED
      BY <1>9, <2>2, <2>3
  <1>11. CASE BindFails
    <2>1. /\ start = "starting" /\ blocked["starter"] = "none" /\ state = "STARTING"
          /\ state' = "STOPPED" /\ start' = "failing" /\ EmitIf("starter", "STOPPED", ghost, ~stopping)
          /\ UNCHANGED <<setup, task, stop, recv, stopping>>
      BY <1>11 DEF BindFails, Ready, Emit
    <2> QED
      BY <1>9, <2>1
  <1> QED
    BY <1>1, <1>3, <1>4, <1>5, <1>6, <1>7, <1>8, <1>10, <1>11 DEF StartStep


\* In the background nobody executes a stop while start() awaits its opened barrier in
\* the same task.
LEMMA ExecutorNotOpening ==
  ASSUME Types, Control, ServingSide, Background, stop.phase # "none"
  PROVE  stop.by = "starter" => start # "opened"
  <1>1. CASE stop.deferred
    BY <1>1 DEF ServingSide, Serves, Served
  <1>2. CASE ~stop.deferred
    BY <1>2 DEF Control, OwnSide
  <1> QED
    BY <1>1, <1>2

\* The owned stop closes the socket.
LEMMA StoryClosed ==
  ASSUME Types, Held, Control, ServingSide, BarrierSide, Story, stop.phase \in Holding, Closed, Carried, SameTold,
         UNCHANGED <<setup, state, task, start, recv, handoff, handler, blocked>>
  PROVE  Story'
  <1>t. EmitTypes /\ StopTypes /\ SocketHeld /\ stop.by \in Tasks /\ "starter" \in Tasks
    BY DEF Types, Held, StopTypes, StopPlan, Tasks, Callers
  <1>1. state = "STOPPING" /\ stop'.phase \in {"context", "close", "stopped"}
    BY DEF Held, SocketHeld, Holding, Owning, Closed
  <1>2. ClosedDue /\ StoppedDue
    BY DEF ClosedDue, StoppedDue, Holding, Owning
  <1>3. \/ /\ stop.deferred /\ stop'.phase = "context" /\ DropsQueue
        \/ /\ ~stop.deferred /\ stop'.phase # "context" /\ Cleared(stop.by) /\ UNCHANGED <<queue, stopping>>
    BY DEF Closed
  <1>4. stopping => stopping'
    <2>1. DropsQueue => stopping' = (stopping \/ Background)
      BY DEF DropsQueue
    <2> QED
      BY <1>3, <2>1
  <1>5. OpeningWaits' => OpeningWaits
    BY <1>4 DEF OpeningWaits
  <1>6. DueKept
    <2>1. StoppingDue' => StoppingDue
      BY <1>1, <1>3 DEF StoppingDue, Holding
    <2>2. OpenedDue' => OpenedDue
      BY <1>5 DEF OpenedDue
    <2> QED
      BY <1>2, <2>1, <2>2, DueKeptBy
  <1>7. ASSUME Background, failed["starter"], start = "opened" PROVE failed'["starter"]
    <2>1. CASE stop.deferred
      <3>1. DropsQueue
        BY <1>3, <2>1
      <3> QED
        BY <1>7, <1>t, <3>1, DropsEffect
    <2>2. CASE ~stop.deferred
      <3>1. stop.by # "starter"
        BY <1>7, ExecutorNotOpening DEF Holding
      <3> QED
        BY <1>3, <1>7, <1>t, <2>2, <3>1 DEF Cleared
    <2> QED
      BY <2>1, <2>2
  <1>8. Goes
    <2>1. Listens' => Listens
      BY <1>1 DEF Listens, Reads
    <2> QED
      BY <1>1, <1>7, <2>1 DEF Goes, Background
  <1>9. CASE queue' = queue
    BY <1>6, <1>8, <1>9, StoryKept
  <1>10. CASE stop.deferred /\ DropsQueue /\ Background
    <2>1. handler["worker"] # "none"
      BY <1>10 DEF ServingSide, Serves, Served
    <2>2. ~Fresh
      BY <2>1, WhereFresh
    <2> QED
      BY <1>t, <1>6, <1>8, <1>10, <2>2, StoryDrops
  <1> QED
    BY <1>3, <1>9, <1>10 DEF DropsQueue

\* The owned stop publishes one of its events, or none.
LEMMA StoryPublished ==
  ASSUME Types, Held, Places, Control, ServingSide, Story, stop.phase \notin {"none"} \cup Holding,
         stop'.phase \notin {"teardown", "waiter"}, UNCHANGED <<setup, task, start, recv>>, DueKept,
         NEW e \in {"STOPPING", "closed", "STOPPED"},
         \/ EmitsNothing(stop.by, ghost)
         \/ /\ stop.phase \notin {"draining", "drained"} /\ EmitIf(stop.by, e, ghost, ~stopping) /\ Comes(e)
            /\ blocked' = blocked => ~Due(e)'
  PROVE  Story'
  <1>t. /\ EmitTypes /\ StopTypes /\ ghost \in Ghost /\ stop.by \in Tasks /\ "starter" \in Tasks
        /\ e \in Events \ {"STARTING"} /\ e \notin Payload /\ ~IsBarrier(e) /\ (~stopping) \in BOOLEAN
    BY DEF Types, Held, StopTypes, StopPlan, WorkerTypes, Tasks, Callers, Events, Payload, IsBarrier
  <1>1. stop.by = "starter" /\ Background => start # "opened"
    BY ExecutorNotOpening
  <1>2. \A u \in Tasks : u # stop.by => failed'[u] = failed[u] /\ blocked'[u] = blocked[u]
    <2>1. CASE EmitsNothing(stop.by, ghost)
      BY <1>t, <2>1, NothingEffect
    <2>2. CASE EmitIf(stop.by, e, ghost, ~stopping)
      <3>1. \A u \in Tasks : u # stop.by => failed'[u] = failed[u] /\ blocked'[u] = blocked[u]
        BY ONLY <1>t, <2>2, EmitEffect
      <3> QED
        BY <3>1
    <2> QED
      BY <2>1, <2>2
  <1>3. Goes
    <2>1. Listens' => Listens
      BY DEF Listens, Reads
    <2>2. /\ Background /\ start = "opened" =>
               failed'["starter"] = failed["starter"] /\ blocked'["starter"] = blocked["starter"]
          /\ Background' = Background
      BY <1>t, <1>1, <1>2 DEF Background
    <2> QED
      BY <2>1, <2>2 DEF Goes
  <1>4. CASE EmitsNothing(stop.by, ghost)
    <2>1. queue' = queue /\ SameTold
      BY <1>4 DEF EmitsNothing, SameTold
    <2> QED
      BY <1>3, <2>1, StoryKept
  <1>5. CASE /\ stop.phase \notin {"draining", "drained"} /\ EmitIf(stop.by, e, ghost, ~stopping) /\ Comes(e)
             /\ blocked' = blocked => ~Due(e)'
    <2>1. IF DeliversInline(stop.by)
          THEN \A i \in 1..Len(queue) : queue[i] = "STOPPING" /\ e = "closed"
          ELSE ~stopping /\ ~(stop'.phase = "waiter" /\ start' \in {"handoff", "doomed"})
      <3>1. CASE ~Background
        <4>1. queue = <<>> /\ Len(queue) = 0 /\ DeliversInline(stop.by)
          BY <3>1 DEF ServingSide, DeliversInline
        <4> QED
          BY <4>1
      <3>2. CASE Background /\ stop.deferred
        <4>1. queue = <<>> /\ Len(queue) = 0 /\ DeliversInline(stop.by)
          BY <3>2 DEF ServingSide, Serves, Served, DeliversInline
        <4> QED
          BY <4>1
      <3>3. CASE Background /\ ~stop.deferred
        <4>1. stop.by \in Callers /\ ~stopping
          BY <1>5, <3>3 DEF Control, OwnSide, ServingSide, Serves, Served
        <4>2. ~DeliversInline(stop.by)
          BY <3>3, <4>1, TaskAssumption DEF DeliversInline, Callers, TaskAssumption
        <4> QED
          BY <4>1, <4>2
      <3> QED
        BY <3>1, <3>2, <3>3
    <2>2. ghost.told = ghost.told /\ ghost.disorder = ghost.disorder
      OBVIOUS
    <2> QED
      BY <1>t, <1>3, <1>5, <2>1, <2>2, StoryEmits
  <1> QED
    BY <1>4, <1>5


\* The owned stop leaves its closed event to start().
LEMMA StoryDeferred ==
  ASSUME Types, Control, ServingSide, Story, stop.phase = "close", stop'.phase = "waiter", opening,
         UNCHANGED <<setup, state, task, start, recv, handoff, stopping>>, UNCHANGED emitVars
  PROVE  Story'
  <1> USE DEF emitVars
  <1>1. QueueInOrder' /\ SaysNothing
    BY OrderKeeps DEF Story, SameTold
  <1>2. DueKept
    <2>1. ClosedDue /\ StoppedDue
      BY DEF ClosedDue, StoppedDue, Owning
    <2>2. (OpenedDue' => OpenedDue) /\ (StoppingDue' => StoppingDue)
      BY DEF OpenedDue, StoppingDue, OpeningWaits, Holding
    <2> QED
      BY <2>1, <2>2, DueKeptBy
  <1>3. SaidSoFar'
    BY <1>1, <1>2, NothingSaid DEF Story
  <1>4. start \in {"handoff", "doomed"} => queue = <<>>
    <2>1. CASE ~Background
      BY <2>1 DEF ServingSide
    <2>2. CASE Background
      BY <2>2 DEF Control, OpeningSide, ServingSide, Serves, Served, Holding
    <2> QED
      BY <2>1, <2>2
  <1>5. start' \in {"handoff", "doomed"} => Len(queue') = 0
    BY <1>4
  <1>6. Listens' => Listens
    BY DEF Listens, Reads
  <1>7. OpenedSaid'
    BY <1>5, <1>6 DEF Story, OpenedSaid, Background, Queued
  <1> QED
    BY <1>1, <1>3, <1>7 DEF Story

LEMMA StoryByStop ==
  ASSUME Types, Held, Places, LeaveInv, Plain, Control, ServingSide, BarrierSide, Story, StopStep
  PROVE  Story'
  <1>t. /\ StopTypes /\ EmitTypes /\ ghost \in Ghost /\ SocketHeld /\ stop.by \in Tasks /\ "starter" \in Tasks
        /\ "receiver" \in Tasks
    BY DEF Types, Held, StopTypes, StopPlan, Tasks, Callers
  <1> USE <1>t DEF runtimeVars, closeVars, taskVars, workerVars
  <1>1. CASE TearsDown
    <2>1. /\ stop.phase = "teardown" /\ Carried /\ SameTold
          /\ UNCHANGED <<setup, state, task, start, handoff, handler>>
      BY <1>1, TearsDownEffect
    <2>2. CASE Closed /\ UNCHANGED <<recv, blocked>>
      BY <2>1, <2>2, StoryClosed DEF Holding
    <2>3. CASE /\ stop.cancels /\ recv' = "cancelled" /\ stop'.phase = "reader" /\ stop'.by = stop.by
               /\ blocked'["receiver"] = "none"
               /\ \A u \in Tasks : u # "receiver" => blocked'[u] = blocked[u]
               /\ Cleared(stop.by)
               /\ UNCHANGED <<barrier, queue, stopping, pc>>
      <3>1. start = "idle"
        BY <2>1, <2>3 DEF Control, LifeSide
      <3>2. Goes
        BY <2>1, <2>3, <3>1 DEF Goes, Listens
      <3>3. ClosedDue /\ StoppedDue
        BY <2>1 DEF ClosedDue, StoppedDue, Owning
      <3>4. ~OpeningWaits'
        BY <2>1, <2>3, <3>1, WhereOpeningWaits, TaskAssumption DEF OpeningWaits, TaskAssumption
      <3>5. (OpenedDue' => OpenedDue) /\ (StoppingDue' => StoppingDue)
        BY <2>1, <2>3, <3>1, <3>4 DEF OpenedDue, StoppingDue, Holding, Carried
      <3>6. DueKept
        <4>1. state' = "STARTING" => state = "STARTING"
          BY <2>1
        <4> QED
          BY <3>3, <3>5, <4>1, DueKeptBy
      <3> QED
        BY <2>1, <2>3, <3>2, <3>6, StoryKept
    <2> QED
      BY <1>1, <2>2, <2>3, TearsDownEffect
  <1>2. CASE ReceiverGone
    <2>1. /\ stop.phase = "reader" /\ Carried /\ SameTold /\ Closed
          /\ UNCHANGED <<setup, state, task, start, recv, handoff, handler, blocked>>
      BY <1>2, ReceiverGoneEffect
    <2> QED
      BY <2>1, StoryClosed DEF Holding
  <1>3. CASE HandlersGone
    <2>1. /\ stop.phase = "context" /\ stop'.phase = "close" /\ stop'.by = stop.by /\ stop.by = "completer"
          /\ \/ EmitIf("completer", "STOPPING", ghost, ~stopping)
             \/ EmitsNothing("completer", ghost)
          /\ UNCHANGED <<setup, state, task, start, recv, handoff, stopping>>
      BY <1>3, HandlersGoneEffect DEF SocketHeld
    <2>2. stop.deferred /\ DeliversInline("completer")
      BY <2>1, TaskAssumption DEF Control, OwnSide, DeliversInline, Callers, TaskAssumption
    <2>3. blocked' = blocked
      BY <2>1, <2>2 DEF EmitIf, EmitsNothing
    <2>4. StoppingDue /\ ClosedDue /\ StoppedDue /\ state = "STOPPING"
      BY <2>1 DEF StoppingDue, ClosedDue, StoppedDue, SocketHeld, Owning
    <2>5. DueKept
      <3>1. OpenedDue' => OpenedDue
        BY <2>1, <2>3 DEF OpenedDue, OpeningWaits
      <3> QED
        BY <2>1, <2>4, <3>1, DueKeptBy
    <2>6. Comes("STOPPING")
      BY <2>4, DueOf DEF Comes, Payload
    <2>7. ~Due("STOPPING")'
      BY <2>1, <2>4, DueAfter DEF StoppingDue, Holding
    <2>8. stop.phase \notin {"none"} \cup Holding /\ stop.phase \notin {"draining", "drained"}
          /\ stop'.phase \notin {"teardown", "waiter"}
      BY <2>1 DEF Holding
    <2> QED
      BY <2>1, <2>5, <2>6, <2>7, <2>8, StoryPublished
  <1>4. CASE Closes
    <2>1. /\ stop.phase = "close" /\ Ready(stop.by) /\ Carried /\ stop'.by = stop.by
          /\ UNCHANGED <<setup, state, task, opening, start, recv, handoff, stopping>>
      BY <1>4, ClosesEffect
    <2>2. /\ state = "STOPPING" /\ ClosedDue /\ StoppedDue /\ blocked[stop.by] = "none"
          /\ stop.phase \notin {"none"} \cup Holding
      BY <2>1 DEF SocketHeld, ClosedDue, StoppedDue, Owning, Holding, Ready
    <2>3. CASE stop'.phase = "waiter" /\ opening /\ UNCHANGED emitVars
      BY <2>1, <2>3, StoryDeferred
    <2>4. ASSUME stop'.phase = "stopped", \/ EmitsNothing(stop.by, ghost)
                                          \/ EmitIf(stop.by, "closed", ghost, ~stopping)
          PROVE  DueKept
      <3>1. blocked'["starter"] \in {blocked["starter"], "none", "closed"}
        <4>1. CASE EmitsNothing(stop.by, ghost)
          BY <4>1 DEF EmitsNothing
        <4>2. CASE EmitIf(stop.by, "closed", ghost, ~stopping)
          <5>1. blocked' = blocked \/ \E x \in {"none", "closed"} : blocked' = [blocked EXCEPT ![stop.by] = x]
            BY <4>2 DEF EmitIf
          <5> QED
            BY <5>1 DEF EmitTypes
        <4> QED
          BY <2>4, <4>1, <4>2
      <3>2. (OpenedDue' => OpenedDue) /\ (StoppingDue' => StoppingDue)
        BY <2>1, <2>2, <2>4, <3>1 DEF OpenedDue, StoppingDue, OpeningWaits, Holding
      <3> QED
        BY <2>1, <2>2, <3>2, DueKeptBy
    <2>5. CASE stop'.phase = "stopped" /\ EmitsNothing(stop.by, ghost)
      BY <2>1, <2>2, <2>4, <2>5, StoryPublished
    <2>6. CASE stop'.phase = "stopped" /\ ~opening /\ EmitIf(stop.by, "closed", ghost, ~stopping)
      <3>1. Comes("closed")
        BY <2>2, DueOf DEF Comes, Payload
      <3>2. blocked' = blocked => ~Due("closed")'
        <4>1. blocked["starter"] # "opened"
          BY <2>6, WhereOpeningWaits
        <4> QED
          BY <2>1, <2>2, <2>6, <4>1, DueAfter DEF ClosedDue, OpeningWaits
      <3> QED
        BY <2>1, <2>2, <2>4, <2>6, <3>1, <3>2, StoryPublished
    <2> QED
      BY <1>4, <2>3, <2>5, <2>6, ClosesEffect
  <1>5. CASE Stops
    <2>1. /\ stop.phase = "stopped" /\ Ready(stop.by) /\ Carried /\ stop'.by = stop.by
          /\ stop'.phase = "drain" /\ state' = "STOPPED"
          /\ IF SeesError THEN EmitsNothing(stop.by, ghost)
             ELSE EmitIf(stop.by, "STOPPED", ghost, ~stopping)
          /\ UNCHANGED <<setup, task, start, recv, handoff, stopping>>
      BY <1>5, StopsEffect
    <2>2. StoppedDue /\ blocked[stop.by] = "none" /\ stop.phase \notin {"none"} \cup Holding
      BY <2>1 DEF StoppedDue, Owning, Holding, Ready
    <2>3. DueKept
      <3>1. blocked'["starter"] \in {blocked["starter"], "none", "STOPPED"}
        <4>1. CASE EmitsNothing(stop.by, ghost)
          BY <4>1 DEF EmitsNothing
        <4>2. CASE EmitIf(stop.by, "STOPPED", ghost, ~stopping)
          <5>1. blocked' = blocked \/ \E x \in {"none", "STOPPED"} : blocked' = [blocked EXCEPT ![stop.by] = x]
            BY <4>2 DEF EmitIf
          <5> QED
            BY <5>1 DEF EmitTypes
        <4> QED
          BY <2>1, <4>1, <4>2
      <3>2. OpeningWaits' => OpeningWaits
        BY <2>1, <3>1 DEF OpeningWaits
      <3>3. (OpenedDue' => OpenedDue) /\ (StoppingDue' => StoppingDue) /\ (ClosedDue' => ClosedDue)
        BY <2>1, <3>2 DEF OpenedDue, StoppingDue, ClosedDue, Holding
      <3>4. state' # "STARTING"
        BY <2>1
      <3> QED
        BY <2>2, <3>3, <3>4, DueKeptBy
    <2>4. CASE SeesError
      BY <2>1, <2>2, <2>3, <2>4, StoryPublished
    <2>5. CASE ~SeesError
      <3>1. Comes("STOPPED")
        BY <2>2, DueOf DEF Comes, Payload
      <3>2. start # "opened"
        BY <2>1, <2>5 DEF Control, OpeningSide, SeesError
      <3>3. blocked' = blocked => ~Due("STOPPED")'
        BY <2>1, <2>2, <3>2, DueAfter, WhereOpeningWaits DEF StoppedDue, OpeningWaits, Owning
      <3> QED
        BY <2>1, <2>2, <2>3, <2>5, <3>1, <3>3, StoryPublished
    <2> QED
      BY <2>4, <2>5
  <1>6. CASE StopsOwnDispatcher
    <2>1. /\ stop.phase = "drain" /\ EmitsNothing(stop.by, ghost)
          /\ UNCHANGED <<setup, state, task, start, recv, handoff>>
          /\ stop'.phase \in {"none", "draining"} /\ (stopping' = stopping \/ stopping' = (stopping \/ Background))
      BY <1>6, OwnDispatcherEffect
    <2>2. state = "STOPPED" /\ blocked' = blocked /\ stop.phase \notin {"none"} \cup Holding
      BY <2>1 DEF LeaveInv, Plain, Ending, EmitsNothing, Holding
    <2>3. DueKept
      <3>1. OpeningWaits' => OpeningWaits
        BY <2>1, <2>2 DEF OpeningWaits
      <3>2. (OpenedDue' => OpenedDue) /\ (StoppingDue' => StoppingDue) /\ (ClosedDue' => ClosedDue)
        BY <2>1, <2>2, <3>1 DEF OpenedDue, StoppingDue, ClosedDue, Holding
      <3>3. StoppedDue' => StoppedDue
        BY <2>1, <2>2, <3>1 DEF StoppedDue, Owning
      <3> QED
        BY <2>1, <3>2, <3>3, DueKeptBy
    <2> QED
      BY <2>1, <2>2, <2>3, StoryPublished
  <1>7. CASE StopEnds
    <2>1. /\ stop.phase = "drained" /\ stop'.phase = "none" /\ UNCHANGED emitVars
          /\ UNCHANGED <<setup, state, task, start, recv, handoff, stopping>>
      BY <1>7 DEF StopEnds, Executes, Completed, NoStop
    <2>2. state = "STOPPED" /\ blocked' = blocked /\ queue' = queue /\ SameTold
      BY <2>1 DEF LeaveInv, Plain, Ending, emitVars, SameTold
    <2>3. DueKept
      <3>1. OpeningWaits' => OpeningWaits
        BY <2>1, <2>2 DEF OpeningWaits
      <3>2. (OpenedDue' => OpenedDue) /\ (StoppingDue' => StoppingDue) /\ (ClosedDue' => ClosedDue)
        BY <2>1, <2>2, <3>1 DEF OpenedDue, StoppingDue, ClosedDue, Holding
      <3>3. StoppedDue' => StoppedDue
        BY <2>1, <2>2, <3>1 DEF StoppedDue, Owning
      <3> QED
        BY <2>1, <3>2, <3>3, DueKeptBy
    <2>4. Goes
      BY <2>1 DEF Goes, Listens, Reads, Background, emitVars
    <2> QED
      BY <2>2, <2>3, <2>4, StoryKept
  <1> QED
    BY <1>1, <1>2, <1>3, <1>4, <1>5, <1>6, <1>7 DEF StopStep


\* A handler plans a stop, or stops the dispatcher.
LEMMA StoryHandlerStops ==
  ASSUME Types, Held, Places, Control, ServingSide, BarrierSide, Story, NEW t \in Tasks, HandlerStops(t)
  PROVE  Story'
  <1>t. EmitTypes /\ RunTypes /\ ghost \in Ghost /\ Background \in BOOLEAN
    BY DEF Types, Held, Background
  <1>1. /\ handler[t] # "none" /\ SameTold
        /\ UNCHANGED <<setup, start, recv, handoff, handler, blocked>>
        /\ \/ Plans(t, TRUE) /\ UNCHANGED <<failed, barrier, queue, stopping>>
           \/ DropsQueue /\ UNCHANGED <<state, task, stop>>
    BY HandlerStopsEffect
  <1>2. CASE Plans(t, TRUE) /\ UNCHANGED <<failed, barrier, queue, stopping>>
    <2>1. /\ state \in {"STARTING", "RUNNING"} /\ state' = "STOPPING" /\ stop'.phase = "teardown"
          /\ task' = FALSE /\ (stop'.cancels => task)
      BY <1>t, <1>2 DEF Control, LifeSide, Plans, RunTypes, Lifecycle, Owning
    <2>2. Goes
      BY <1>1, <1>2, <2>1 DEF Goes, Listens, Reads, Background
    <2>3. StoppingDue /\ ClosedDue /\ StoppedDue
      BY <2>1 DEF StoppingDue, ClosedDue, StoppedDue
    <2>4. OpenedDue' => OpenedDue
      BY <1>1, <1>2, <2>1 DEF OpenedDue, OpeningWaits
    <2>5. DueKept
      BY <2>1, <2>3, <2>4, DueKeptBy
    <2> QED
      BY <1>1, <1>2, <2>2, <2>5, StoryKept
  <1>3. CASE DropsQueue /\ UNCHANGED <<state, task, stop>>
    <2>1. /\ stopping' = (stopping \/ Background) /\ (failed["starter"] => failed'["starter"])
          /\ ~Background => queue' = queue
      BY <1>t, <1>3, DropsEffect
    <2>2. Goes
      BY <1>1, <1>3, <2>1 DEF Goes, Listens, Reads, Background
    <2>3. OpeningWaits' => OpeningWaits
      BY <1>1, <2>1 DEF OpeningWaits
    <2>4. DueKept
      BY <1>1, <1>3, <2>3, DueStays
    <2>5. CASE ~Background
      BY <1>1, <2>1, <2>2, <2>4, <2>5, StoryKept
    <2>6. CASE Background
      <3>1. ~Fresh
        BY <1>1, <2>6, WhereFresh, NoHandlerYet DEF ServingSide
      <3> QED
        BY <1>t, <1>1, <1>3, <2>2, <2>4, <2>6, <3>1, StoryDrops
    <2> QED
      BY <2>5, <2>6
  <1> QED
    BY <1>1, <1>2, <1>3

\* The worker delivers the oldest event.
LEMMA StoryTakes ==
  ASSUME Types, Held, Control, ServingSide, BarrierSide, Story, queue # <<>>, queue' = Tail(queue),
         ghost' = Begun(Head(queue), ghost), UNCHANGED <<setup, state, task, stop, start, recv, handoff, stopping, blocked>>,
         failed["starter"] => failed'["starter"]
  PROVE  Story'
  <1>t. EmitTypes /\ ghost \in Ghost
    BY DEF Types, Held
  <1>1. /\ QueueInOrder' /\ SaysNothing
        /\ "opened" \in ghost.told \/ Queued("opened") => Fresh \/ "opened" \in ghost'.told \/ Queued("opened")'
    BY <1>t, OrderTakes DEF Story
  <1>2. DueKept
    <2>1. OpeningWaits' => OpeningWaits
      BY DEF OpeningWaits
    <2> QED
      BY <2>1, DueStays
  <1>3. SaidSoFar'
    BY <1>1, <1>2, NothingSaid DEF Story
  <1>4. start # "starting" => ~Fresh
    BY WhereFresh
  <1>5. ~Fresh /\ "opened" \in ghost.told => "opened" \in ghost'.told
    <2> SUFFICES ASSUME ~Fresh, "opened" \in ghost.told PROVE "opened" \in ghost'.told
      OBVIOUS
    <2>1. Head(queue) \in Events /\ Head(queue) # "STARTING"
      BY <1>t DEF Fresh, EmitTypes
    <2>2. PICK e \in Events \ {"STARTING"} : ghost' = Begun(e, ghost)
      BY <2>1
    <2>3. Begun(e, ghost).told = IF e \in Payload THEN ghost.told ELSE ghost.told \cup {e}
      BY ONLY <1>t, BegunTold, e \in Events, e # "STARTING"
    <2> QED
      BY <2>2, <2>3
  <1>6. Listens' => Listens /\ start # "starting"
    BY DEF Listens, Reads, Control, LifeSide
  <1>7. \A i \in 1..Len(queue') : \E j \in 1..Len(queue) : queue'[i] = queue[j]
    <2>1. Len(queue) \in Nat /\ Len(queue') = Len(queue) - 1 /\ \A i \in 1..Len(queue') : queue'[i] = queue[i + 1]
      BY <1>t DEF EmitTypes
    <2>2. \A i \in 1..Len(queue') : i + 1 \in 1..Len(queue)
      BY <2>1
    <2> QED
      BY <2>1, <2>2
  <1>8. OpenedSaid'
    <2>1. Listens' => "opened" \in ghost'.told
      BY <1>4, <1>5, <1>6 DEF Story, OpenedSaid
    <2>2. start' = "handoff" => "opened" \in ghost'.told
      BY <1>4, <1>5 DEF Story, OpenedSaid
    <2>3. start' = "opened" /\ (Background' => ~failed'["starter"] /\ blocked'["starter"] = "none") =>
            "opened" \in ghost'.told \/ Queued("opened")'
      BY <1>1, <1>4 DEF Story, OpenedSaid, Background
    <2>4. stop'.phase = "waiter" /\ start' \in {"handoff", "doomed"} =>
            \A i \in 1..Len(queue') : queue'[i] = "STOPPING"
      BY <1>7 DEF Story, OpenedSaid
    <2> QED
      BY <2>1, <2>2, <2>3, <2>4 DEF OpenedSaid
  <1> QED
    BY <1>1, <1>3, <1>8 DEF Story

\* A handler ends.
LEMMA StoryHandlerEnds ==
  ASSUME Types, Held, Control, ServingSide, BarrierSide, Story, NEW t \in Tasks, NEW r \in BOOLEAN, HandlerEnds(t, r)
  PROVE  Story'
  <1>t. EmitTypes /\ "starter" \in Tasks
    BY DEF Types, Tasks, Callers
  <1>1. /\ UNCHANGED <<setup, state, task, stop, start, recv, handoff, stopping, blocked>>
        /\ failed' = [failed EXCEPT ![t] = @ \/ r]
        /\ \/ queue # <<>> /\ queue' = Tail(queue) /\ ghost' = Begun(Head(queue), ghost)
           \/ queue' = queue /\ ghost' = ghost
    BY DEF HandlerEnds, runtimeVars, taskVars, workerVars
  <1>2. failed["starter"] => failed'["starter"]
    BY <1>t, <1>1 DEF EmitTypes
  <1>3. CASE queue # <<>> /\ queue' = Tail(queue) /\ ghost' = Begun(Head(queue), ghost)
    BY <1>1, <1>2, <1>3, StoryTakes
  <1>4. CASE queue' = queue /\ ghost' = ghost
    <2>1. Goes
      BY <1>1, <1>2 DEF Goes, Listens, Reads, Background
    <2>2. DueKept
      <3>1. OpeningWaits' => OpeningWaits
        BY <1>1 DEF OpeningWaits
      <3> QED
        BY <1>1, <3>1, DueStays
    <2> QED
      BY <1>4, <2>1, <2>2, StoryKept DEF SameTold
  <1> QED
    BY <1>1, <1>3, <1>4

\* A producer that waits for space queues its event in its turn, or gives it up.
LEMMA StoryUnblocked ==
  ASSUME Types, Held, Places, Reading, LeaveInv, Plain, Control, ServingSide, BarrierSide, Story,
         NEW t \in Tasks, Unblocked(t)
  PROVE  Story'
  <1>t. EmitTypes /\ StopTypes /\ SocketHeld /\ ghost \in Ghost /\ "starter" \in Tasks /\ stop.by \in Tasks
    BY DEF Types, Held, StopTypes, StopPlan, Tasks, Callers
  <1>e. PICK e : e = blocked[t]
    OBVIOUS
  <1>1. /\ e # "none" /\ e \in Events
        /\ failed'[t] = (stopping /\ IsBarrier(e)) /\ blocked'[t] = "none"
        /\ \A u \in Tasks : u # t => failed'[u] = failed[u] /\ blocked'[u] = blocked[u]
        /\ queue' = IF stopping THEN queue ELSE Append(queue, e)
        /\ UNCHANGED <<setup, state, task, stop, start, recv, handoff, handler, ghost, stopping>>
    <2>1. /\ e # "none" /\ e \in Events
          /\ failed' = [failed EXCEPT ![t] = stopping /\ IsBarrier(e)] /\ blocked' = [blocked EXCEPT ![t] = "none"]
          /\ queue' = IF stopping THEN queue ELSE Append(queue, e)
          /\ UNCHANGED <<setup, state, task, stop, start, recv, handoff, handler, ghost, stopping>>
      BY <1>e, <1>t DEF Unblocked, EmitTypes, runtimeVars, taskVars, workerVars
    <2> QED
      BY <1>t, <2>1 DEF EmitTypes, IsBarrier
  <1>2. Background /\ Serves /\ Waiting(t)
    BY <1>e, <1>1 DEF Places, Sides, ServingSide, Serves
  <1>3. OpeningWaits' => OpeningWaits
    BY <1>1, <1>t DEF OpeningWaits
  <1>4. DueKept
    <2>1. blocked'[stop.by] = blocked[stop.by] \/ blocked'[stop.by] = "none"
      BY <1>1, <1>t
    <2> QED
      BY <1>1, <1>3, <2>1, DueStays
  <1>5. t = "starter" /\ start = "opened" => e = "opened"
    BY <1>e, <1>2 DEF Waiting, Publishes, Control, OwnSide
  <1>6. SameTold
    BY <1>1 DEF SameTold
  <1>7. ASSUME t = "starter" /\ start = "opened" => failed'["starter"] \/ Queued("opened")' PROVE Goes
    <2>1. Listens' => Listens
      BY <1>1 DEF Listens, Reads
    <2>2. start = "opened" /\ ~failed'["starter"] /\ blocked'["starter"] = "none" =>
            (~failed["starter"] /\ blocked["starter"] = "none") \/ Queued("opened")'
      BY <1>t, <1>1, <1>7
    <2> QED
      BY <1>1, <2>1, <2>2 DEF Goes, Background
  <1>8. CASE stopping
    <2>1. Goes
      BY <1>1, <1>5, <1>7, <1>8 DEF IsBarrier
    <2> QED
      BY <1>1, <1>4, <1>6, <1>8, <2>1, StoryKept
  <1>9. CASE ~stopping
    <2>1. queue' = Append(queue, e)
      BY <1>1, <1>9
    <2>2. Goes
      <3>1. Len(queue') = Len(queue) + 1 /\ queue'[Len(queue) + 1] = e /\ Len(queue) \in Nat
        BY <1>1, <1>t, <2>1 DEF EmitTypes
      <3>2. Queued(e)'
        BY <3>1 DEF Queued
      <3> QED
        BY <1>5, <1>7, <3>2
    <2>3. CASE t = "starter" /\ start = "opened"
      <3>1. e = "opened" /\ OpeningWaits
        BY <1>5, <1>9, <1>e, <2>3 DEF OpeningWaits
      <3>2. Comes("opened")
        BY <3>1, DueOf DEF Comes, OpenedDue, ClosedDue, StoppedDue, Payload
      <3>3. ~Due("opened")'
        BY <1>1, <2>3, DueAfter DEF OpenedDue, OpeningWaits, Control, LifeSide
      <3>4. "opened" \in Events \ {"STARTING"} /\ "opened" \notin Payload
        BY DEF Events, Payload
      <3>5. queue' = Append(queue, "opened") /\ start' = "opened"
        BY <1>1, <2>1, <2>3, <3>1
      <3> QED
        BY <1>t, <1>4, <1>6, <2>2, <3>2, <3>3, <3>4, <3>5, StoryAppends
    <2>4. CASE t = "receiver" /\ recv \in {"emitted", "failing"} /\ e \in Payload
      <3>1. Reads /\ start = "idle" /\ e \in Events \ {"STARTING"}
        BY <1>1, <2>4 DEF Reads, Control, LifeSide, Events, Payload
      <3>2. ClosedDue /\ StoppedDue
        BY <1>2, <3>1, ReadsServed DEF ClosedDue, StoppedDue, Holding, Owning
      <3>3. Comes(e)
        BY <2>4, <3>2, DueOf DEF Comes, Payload
      <3>4. "opened" \in ghost.told /\ ~Fresh
        BY <3>1, WhereFresh DEF Story, OpenedSaid, Listens
      <3>5. ~Due(e)' /\ start' = "idle"
        BY <1>1, <2>4, <3>1, DueAfter
      <3> QED
        BY <1>t, <1>4, <1>6, <2>1, <2>2, <3>1, <3>3, <3>4, <3>5, StoryAppends
    <2>5. CASE Publishes(t) /\ ~stop.deferred /\ e = Awaited /\ (e # "STOPPING" => ~stop.error)
      <3>1. /\ stop.by = t /\ blocked[stop.by] = e /\ blocked'[stop.by] = "none"
            /\ \/ stop.phase = "teardown" /\ e = "STOPPING"
               \/ stop.phase = "stopped" /\ e = "closed"
               \/ stop.phase = "drain" /\ e = "STOPPED"
        BY <1>e, <1>1, <2>5 DEF Publishes, Awaited
      <3>2. e # "STOPPING" => ~OpeningWaits'
        <4>1. e # "STOPPING" => start # "opened"
          BY <2>5, <3>1 DEF Control, OpeningSide, Ending
        <4>2. blocked["starter"] = "opened" => start = "opened"
          BY WhereOpeningWaits
        <4> QED
          BY <1>3, <4>1, <4>2 DEF OpeningWaits
      <3>3. stop.phase # "drain" => state = "STOPPING" /\ StoppedDue
        BY <1>t, <3>1 DEF SocketHeld, StoppedDue, Owning
      <3>4. stop.phase = "drain" => state = "STOPPED" /\ StoppedDue
        BY <3>1 DEF LeaveInv, Plain, Ending, StoppedDue
      <3>5. Comes(e) /\ ~Due(e)'
        <4>1. CASE e = "STOPPING"
          <5>1. StoppingDue /\ StoppedDue /\ ~StoppingDue'
            BY <1>1, <2>5, <3>1, <3>3, <4>1 DEF StoppingDue, Holding
          <5> QED
            BY <4>1, <5>1, DueOf, DueAfter DEF Comes, Payload
        <4>2. CASE e = "closed"
          <5>1. ClosedDue /\ StoppedDue /\ ~ClosedDue'
            BY <1>1, <3>1, <3>2, <3>3, <4>2 DEF ClosedDue
          <5> QED
            BY <4>2, <5>1, DueOf, DueAfter DEF Comes, Payload
        <4>3. CASE e = "STOPPED"
          <5>1. StoppedDue /\ ~StoppedDue'
            BY <1>1, <3>1, <3>2, <3>4, <4>3 DEF StoppedDue, Owning
          <5> QED
            BY <4>3, <5>1, DueOf, DueAfter DEF Comes, Payload
        <4> QED
          BY <3>1, <4>1, <4>2, <4>3
      <3>6. e \in Events \ {"STARTING"} /\ e \notin Payload
        BY <1>1, <3>1 DEF Payload
      <3>7. stop'.phase # "waiter"
        BY <1>1, <3>1
      <3> QED
        BY <1>t, <1>4, <1>6, <2>1, <2>2, <3>5, <3>6, <3>7, StoryAppends
    <2> QED
      BY <1>e, <1>2, <2>3, <2>4, <2>5 DEF Waiting
  <1> QED
    BY <1>8, <1>9


LEMMA StoryByHandlers ==
  ASSUME Types, Held, Places, Reading, LeaveInv, Plain, Control, ServingSide, BarrierSide, Story, NEW t \in Tasks,
         HandlerStops(t) \/ HandlerRaises(t) \/ HandlerReturns(t) \/ Unblocked(t)
  PROVE  Story'
  BY StoryHandlerStops, StoryHandlerEnds, StoryUnblocked DEF HandlerRaises, HandlerReturns

\* The receive loop emits what it has received.
LEMMA StoryReceives ==
  ASSUME Types, Held, Reading, Control, ServingSide, BarrierSide, Story, Reads,
         NEW e \in Payload, NEW g \in Ghost, g.told = ghost.told, g.disorder = ghost.disorder,
         EmitIf("receiver", e, g, ~stopping), UNCHANGED <<setup, state, task, stop, start, handoff, stopping>>
  PROVE  Story'
  <1>t. /\ EmitTypes /\ StopTypes /\ ghost \in Ghost /\ "receiver" \in Tasks /\ "starter" \in Tasks /\ stop.by \in Tasks
        /\ e \in Events \ {"STARTING"} /\ (~stopping) \in BOOLEAN /\ e \notin {"STOPPING", "closed", "STOPPED"}
    BY DEF Types, Held, StopTypes, StopPlan, WorkerTypes, Tasks, Callers, Events, Payload
  <1>1. ClosedDue /\ StoppedDue /\ start = "idle"
    BY DEF Reading, Unwinds, ClosedDue, StoppedDue, Owning, Control, LifeSide
  <1>2. Comes(e)
    BY <1>1, DueOf DEF Comes, Payload
  <1>3. "opened" \in ghost.told /\ ~Fresh
    BY <1>1, WhereFresh DEF Story, OpenedSaid, Listens
  <1>4. /\ \A u \in Tasks : u # "receiver" => blocked'[u] = blocked[u]
        /\ blocked'["receiver"] \in {blocked["receiver"], "none", e}
    <2>1. blocked' = blocked \/ \E x \in {"none", e} : blocked' = [blocked EXCEPT !["receiver"] = x]
      BY DEF EmitIf
    <2> QED
      BY <1>t, <2>1 DEF EmitTypes
  <1>5. DueKept
    <2>1. OpeningWaits' => OpeningWaits
      BY <1>4, <1>t, TaskAssumption DEF OpeningWaits
    <2>2. blocked'[stop.by] = blocked[stop.by] \/ blocked'[stop.by] \notin {"STOPPING", "closed", "STOPPED"}
      BY <1>t, <1>4
    <2> QED
      BY <2>1, <2>2, DueStays
  <1>6. Goes
    BY <1>1 DEF Goes, Listens
  <1>7. IF DeliversInline("receiver")
        THEN \A i \in 1..Len(queue) : queue[i] = "STOPPING" /\ e = "closed"
        ELSE ~stopping /\ ~(stop'.phase = "waiter" /\ start' \in {"handoff", "doomed"})
    <2>1. CASE DeliversInline("receiver")
      <3>1. ~Background
        BY <2>1, TaskAssumption DEF DeliversInline, TaskAssumption
      <3>2. queue = <<>> /\ Len(queue) = 0
        BY <3>1 DEF ServingSide
      <3> QED
        BY <2>1, <3>2
    <2>2. CASE ~DeliversInline("receiver")
      <3>1. Background
        BY <2>2 DEF DeliversInline
      <3>2. ~stopping
        BY <3>1, ReadsServed DEF ServingSide
      <3> QED
        BY <1>1, <2>2, <3>2
    <2> QED
      BY <2>1, <2>2
  <1>8. ~Due(e)'
    BY DueAfter
  <1> QED
    BY <1>t, <1>1, <1>2, <1>3, <1>5, <1>6, <1>7, <1>8, StoryEmits

\* The hand-off publishes the deferred close, and settles it.
LEMMA StoryHandsOver ==
  ASSUME Types, Held, Places, Control, ServingSide, Story, HandoffStep
  PROVE  Story'
  <1>t. /\ EmitTypes /\ StopTypes /\ SocketHeld /\ ghost \in Ghost /\ "handoff" \in Tasks /\ "starter" \in Tasks
        /\ stop.by \in Tasks /\ (~stopping) \in BOOLEAN
        /\ "closed" \in Events \ {"STARTING"} /\ "closed" \notin Payload
    BY DEF Types, Held, StopTypes, StopPlan, WorkerTypes, Tasks, Callers, Events, Payload
  <1> USE <1>t DEF runtimeVars, closeVars, taskVars, workerVars
  <1>1. CASE HandoffTakes /\ deferred
    <2>1. /\ handoff = "run" /\ handoff' = "emitted" /\ EmitIf("handoff", "closed", ghost, ~stopping)
          /\ UNCHANGED <<setup, state, task, stop, start, recv, stopping>>
      BY <1>1 DEF HandoffTakes, Emit
    <2>2. stop.phase = "waiter" /\ state = "STOPPING" /\ start \in {"handoff", "doomed"}
      BY <1>1, <2>1 DEF Control, OpeningSide, SocketHeld, Owning, Places, HandoffPlaced
    <2>3. DeliversInline("handoff")
      BY DEF DeliversInline
    <2>4. blocked' = blocked /\ failed' = [failed EXCEPT !["handoff"] = FALSE]
      BY <2>1, <2>3 DEF EmitIf
    <2>5. \A i \in 1..Len(queue) : queue[i] = "STOPPING"
      BY <2>2 DEF Story, OpenedSaid
    <2>6. ClosedDue /\ StoppedDue
      BY <2>1, <2>2 DEF ClosedDue, StoppedDue, Owning
    <2>7. Comes("closed")
      BY <2>6, DueOf DEF Comes, Payload
    <2>8. DueKept
      <3>1. (OpenedDue' => OpenedDue) /\ (StoppingDue' => StoppingDue)
        BY <2>1, <2>4 DEF OpenedDue, StoppingDue, OpeningWaits
      <3> QED
        BY <2>1, <2>6, <3>1, DueKeptBy
    <2>9. ~Due("closed")'
      <3>1. blocked["starter"] # "opened"
        BY <2>2, WhereOpeningWaits
      <3> QED
        BY <2>1, <2>2, <2>4, <3>1, DueAfter DEF ClosedDue, OpeningWaits
    <2>10. Goes
      BY <2>1, <2>2 DEF Goes, Listens, Reads
    <2>11. ghost.told = ghost.told /\ ghost.disorder = ghost.disorder
      OBVIOUS
    <2> QED
      BY <2>1, <2>3, <2>5, <2>7, <2>8, <2>9, <2>10, <2>11, StoryEmits
  <1>2. CASE HandoffTakes /\ ~deferred
    <2>1. /\ handoff = "run" /\ UNCHANGED <<setup, state, task, stop, start, recv, stopping>> /\ UNCHANGED emitVars
      BY <1>2 DEF HandoffTakes
    <2>2. Goes
      BY <2>1 DEF Goes, Listens, Reads, emitVars, Background
    <2>3. DueKept
      <3>1. OpeningWaits' => OpeningWaits
        BY <2>1 DEF OpeningWaits, emitVars
      <3> QED
        BY <2>1, <3>1, DueStays DEF emitVars
    <2> QED
      BY <2>1, <2>2, <2>3, StoryKept DEF emitVars, SameTold
  <1>3. CASE HandoffEnds
    <2>1. /\ stop.phase = "waiter" /\ stop'.phase = "stopped" /\ stop'.by = stop.by
          /\ handoff = "emitted" /\ EmitsNothing("handoff", ghost)
          /\ UNCHANGED <<setup, state, task, start, recv, stopping>>
      BY <1>3, HandoffEndsEffect DEF Control
    <2>2. state = "STOPPING" /\ start \in {"handoff", "doomed"} /\ blocked' = blocked /\ queue' = queue /\ ghost' = ghost
      BY <2>1 DEF SocketHeld, Owning, Places, HandoffPlaced, EmitsNothing
    <2>3. blocked["starter"] # "opened" /\ blocked[stop.by] # "closed"
      BY <2>1, <2>2, WhereOpeningWaits
    <2>4. Goes
      BY <2>1, <2>2 DEF Goes, Listens, Reads
    <2>5. DueKept
      <3>1. ~OpenedDue' /\ ~StoppingDue' /\ ~ClosedDue' /\ state' # "STARTING"
        BY <2>1, <2>2, <2>3 DEF OpenedDue, StoppingDue, ClosedDue, OpeningWaits, Holding
      <3>2. StoppedDue
        BY <2>1 DEF StoppedDue, Owning
      <3> QED
        BY <3>1, <3>2, DueKeptBy
    <2> QED
      BY <2>2, <2>4, <2>5, StoryKept DEF SameTold
  <1> QED
    BY <1>1, <1>2, <1>3 DEF HandoffStep


LEMMA StoryByRest ==
  ASSUME Types, Held, Places, Reading, Control, ServingSide, BarrierSide, Story,
         \/ \E c \in Stoppers : StopCalled(c)
         \/ DatagramArrives \/ ReceiveFails \/ ReceiverStep \/ WorkerStep \/ HandoffStep \/ Sweeps
  PROVE  Story'
  <1>t. /\ StopTypes /\ EmitTypes /\ ghost \in Ghost /\ "receiver" \in Tasks /\ "starter" \in Tasks
        /\ Stoppers \subseteq Callers /\ "receiver" \in Callers
        /\ \A c \in Stoppers : c \notin {"starter", "receiver"}
        /\ "bytes" \in Payload /\ "error" \in Payload
    BY TaskAssumption DEF Types, Held, Tasks, Callers, TaskAssumption, Payload
  <1> USE <1>t DEF runtimeVars, closeVars, taskVars, workerVars
  <1>1. ASSUME NEW c \in Stoppers, StopCalled(c) PROVE Story'
    <2>1. PICK g : g = [ghost EXCEPT !.stops = @ + 1]
      OBVIOUS
    <2>2. g \in Ghost /\ g.told = ghost.told /\ g.disorder = ghost.disorder
      BY <2>1 DEF Ghost
    <2>3. CallStop(c, g) /\ CallsStop(c)
      BY <1>1, <2>1 DEF StopCalled, CallsStop
    <2> QED
      BY <2>2, <2>3, StoryCalled
  <1>2. CASE DatagramArrives
    <2>1. PICK g : g = [ghost EXCEPT !.datagrams = @ + 1]
      OBVIOUS
    <2>2. g \in Ghost /\ g.told = ghost.told /\ g.disorder = ghost.disorder
      BY <2>1 DEF Ghost
    <2>3. EmitIf("receiver", "bytes", g, ~stopping) /\ UNCHANGED <<setup, state, task, stop, start, handoff, stopping>>
      BY <1>2, <2>1 DEF DatagramArrives, Emit
    <2>4. Reads
      BY <1>2 DEF DatagramArrives, Reads
    <2> QED
      BY <2>2, <2>3, <2>4, StoryReceives
  <1>3. CASE ReceiveFails
    <2>1. EmitIf("receiver", "error", ghost, ~stopping) /\ UNCHANGED <<setup, state, task, stop, start, handoff, stopping>>
      BY <1>3 DEF ReceiveFails, Emit
    <2>2. Reads
      BY <1>3 DEF ReceiveFails, Reads
    <2>3. ghost.told = ghost.told /\ ghost.disorder = ghost.disorder
      OBVIOUS
    <2> QED
      BY <2>1, <2>2, <2>3, StoryReceives
  <1>4. ASSUME UNCHANGED <<setup, state, task, stop, start, handoff, blocked, queue, ghost>>,
               stopping => stopping', failed'["starter"] = failed["starter"], Reads' => Reads
        PROVE  Story'
    <2>1. Goes
      BY <1>4 DEF Goes, Listens, Background
    <2>2. OpeningWaits' => OpeningWaits
      BY <1>4 DEF OpeningWaits
    <2>3. DueKept
      BY <1>4, <2>2, DueStays
    <2> QED
      BY <1>4, <2>1, <2>3, StoryKept DEF SameTold
  <1>5. CASE ReceiverLoops \/ Sweeps
    BY <1>4, <1>5 DEF ReceiverLoops, Sweeps, Reads, emitVars
  <1>6. ASSUME EmitsNothing("receiver", ghost), UNCHANGED <<setup, state, task, stop, start, handoff, stopping>>,
               recv' = "done"
        PROVE  Story'
    <2>1. failed'["starter"] = failed["starter"]
      BY <1>6 DEF EmitsNothing, EmitTypes
    <2> QED
      BY <1>4, <1>6, <2>1 DEF EmitsNothing, Reads
  <1>7. CASE ReceiverEnds
    BY <1>6, <1>7 DEF ReceiverEnds
  <1>8. CASE ReceiverExits
    <2>1. CASE running
      <3>1. CallsStop("receiver") /\ CallStop("receiver", ghost) /\ blocked["receiver"] = "none"
        BY <1>8, <2>1 DEF ReceiverExits, CallsStop, Ready
      <3>2. ghost.told = ghost.told /\ ghost.disorder = ghost.disorder
        OBVIOUS
      <3> QED
        BY <3>1, <3>2, StoryCalled
    <2>2. CASE ~running
      BY <1>6, <1>8, <2>2 DEF ReceiverExits
    <2> QED
      BY <2>1, <2>2
  <1>9. CASE WorkerTakes
    <2>1. /\ queue # <<>> /\ queue' = Tail(queue) /\ ghost' = Begun(Head(queue), ghost) /\ failed' = failed
          /\ UNCHANGED <<setup, state, task, stop, start, recv, handoff, stopping, blocked>>
      BY <1>9 DEF WorkerTakes
    <2> QED
      BY <2>1, StoryTakes
  <1>10. CASE WorkerExits
    <2>1. /\ stop'.phase = IF stop.phase = "draining" THEN "drained" ELSE stop.phase
          /\ stop'.by = stop.by /\ Carried
          /\ start' = IF start = "draining" THEN "idle" ELSE start
          /\ UNCHANGED <<setup, state, task, recv, handoff, stopping>> /\ UNCHANGED emitVars
      BY <1>10, WorkerExitsEffect
    <2>2. Goes
      BY <2>1 DEF Goes, Listens, Reads, Background, Carried, emitVars
    <2>3. (OpeningWaits' => OpeningWaits) /\ blocked' = blocked
      BY <2>1 DEF OpeningWaits, emitVars
    <2>4. OpenedDue' => OpenedDue
      BY <2>1, <2>3 DEF OpenedDue
    <2>5. StoppingDue' => StoppingDue
      BY <2>1, <2>3 DEF StoppingDue, Holding, Carried
    <2>6. ClosedDue' => ClosedDue
      BY <2>1, <2>3 DEF ClosedDue
    <2>7. StoppedDue' => StoppedDue
      BY <2>1, <2>3 DEF StoppedDue, Owning
    <2>8. DueKept
      BY <2>1, <2>4, <2>5, <2>6, <2>7, DueKeptBy
    <2> QED
      BY <2>1, <2>2, <2>8, StoryKept DEF emitVars, SameTold
  <1>11. CASE HandoffStep
    BY <1>11, StoryHandsOver
  <1> QED
    BY <1>1, <1>2, <1>3, <1>5, <1>7, <1>8, <1>9, <1>10, <1>11 DEF ReceiverStep, WorkerStep


-----------------------------------------------------------------------------
\* The application does not change.
LEMMA SetupFixed == Acts => setup' = setup
  <1>1. StartCalled \/ StartCancelled \/ StartStep => setup' = setup
    BY DEF StartCalled, StartCancelled, StartStep, StartRollsBack, StartOvertaken, Binds, BindFails, StartFails,
           Opens, HandsOff, StartStops, StartSucceeds, StartEnds
  <1>2. (\E c \in Stoppers : StopCalled(c) \/ StopperCancelled(c)) => setup' = setup
    BY DEF StopCalled, StopperCancelled
  <1>3. DatagramArrives \/ ReceiveFails \/ ReceiverStep => setup' = setup
    BY DEF DatagramArrives, ReceiveFails, ReceiverStep, ReceiverLoops, ReceiverExits, ReceiverEnds
  <1>4. (\E t \in Tasks : HandlerStops(t) \/ HandlerRaises(t) \/ HandlerReturns(t) \/ Unblocked(t)) => setup' = setup
    BY DEF HandlerStops, HandlerRaises, HandlerReturns, HandlerEnds, Unblocked
  <1>5. StopStep => setup' = setup
    BY DEF StopStep, TearsDown, ReceiverGone, HandlersGone, Closes, Stops, StopsOwnDispatcher, StopEnds
  <1>6. HandoffStep \/ WorkerStep \/ Sweeps => setup' = setup
    BY DEF HandoffStep, HandoffTakes, HandoffEnds, WorkerStep, WorkerTakes, WorkerExits, Sweeps
  <1> QED
    BY <1>1, <1>2, <1>3, <1>4, <1>5, <1>6 DEF Acts

\* What acts when no call is cancelled.
PlainActs == \/ StartCalled \/ StartStep \/ StopStep
             \/ \E t \in Tasks : HandlerStops(t) \/ HandlerRaises(t) \/ HandlerReturns(t) \/ Unblocked(t)
             \/ \E c \in Stoppers : StopCalled(c)
             \/ DatagramArrives \/ ReceiveFails \/ ReceiverStep \/ WorkerStep \/ HandoffStep \/ Sweeps

LEMMA ServingStep ==
  ASSUME Types, Held, Places, Reading, Plain, Control, ServingSide, BarrierSide, Story, Acts, PlainActs
  PROVE  ServingSide' /\ BarrierSide'
  <1>1. Background' = Background
    BY SetupFixed DEF Background
  <1>2. CASE ~Background
    BY <1>1, <1>2, InlineStep DEF ServingSide, BarrierSide
  <1>3. CASE Background
    <2>1. Serves
      BY <1>3 DEF ServingSide
    <2>2. Serves' /\ BarrierSide'
      BY <1>3, <2>1, ServesByStart, ServesByStop, ServesByHandlers, ServesByRest, BarrierByStart, BarrierByStop,
         BarrierByHandlers, BarrierByRest DEF PlainActs
    <2> QED
      BY <1>1, <1>3, <2>2 DEF ServingSide
  <1> QED
    BY <1>2, <1>3

LEMMA OrderStep == TypeOK /\ HoldInv /\ LeaveInv /\ OrderInv /\ [Next]_vars => OrderInv'
  <1> SUFFICES ASSUME TypeOK, HoldInv, LeaveInv, OrderInv, [Next]_vars, Plain' PROVE OrderInv'
    BY DEF OrderInv
  <1>1. Types /\ turn \in Tasks \cup {"none"} /\ StopTypes /\ Held /\ Places /\ Reading
    BY TypesOfTypeOK DEF Types, HoldInv
  <1>2. CASE UNCHANGED vars
    <2>1. Control' = Control
      BY <1>2 DEF vars, runtimeVars, closeVars, taskVars, emitVars, workerVars, Control, LifeSide, OpeningSide, OwnSide,
                  Reads, Background
    <2>2. ServingSide' = ServingSide
      BY <1>2 DEF vars, runtimeVars, closeVars, taskVars, emitVars, workerVars, ServingSide, Serves, Served, Waiting,
                  Publishes, Awaited, Background
    <2>3. BarrierSide' = BarrierSide
      BY <1>2 DEF vars, taskVars, emitVars, BarrierSide, Queued, Background
    <2>4. QueueInOrder' = QueueInOrder
      BY <1>2 DEF vars, taskVars, emitVars, QueueInOrder, Fresh
    <2>5. (\A e : Due(e)' = Due(e)) /\ (\A e : Said(e)' = Said(e))
      BY <1>2 DEF vars, runtimeVars, taskVars, emitVars, workerVars, Due, OpenedDue, StoppingDue, ClosedDue, StoppedDue,
                  OpeningWaits, Said, Queued, Fresh
    <2>6. SaidSoFar' = SaidSoFar
      BY <2>5 DEF SaidSoFar
    <2>7. OpenedSaid' = OpenedSaid
      BY <1>2 DEF vars, runtimeVars, taskVars, emitVars, OpenedSaid, Listens, Reads, Queued, Background
    <2>8. Plain' = Plain
      BY <1>2 DEF vars, Plain
    <2> QED
      BY <2>1, <2>2, <2>3, <2>4, <2>6, <2>7, <2>8 DEF OrderInv, Story
  <1>3. CASE Next
    <2>1. Acts
      BY <1>1, <1>3, NextActs
    <2>2. Plain /\ Control /\ ServingSide /\ BarrierSide /\ Story
      BY <2>1, SetupFixed DEF Plain, OrderInv
    <2>3. PlainActs
      BY <2>1, <2>2, NothingToCancel DEF Acts, PlainActs
    <2>4. Control'
      BY <1>1, <2>2, <2>3, ControlByStart, ControlByStop, ControlByRest DEF PlainActs
    <2>5. ServingSide' /\ BarrierSide'
      BY <1>1, <2>1, <2>2, <2>3, ServingStep
    <2>6. Story'
      BY <1>1, <2>2, <2>3, StoryByStart, StoryByStop, StoryByHandlers, StoryByRest DEF PlainActs
    <2> QED
      BY <2>4, <2>5, <2>6 DEF OrderInv
  <1> QED
    BY <1>2, <1>3

LEMMA InitOrder == Init => OrderInv
  <1> SUFFICES ASSUME Init PROVE Control /\ ServingSide /\ BarrierSide /\ Story
    BY DEF OrderInv
  <1>1. Control
    BY DEF Init, NoStop, Control, LifeSide, OpeningSide, OwnSide, Reads, Owning, Ending
  <1>2. queue = <<>> /\ Len(queue) = 0 /\ (\A e : ~Queued(e)) /\ ~Fresh
    BY DEF Init, Queued, Fresh
  <1>3. ServingSide
    BY <1>2 DEF Init, NoStop, ServingSide, Serves, Served, Holding, Tasks, Callers
  <1>4. BarrierSide
    BY <1>2, TaskAssumption DEF Init, BarrierSide, Tasks, Callers
  <1>5. QueueInOrder /\ SaidSoFar
    BY <1>2 DEF Init, QueueInOrder, SaidSoFar, Said
  <1>6. OpenedSaid
    BY <1>2 DEF Init, NoStop, OpenedSaid, Listens, Reads
  <1> QED
    BY <1>1, <1>3, <1>4, <1>5, <1>6 DEF Story

LEMMA OrderInvariant == Spec => []OrderInv
  BY InitOrder, OrderStep, TypeCorrect, HoldInvariant, LeaveInvariant, PTL DEF Spec

\* Where no call is cancelled and start() does not overlap a stop, each life of the
\* receiver is told to its handler in order, each event at most once and none out of
\* turn: through the bounded queue or inline, whoever stops the receiver and whoever
\* publishes its deferred close, with payload only between opened and closed.
THEOREM LivesInOrder == Spec => []ToldInOrder
  <1>1. OrderInv => ToldInOrder
    BY DEF OrderInv, Story, QueueInOrder, ToldInOrder
  <1> QED
    BY <1>1, OrderInvariant, PTL
=============================================================================
