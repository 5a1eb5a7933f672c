--------------------------- MODULE TcpServerProofs ---------------------------
(***************************************************************************)
(* The server keeps track of what it owns, keeps max_connections, and a     *)
(* stop() that returns leaves nothing behind: proofs about TcpServer.       *)
(***************************************************************************)
EXTENDS TcpServer, FiniteSetTheorems, TLAPS

Plan == [phase : StopPhases, by : Stoppers \cup {"none", "handler"},
         conns : SUBSET Connections, beats : SUBSET Connections, listener : BOOLEAN,
         transition : BOOLEAN, last : BOOLEAN, error : BOOLEAN]

\* A socket that is served, or still closing, is registered or belongs to a stop
\* that has yet to see it closed.
Served ==
  \A c \in Connections :
    conn[c].st \in {"up", "closing"} =>
      \/ c \in registered
      \/ stop.phase \in {"stopping", "heartbeats", "closing"} /\ c \in stop.conns

\* A start() that binds or rolls back does not run the server.
StartSide == /\ start = "binding" => state # "RUNNING"
             /\ start \in {"rollback", "failed"} => ~Active

\* One life at a time: while the server is up there is no stop, while there is
\* one nothing is registered; and a dispatcher that is on, or ending, has somebody
\* to stop it, or to wait for its end.
OneLife ==
  ~setup.overlap =>
    /\ Active => disp = "on" /\ stop.phase = "none"
    /\ stop.phase # "none" => registered = {}
    /\ state = "STOPPING" => stop.phase \in {"stopping", "heartbeats", "closing", "listener"} /\ stop.transition
    /\ stop.phase = "draining" => disp = "stopping"
    /\ disp = "on" => \/ Active \/ start \in {"rollback", "failed"}
                      \/ stop.phase # "none" /\ stop.transition
    /\ disp = "stopping" /\ setup.cancels = 0 =>
         start = "draining" \/ stop.phase = "draining" \/ stop.by = "handler"

Owned == ConnectionsOwned /\ HeartbeatsOwned /\ Served
Life == ListenerOwned /\ StartSide /\ OneLife
ServerInv == Owned /\ Life

-----------------------------------------------------------------------------
(***************************************************************************)
(* What the pieces of stop() do.                                            *)
(***************************************************************************)
\* The stop of plan p is over, or goes on in phase ph.
Over(p) == /\ Completed(p) /\ UNCHANGED disp
           /\ disp = "off" \/ (~p.transition /\ p.by # "handler")
GoesOn(p, ph) ==
  /\ stop' \in Plan /\ stop'.phase = ph
  /\ stop'.conns = p.conns /\ stop'.beats = p.beats /\ stop'.by = p.by
  /\ stop'.listener = p.listener /\ stop'.transition = p.transition
  /\ disp' = IF ph = "draining" THEN "stopping" ELSE disp
  /\ UNCHANGED <<pc, start>>
Concluded(p) ==
  /\ state' = IF p.transition /\ state = "STOPPING" THEN "STOPPED" ELSE state
  /\ Over(p) \/ \E ph \in {"handlers", "stopped", "draining"} : GoesOn(p, ph)
Awaited(p) == Concluded(p) \/ (UNCHANGED state /\ GoesOn(p, "listener"))

\* A plan that moves to another phase, or notes an error, is the same plan.
LEMMA PlanMoves ==
  ASSUME NEW p \in Plan, NEW ph \in StopPhases, NEW b \in BOOLEAN,
         \/ stop' = [p EXCEPT !.phase = ph] \/ stop' = [p EXCEPT !.phase = ph, !.last = b],
         disp' = (IF ph = "draining" THEN "stopping" ELSE disp), UNCHANGED <<pc, start>>
  PROVE  GoesOn(p, ph)
  BY DEF Plan, GoesOn

LEMMA PlanFails ==
  ASSUME NEW p \in Plan
  PROVE  LET q == [p EXCEPT !.error = TRUE]
         IN  /\ q \in Plan /\ q.phase = p.phase /\ q.conns = p.conns
             /\ q.beats = p.beats /\ q.by = p.by /\ q.listener = p.listener
             /\ q.transition = p.transition /\ q.error = TRUE
  BY DEF Plan

LEMMA StopsDispatcherEffect ==
  ASSUME NEW p \in Plan, StopsDispatcher(p)
  PROVE  Over(p) \/ GoesOn(p, "draining")
  BY PlanMoves DEF StopsDispatcher, Over, StopPhases

LEMMA ConcludesEffect ==
  ASSUME NEW p \in Plan, Concludes(p)
  PROVE  Concluded(p)
  <1> DEFINE last == p.transition /\ state = "STOPPING"
  <1>1. PICK b \in BOOLEAN : b <=> last
    OBVIOUS
  <1>2. state' = IF last THEN "STOPPED" ELSE state
    BY DEF Concludes
  <1>3. p.by = "handler" => stop' = [p EXCEPT !.phase = "handlers", !.last = b] /\ UNCHANGED <<disp, pc, start>>
    <2>1. last \in BOOLEAN
      BY DEF Plan
    <2>2. b = last
      BY <1>1, <2>1
    <2> QED
      BY <2>2 DEF Concludes
  <1>4. CASE p.by = "handler"
    <2>1. GoesOn(p, "handlers")
      BY <1>3, <1>4, PlanMoves DEF StopPhases
    <2> QED
      BY <1>2, <2>1 DEF Concluded
  <1>5. CASE p.by # "handler"
    <2>1. \/ stop' = [p EXCEPT !.phase = "stopped"] /\ UNCHANGED <<disp, pc, start>>
          \/ StopsDispatcher(p)
          \/ ~p.transition /\ Completed(p) /\ UNCHANGED disp
      BY <1>5 DEF Concludes
    <2>2. Over(p) \/ GoesOn(p, "stopped") \/ GoesOn(p, "draining")
      BY <1>5, <2>1, StopsDispatcherEffect, PlanMoves DEF StopPhases, Over
    <2> QED
      BY <1>2, <2>2 DEF Concluded
  <1> QED
    BY <1>4, <1>5

LEMMA AwaitsEffect ==
  ASSUME NEW p \in Plan, AwaitsListener(p)
  PROVE  Awaited(p)
  BY PlanMoves, ConcludesEffect DEF AwaitsListener, Awaited, StopPhases

LEMMA ClosesEffect ==
  ASSUME NEW p \in Plan, ClosesConnections(p)
  PROVE  \/ p.conns = {} /\ UNCHANGED conn /\ Awaited(p)
         \/ /\ conn' = Closing(p.conns, p.by = "handler")
            /\ GoesOn(p, "closing") /\ UNCHANGED state
  BY PlanMoves, AwaitsEffect DEF ClosesConnections, StopPhases

-----------------------------------------------------------------------------
(***************************************************************************)
(* Types.                                                                   *)
(***************************************************************************)
Conn == [st : ConnStates, inline : BOOLEAN]

LEMMA ConnUpdates ==
  ASSUME NEW r \in Conn, NEW s \in ConnStates
  PROVE  [r EXCEPT !.st = s] \in Conn /\ [r EXCEPT !.st = s].st = s /\ [r EXCEPT !.st = s].inline = r.inline
  BY DEF Conn

LEMMA ClosingType ==
  ASSUME conn \in [Connections -> Conn], NEW cs, NEW P, P \in BOOLEAN
  PROVE  /\ Closing(cs, P) \in [Connections -> Conn]
         /\ \A c \in Connections : Closing(cs, P)[c].st = IF c \in cs /\ conn[c].st = "up"
                                                          THEN "closing" ELSE conn[c].st
  BY DEF Closing, Conn, ConnStates

PcStates == {"idle", "waiting", "returned", "raised"}
CallCounts == [starts : Nat, stops : Nat, cancels : Nat, casts : Nat, handled : Nat]

\* What a stop that is over, or goes on, leaves well typed.
LEMMA StopTypes ==
  ASSUME TypeOK, NEW p, Over(p) \/ \E ph \in StopPhases \ {"none"} : GoesOn(p, ph)
  PROVE  /\ stop' \in Plan /\ (stop'.phase = "none" => stop' = NoStop)
         /\ pc' \in [Stoppers -> PcStates] /\ start' \in StartStates /\ disp' \in {"off", "on", "stopping"}
  <1>1. pc \in [Stoppers -> PcStates] /\ start \in StartStates /\ disp \in {"off", "on", "stopping"}
    BY DEF TypeOK, PcStates
  <1>2. CASE Over(p)
    <2>1. NoStop \in Plan
      BY DEF NoStop, Plan, StopPhases
    <2>2. CallsAfter(p) \in [Stoppers -> PcStates]
      BY <1>1 DEF CallsAfter, Outcome, PcStates
    <2> QED
      BY <1>1, <1>2, <2>1, <2>2 DEF Over, Completed, StartStates
  <1>3. ASSUME NEW ph \in StopPhases \ {"none"}, GoesOn(p, ph) PROVE stop'.phase # "none"
    BY <1>3 DEF GoesOn
  <1> QED
    BY <1>1, <1>2, <1>3 DEF GoesOn


LEMMA StopTyped == TypeOK => stop \in Plan /\ conn \in [Connections -> Conn] /\ pc \in [Stoppers -> PcStates]
  BY DEF TypeOK, Plan, Conn, PcStates

\* Plans(by) leaves a well-typed plan.
LEMMA PlansType ==
  ASSUME TypeOK, NEW by \in Stoppers \cup {"handler"}, Plans(by)
  PROVE  /\ stop' \in Plan /\ stop'.phase = "stopping" /\ stop'.by = by /\ stop'.conns = registered
         /\ stop'.beats = senders /\ (stop'.transition <=> Active) /\ (stop'.listener <=> listener = "held")
         /\ state' = (IF Active THEN "STOPPING" ELSE state)
         /\ listener' = (IF listener = "held" THEN "plan" ELSE listener)
         /\ registered' = {} /\ senders' = {}
  <1>1. registered \in SUBSET Connections /\ senders \in SUBSET Connections
    BY DEF TypeOK
  <1>2. PICK h \in BOOLEAN : h = (listener = "held")
    OBVIOUS
  <1>3. PICK a \in BOOLEAN : a = Active
    <2>1. Active \in BOOLEAN
      BY DEF Active
    <2> QED
      BY <2>1
  <1>4. stop' = [NoStop EXCEPT !.phase = "stopping", !.by = by, !.conns = registered, !.beats = senders,
                               !.listener = h, !.transition = a]
    BY <1>2, <1>3 DEF Plans
  <1>5. stop' = [phase |-> "stopping", by |-> by, conns |-> registered, beats |-> senders, listener |-> h,
                 transition |-> a, last |-> FALSE, error |-> FALSE]
    BY <1>4 DEF NoStop
  <1>6. /\ stop' \in Plan /\ stop'.phase = "stopping" /\ stop'.by = by /\ stop'.conns = registered
        /\ stop'.beats = senders /\ stop'.transition = a /\ stop'.listener = h
    BY <1>1, <1>5 DEF Plan, StopPhases
  <1>7. (stop'.transition <=> Active) /\ (stop'.listener <=> listener = "held")
    <2>1. stop'.transition = Active /\ stop'.listener = (listener = "held")
      BY <1>2, <1>3, <1>6
    <2> QED
      BY <2>1
  <1>8. /\ state' = (IF Active THEN "STOPPING" ELSE state)
        /\ listener' = (IF listener = "held" THEN "plan" ELSE listener)
        /\ registered' = {} /\ senders' = {}
    BY DEF Plans
  <1> QED
    BY <1>6, <1>7, <1>8

LEMMA CallsStep ==
  ASSUME TypeOK, [Next]_vars
  PROVE  calls' \in CallCounts
  <1>w. calls \in CallCounts
    BY DEF TypeOK, CallCounts
  <1>1. CASE UNCHANGED calls
    BY <1>w, <1>1
  <1>2. CASE \/ calls' = [calls EXCEPT !.starts = @ + 1] \/ calls' = [calls EXCEPT !.stops = @ + 1]
             \/ calls' = [calls EXCEPT !.cancels = @ + 1] \/ calls' = [calls EXCEPT !.casts = @ + 1]
             \/ calls' = [calls EXCEPT !.handled = @ + 1]
    BY <1>w, <1>2 DEF CallCounts
  <1>3. CASE \/ \E c \in Connections : \/ CloseStep(c) \/ AcceptStep(c) \/ ClientArrives(c)
                                       \/ ConnectionDies(c) \/ HeartbeatEnds(c) \/ HandlerBegins(c)
             \/ \E k \in Stoppers : StopCalled(k) \/ StopperCancelled(k)
    BY <1>1, <1>2, <1>3 DEF CloseStep, AcceptStep, ClientArrives, ConnectionDies, HeartbeatEnds,
       HandlerBegins, StopCalled, StopperCancelled, ClosedCallback, CallbackReturns, ClosedPublished,
       Decides, Rejected, OpenedQueued, OpenedHandled, HandedOff, Abandons, AcceptFails
  <1>4. CASE StartStep \/ StartCalled \/ BindRaises \/ StartCancelled
    BY <1>1, <1>2, <1>4 DEF StartCalled, StartStep, BindRaises, StartCancelled, StartingQueued,
       StartingHandled, Binds, FailureTold, RunningTold, StartRaises, RollbackEnds
  <1>5. CASE StopStep \/ HandlerStops
    BY <1>1, <1>5 DEF StopStep, HandlerStops, StoppingTold, HeartbeatsGone, ConnectionsClosed,
       ListenerClosed, StoppedTold, FinisherRuns
  <1>6. CASE BroadcastStep \/ BroadcastCalled \/ HandlerReturns \/ WorkerExits
    BY <1>1, <1>2, <1>6 DEF BroadcastStep, BroadcastCalled, BroadcastSent, BroadcastReported,
       BroadcastReturns, HandlerReturns, WorkerExits
  <1> QED
    BY <1>1, <1>3, <1>4, <1>5, <1>6 DEF Next, vars

\* Every action keeps the types.
LEMMA TypeStep == TypeOK /\ [Next]_vars => TypeOK'
  <1> SUFFICES ASSUME TypeOK, [Next]_vars PROVE TypeOK'
    OBVIOUS
  <1>w. /\ stop \in Plan /\ conn \in [Connections -> Conn] /\ pc \in [Stoppers -> PcStates]
        /\ start \in StartStates /\ disp \in {"off", "on", "stopping"}
        /\ accept \in [Connections -> AcceptStates]
        /\ registered \subseteq Connections /\ senders \subseteq Connections /\ beating \subseteq Connections
        /\ cast \in [pc : {"idle", "sending", "reporting", "closing"}, of : SUBSET Connections]
        /\ state \in {"STOPPED", "STARTING", "RUNNING", "STOPPING"} /\ listener \in {"none", "held", "plan"}
        /\ handler \in Connections \cup {"none"}
        /\ stop.phase = "none" => stop = NoStop
        /\ cast.pc = "idle" => cast.of = {}
    BY StopTyped DEF TypeOK
  <1>g. ASSUME /\ stop' \in Plan /\ conn' \in [Connections -> Conn] /\ pc' \in [Stoppers -> PcStates]
               /\ start' \in StartStates /\ disp' \in {"off", "on", "stopping"}
               /\ accept' \in [Connections -> AcceptStates]
               /\ registered' \subseteq Connections /\ senders' \subseteq Connections
               /\ beating' \subseteq Connections
               /\ cast' \in [pc : {"idle", "sending", "reporting", "closing"}, of : SUBSET Connections]
               /\ state' \in {"STOPPED", "STARTING", "RUNNING", "STOPPING"}
               /\ listener' \in {"none", "held", "plan"}
               /\ handler' \in Connections \cup {"none"}
               /\ stop'.phase = "none" => stop' = NoStop
               /\ cast'.pc = "idle" => cast'.of = {}
               /\ setup' = setup
        PROVE  TypeOK'
    BY <1>g, CallsStep DEF TypeOK, Plan, Conn, PcStates, CallCounts
  <1>1. ASSUME NEW c \in Connections, ConnectionDies(c) PROVE TypeOK'
    <2>1. conn' \in [Connections -> Conn]
      BY <1>w, <1>1, ClosingType DEF ConnectionDies
    <2> QED
      BY <1>w, <1>g, <1>1, <2>1 DEF ConnectionDies, hbVars
  <1>2. ASSUME NEW c \in Connections,
               \/ ClosedCallback(c) \/ CallbackReturns(c) \/ Rejected(c) \/ ClientArrives(c)
        PROVE  TypeOK'
    <2>1. \E s \in ConnStates : conn' = [conn EXCEPT ![c].st = s]
      BY <1>2 DEF ClosedCallback, CallbackReturns, Rejected, ClientArrives, AfterCallback, ConnStates
    <2>2. conn' \in [Connections -> Conn]
      BY <1>w, <2>1, ConnUpdates
    <2> QED
      BY <1>w, <1>g, <1>2, <2>2 DEF ClosedCallback, CallbackReturns, Rejected, ClientArrives, hbVars
  <1>3. ASSUME NEW c \in Connections, ClosedPublished(c) PROVE TypeOK'
    <2>1. conn' \in [Connections -> Conn]
      BY <1>w, <1>3 DEF ClosedPublished, Conn, ConnStates
    <2> QED
      BY <1>w, <1>g, <1>3, <2>1 DEF ClosedPublished, hbVars
  <1>4. ASSUME NEW c \in Connections, HeartbeatEnds(c) PROVE TypeOK'
    BY <1>w, <1>g, <1>4 DEF HeartbeatEnds, connVars
  <1>5. ASSUME NEW c \in Connections, Decides(c) PROVE TypeOK'
    <2>1. \E s \in ConnStates : conn' = [conn EXCEPT ![c].st = s]
      BY <1>5 DEF Decides, ConnStates
    <2>2. conn' \in [Connections -> Conn]
      BY <1>w, <2>1, ConnUpdates
    <2>3. accept' \in [Connections -> AcceptStates] /\ registered' \subseteq Connections
      BY <1>w, <1>5 DEF Decides, AcceptStates
    <2> QED
      BY <1>w, <1>g, <1>5, <2>2, <2>3 DEF Decides, hbVars
  <1>6. ASSUME NEW c \in Connections,
               OpenedQueued(c) \/ OpenedHandled(c) \/ HandedOff(c) \/ AcceptFails(c)
        PROVE  TypeOK'
    <2>1. /\ accept' \in [Connections -> AcceptStates]
          /\ senders' \subseteq Connections /\ beating' \subseteq Connections
      BY <1>w, <1>6 DEF OpenedQueued, OpenedHandled, HandedOff, AcceptFails, StartsHeartbeat,
         AcceptStates, hbVars
    <2> QED
      BY <1>w, <1>g, <1>6, <2>1 DEF OpenedQueued, OpenedHandled, HandedOff, AcceptFails
  <1>7. ASSUME NEW c \in Connections, Abandons(c) PROVE TypeOK'
    <2>1. conn' \in [Connections -> Conn]
      BY <1>w, <1>7, ClosingType DEF Abandons
    <2>2. accept' \in [Connections -> AcceptStates]
      BY <1>w, <1>7 DEF Abandons, AcceptStates
    <2> QED
      BY <1>w, <1>g, <1>7, <2>1, <2>2 DEF Abandons, hbVars
  <1>8. ASSUME NEW c \in Connections, HandlerBegins(c) PROVE TypeOK'
    BY <1>w, <1>g, <1>8 DEF HandlerBegins, connVars, hbVars
  <1>9. CASE HandlerReturns
    BY <1>w, <1>g, <1>9 DEF HandlerReturns, connVars, hbVars
  <1>10. CASE WorkerExits
    <2>1. CASE stop.phase = "draining"
      <3>1. stop' = NoStop /\ NoStop \in Plan
        BY <1>10, <2>1 DEF WorkerExits, NoStop, Plan, StopPhases
      <3>2. pc' \in [Stoppers -> PcStates] /\ start' \in StartStates /\ disp' = "off"
        BY <1>w, <1>10, <2>1 DEF WorkerExits, CallsAfter, Outcome, PcStates, StartStates
      <3> QED
        BY <1>w, <1>g, <1>10, <3>1, <3>2 DEF WorkerExits, connVars, hbVars
    <2>2. CASE stop.phase # "draining"
      <3>1. UNCHANGED <<stop, pc>> /\ start' \in StartStates /\ disp' = "off"
        BY <1>w, <1>10, <2>2 DEF WorkerExits, StartStates
      <3> QED
        BY <1>w, <1>g, <1>10, <3>1 DEF WorkerExits, connVars, hbVars
    <2> QED
      BY <2>1, <2>2
  <1>11. CASE BroadcastCalled \/ BroadcastSent \/ BroadcastReturns
    <2>1. /\ cast' \in [pc : {"idle", "sending", "reporting", "closing"}, of : SUBSET Connections]
          /\ cast'.pc = "idle" => cast'.of = {}
      BY <1>w, <1>11 DEF BroadcastCalled, BroadcastSent, BroadcastReturns
    <2> QED
      BY <1>w, <1>g, <1>11, <2>1 DEF BroadcastCalled, BroadcastSent, BroadcastReturns, connVars, hbVars
  <1>12. CASE BroadcastReported
    <2>1. conn' \in [Connections -> Conn]
      BY <1>w, <1>12, ClosingType DEF BroadcastReported
    <2>2. /\ cast' \in [pc : {"idle", "sending", "reporting", "closing"}, of : SUBSET Connections]
          /\ cast'.pc = "closing"
      BY <1>w, <1>12 DEF BroadcastReported
    <2> QED
      BY <1>w, <1>g, <1>12, <2>1, <2>2 DEF BroadcastReported, hbVars
  <1>13. CASE StartCalled \/ StartStep \/ BindRaises \/ StartCancelled
    <2>1. /\ start' \in StartStates /\ disp' \in {"off", "on", "stopping"}
          /\ state' \in {"STOPPED", "STARTING", "RUNNING", "STOPPING"} /\ listener' \in {"none", "held", "plan"}
          /\ UNCHANGED <<setup, conn, accept, registered, senders, beating, cast, handler, stop, pc>>
      BY <1>w, <1>13 DEF StartCalled, StartStep, BindRaises, StartCancelled, StartingQueued, StartingHandled,
         Binds, FailureTold, RunningTold, StartRaises, RollbackEnds, RollsBack, BindFails,
         StartStopsDispatcher, StartStates, connVars, hbVars
    <2> QED
      BY <1>w, <1>g, <2>1
  <1>14. ASSUME NEW k \in Stoppers, StopCalled(k) PROVE TypeOK'
    <2>1. pc' \in [Stoppers -> PcStates]
      BY <1>w, <1>14 DEF StopCalled, PcStates
    <2>2. CASE Plans(k)
      <3>1. /\ stop' \in Plan /\ stop'.phase # "none" /\ registered' = {} /\ senders' = {}
            /\ state' \in {"STOPPED", "STARTING", "RUNNING", "STOPPING"} /\ listener' \in {"none", "held", "plan"}
        BY <1>w, <2>2, PlansType
      <3> QED
        BY <1>w, <1>g, <1>14, <2>1, <3>1 DEF StopCalled
    <2>3. CASE UNCHANGED <<stop, state, listener, registered, senders>>
      BY <1>w, <1>g, <1>14, <2>1, <2>3 DEF StopCalled
    <2> QED
      BY <1>14, <2>2, <2>3 DEF StopCalled
  <1>15. CASE HandlerStops
    <2>1. /\ stop' \in Plan /\ stop'.phase # "none" /\ registered' = {} /\ senders' = {}
          /\ state' \in {"STOPPED", "STARTING", "RUNNING", "STOPPING"} /\ listener' \in {"none", "held", "plan"}
      BY <1>w, <1>15, PlansType DEF HandlerStops
    <2>2. accept' \in [Connections -> AcceptStates] /\ start' \in StartStates /\ disp' = "stopping"
      BY <1>w, <1>15 DEF HandlerStops, AcceptStates, StartStates
    <2> QED
      BY <1>w, <1>g, <1>15, <2>1, <2>2 DEF HandlerStops
  <1>16. ASSUME NEW p, Concluded(p) \/ Awaited(p),
                UNCHANGED <<setup, conn, accept, registered, senders, beating, cast, handler>>,
                listener' \in {"none", "held", "plan"}
         PROVE  TypeOK'
    <2>1. Over(p) \/ \E ph \in StopPhases \ {"none"} : GoesOn(p, ph)
      BY <1>16 DEF Concluded, Awaited, StopPhases
    <2>2. state' \in {"STOPPED", "STARTING", "RUNNING", "STOPPING"}
      BY <1>w, <1>16 DEF Concluded, Awaited
    <2> QED
      BY <1>w, <1>g, <1>16, <2>1, <2>2, StopTypes
  <1>17. ASSUME ClosesConnections(stop), listener' \in {"none", "held", "plan"},
                UNCHANGED <<setup, accept, registered, hbVars, cast, handler>>
         PROVE  TypeOK'
    <2>1. CASE UNCHANGED conn /\ Awaited(stop)
      BY <1>16, <1>17, <2>1 DEF hbVars
    <2>2. CASE /\ conn' = Closing(stop.conns, stop.by = "handler")
               /\ GoesOn(stop, "closing") /\ UNCHANGED state
      <3>1. conn' \in [Connections -> Conn]
        BY <1>w, <2>2, ClosingType
      <3>2. "closing" \in StopPhases \ {"none"}
        BY DEF StopPhases
      <3>3. /\ stop' \in Plan /\ (stop'.phase = "none" => stop' = NoStop)
            /\ pc' \in [Stoppers -> PcStates] /\ start' \in StartStates /\ disp' \in {"off", "on", "stopping"}
        BY <2>2, <3>2, StopTypes
      <3> QED
        BY <1>w, <1>g, <1>17, <2>2, <3>1, <3>3 DEF hbVars
    <2> QED
      BY <1>w, <1>17, <2>1, <2>2, ClosesEffect
  <1>18. CASE StoppingTold
    <2>1. CASE stop' = [stop EXCEPT !.phase = "heartbeats"] /\ UNCHANGED <<conn, state, disp, pc, start>>
      <3>1. stop' \in Plan /\ stop'.phase = "heartbeats"
        BY <1>w, <2>1 DEF Plan, StopPhases
      <3> QED
        BY <1>w, <1>g, <1>18, <2>1, <3>1 DEF StoppingTold, hbVars
    <2>2. CASE ClosesConnections(stop)
      BY <1>w, <1>17, <1>18, <2>2 DEF StoppingTold
    <2> QED
      BY <1>18, <2>1, <2>2 DEF StoppingTold
  <1>19. CASE HeartbeatsGone
    BY <1>w, <1>17, <1>19 DEF HeartbeatsGone
  <1>20. CASE ConnectionsClosed
    BY <1>w, <1>16, <1>20, AwaitsEffect DEF ConnectionsClosed, connVars, hbVars
  <1>21. CASE ListenerClosed
    BY <1>w, <1>16, <1>21, ConcludesEffect DEF ListenerClosed, connVars, hbVars
  <1>22. CASE StoppedTold \/ FinisherRuns
    <2>1. Over(stop) \/ \E ph \in StopPhases \ {"none"} : GoesOn(stop, ph)
      BY <1>w, <1>22, StopsDispatcherEffect, PlanMoves DEF StoppedTold, FinisherRuns, StopPhases
    <2>2. UNCHANGED <<setup, state, listener, connVars, hbVars, cast, handler, calls>>
      BY <1>22 DEF StoppedTold, FinisherRuns
    <2> QED
      BY <1>w, <1>g, <2>1, <2>2, StopTypes DEF connVars, hbVars
  <1>23. ASSUME NEW k \in Stoppers, StopperCancelled(k) PROVE TypeOK'
    <2> DEFINE failed == [stop EXCEPT !.error = TRUE]
    <2>0. failed \in Plan /\ failed.phase = stop.phase /\ failed.by = stop.by
      BY <1>w, PlanFails
    <2>1. \/ pc' = [pc EXCEPT ![k] = "raised"] /\ UNCHANGED <<stop, state, disp, start>>
          \/ Completed(failed) /\ UNCHANGED <<state, disp>>
          \/ Concludes(failed)
          \/ stop.by = k /\ stop' = failed /\ UNCHANGED <<pc, state, disp, start>>
      BY <1>23 DEF StopperCancelled
    <2>2. UNCHANGED <<setup, listener, conn, accept, registered, senders, beating, cast, handler>>
      BY <1>23 DEF StopperCancelled, connVars, hbVars
    <2> HIDE DEF failed
    <2>3. CASE pc' = [pc EXCEPT ![k] = "raised"] /\ UNCHANGED <<stop, state, disp, start>>
      <3>1. pc' \in [Stoppers -> PcStates]
        BY <1>w, <2>3 DEF PcStates
      <3> QED
        BY <1>w, <1>g, <2>2, <2>3, <3>1
    <2>4. CASE Completed(failed) /\ UNCHANGED <<state, disp>>
      <3>1. stop' = NoStop /\ NoStop \in Plan
        BY <2>4 DEF Completed, NoStop, Plan, StopPhases
      <3>2. pc' \in [Stoppers -> PcStates] /\ start' \in StartStates
        BY <1>w, <2>4 DEF Completed, CallsAfter, Outcome, PcStates, StartStates
      <3> QED
        BY <1>w, <1>g, <2>2, <2>4, <3>1, <3>2
    <2>5. CASE Concludes(failed)
      BY <1>w, <1>16, <2>0, <2>2, <2>5, ConcludesEffect
    <2>6. CASE stop.by = k /\ stop' = failed /\ UNCHANGED <<pc, state, disp, start>>
      <3>1. stop # NoStop
        BY <2>6, TaskAssumption DEF NoStop
      <3> QED
        BY <1>w, <1>g, <2>0, <2>2, <2>6, <3>1
    <2> QED
      BY <2>1, <2>3, <2>4, <2>5, <2>6
  <1>24. CASE UNCHANGED vars
    BY <1>w, <1>g, <1>24 DEF vars, connVars, hbVars
  <1> QED
    BY <1>1, <1>2, <1>3, <1>4, <1>5, <1>6, <1>7, <1>8, <1>9, <1>10, <1>11, <1>12, <1>13, <1>14, <1>15,
       <1>18, <1>19, <1>20, <1>21, <1>22, <1>23, <1>24
    DEF Next, CloseStep, AcceptStep, StopStep, BroadcastStep

LEMMA TypeInit == Init => TypeOK
  BY DEF Init, TypeOK, NoStop, StopPhases, ConnStates, AcceptStates, StartStates

\* Every variable keeps its type, and a stop or a broadcast that is over has left
\* nothing for the next one to find: its plan, its error and its targets are gone.
THEOREM TypeCorrect == Spec => []TypeOK
  BY TypeInit, TypeStep, PTL DEF Spec


-----------------------------------------------------------------------------
(***************************************************************************)
(* Connections and heartbeats.                                              *)
(***************************************************************************)
\* Every action keeps Owned.
LEMMA OwnedStep == TypeOK /\ Owned /\ [Next]_vars => Owned'
  <1> SUFFICES ASSUME TypeOK, Owned, [Next]_vars PROVE Owned'
    OBVIOUS
  <1>w. /\ stop \in Plan /\ conn \in [Connections -> Conn] /\ (stop.phase = "none" => stop = NoStop)
        /\ registered \subseteq Connections /\ senders \subseteq Connections /\ beating \subseteq Connections
    BY StopTyped DEF TypeOK
  <1> USE DEF Owned, ConnectionsOwned, HeartbeatsOwned, Served
  \* What a step that changes only the plan must keep.
  <1>q. ASSUME UNCHANGED <<conn, registered, senders, beating>>,
               stop.phase \in {"stopping", "heartbeats"} =>
                 /\ stop'.phase \in {"stopping", "heartbeats"}
                 /\ stop'.conns = stop.conns /\ stop'.beats = stop.beats,
               stop.phase = "closing" =>
                 \/ stop'.phase = "closing" /\ stop'.conns = stop.conns
                 \/ \A c \in stop.conns : conn[c].st \notin {"up", "closing"}
        PROVE  Owned'
    BY <1>q
  \* A close task for each connection of cs that is up.
  <1>c. ASSUME NEW cs, conn' = Closing(cs, FALSE), UNCHANGED <<registered, hbVars, stop>>
        PROVE  Owned'
    <2>1. \A d \in Connections : /\ conn'[d].st = "up" => conn[d].st = "up"
                                 /\ conn'[d].st = "closing" => conn[d].st \in {"up", "closing"}
                                 /\ conn[d].st = "callback" => conn'[d].st = "callback"
      BY <1>w, <1>c, ClosingType
    <2> QED
      BY <1>w, <1>c, <2>1 DEF hbVars
  \* A connection c that is neither served nor closing moves on to s.
  <1>m. ASSUME NEW c \in Connections, NEW s \in ConnStates, s \notin {"up", "closing"},
               conn'[c].st = s, \A d \in Connections \ {c} : conn'[d] = conn[d],
               conn[c].st = "callback" => c \notin beating, UNCHANGED <<registered, hbVars, stop>>
        PROVE  Owned'
    BY <1>w, <1>m DEF hbVars
  <1>1. ASSUME NEW c \in Connections, ConnectionDies(c) \/ Abandons(c) PROVE Owned'
    BY <1>c, <1>1 DEF ConnectionDies, Abandons
  <1>2. ASSUME NEW c \in Connections, ClosedCallback(c) PROVE Owned'
    <2>1. PICK s \in ConnStates : /\ conn' = [conn EXCEPT ![c].st = s] /\ s \notin {"up", "closing"}
                                  /\ c \in senders \cap beating => s = "callback"
      BY <1>2 DEF ClosedCallback, AfterCallback, ConnStates
    <2>2. conn'[c].st = s /\ \A d \in Connections \ {c} : conn'[d] = conn[d]
      BY <1>w, <2>1, ConnUpdates
    <2>3. /\ registered' = registered \ {c} /\ senders' = senders \ {c} /\ UNCHANGED <<beating, stop>>
          /\ conn[c].st = "closing"
      BY <1>2 DEF ClosedCallback
    <2> QED
      BY <1>w, <2>1, <2>2, <2>3
  <1>3. ASSUME NEW c \in Connections, CallbackReturns(c) \/ Rejected(c) \/ ClientArrives(c) PROVE Owned'
    <2>1. PICK s \in ConnStates : conn' = [conn EXCEPT ![c].st = s] /\ s \notin {"up", "closing"}
      BY <1>3 DEF CallbackReturns, Rejected, ClientArrives, AfterCallback, ConnStates
    <2>2. conn'[c].st = s /\ \A d \in Connections \ {c} : conn'[d] = conn[d]
      BY <1>w, <2>1, ConnUpdates
    <2> QED
      BY <1>m, <1>3, <2>1, <2>2 DEF CallbackReturns, Rejected, ClientArrives
  <1>4. ASSUME NEW c \in Connections, ClosedPublished(c) PROVE Owned'
    <2>1. conn'[c].st = "over" /\ \A d \in Connections \ {c} : conn'[d] = conn[d]
      BY <1>w, <1>4 DEF ClosedPublished
    <2> QED
      BY <1>m, <1>4, <2>1 DEF ClosedPublished, ConnStates
  <1>5. ASSUME NEW c \in Connections, HeartbeatEnds(c) PROVE Owned'
    BY <1>w, <1>5 DEF HeartbeatEnds, connVars
  <1>6. ASSUME NEW c \in Connections, Decides(c) PROVE Owned'
    <2>1. conn[c].st = "pending" /\ UNCHANGED <<hbVars, stop>>
      BY <1>6 DEF Decides
    <2>2. PICK s \in {"refused", "rejecting", "up"} :
            /\ conn' = [conn EXCEPT ![c].st = s]
            /\ registered' = IF s = "up" THEN registered \cup {c} ELSE registered
      BY <1>6 DEF Decides
    <2>3. s \in ConnStates
      BY DEF ConnStates
    <2>4. conn'[c].st = s /\ \A d \in Connections \ {c} : conn'[d] = conn[d]
      BY <1>w, <2>2, <2>3, ConnUpdates
    <2> QED
      BY <1>w, <2>1, <2>2, <2>4 DEF hbVars
  <1>7. ASSUME NEW c \in Connections, OpenedHandled(c) \/ HandedOff(c) PROVE Owned'
    <2>1. \/ UNCHANGED hbVars
          \/ c \in registered /\ senders' = senders \cup {c} /\ beating' = beating \cup {c}
      BY <1>7 DEF OpenedHandled, HandedOff, StartsHeartbeat
    <2>2. UNCHANGED <<conn, registered, stop>>
      BY <1>7 DEF OpenedHandled, HandedOff
    <2> QED
      BY <1>w, <2>1, <2>2 DEF hbVars
  <1>8. CASE \/ \E c \in Connections : OpenedQueued(c) \/ AcceptFails(c) \/ HandlerBegins(c)
             \/ HandlerReturns \/ BroadcastCalled \/ BroadcastSent \/ BroadcastReturns
             \/ StartCalled \/ StartStep \/ BindRaises \/ StartCancelled
             \/ UNCHANGED vars
    <2>1. UNCHANGED <<conn, registered, senders, beating, stop>>
      BY <1>8 DEF OpenedQueued, AcceptFails, HandlerBegins, HandlerReturns, BroadcastCalled, BroadcastSent,
         BroadcastReturns, StartCalled, StartStep, BindRaises, StartCancelled, StartingQueued,
         StartingHandled, Binds, FailureTold, RunningTold, StartRaises, RollbackEnds, connVars, hbVars, vars
    <2> QED
      BY <1>q, <2>1
  <1>9. CASE BroadcastReported
    BY <1>c, <1>9 DEF BroadcastReported
  <1>10. ASSUME NEW by \in Stoppers \cup {"handler"}, Plans(by), stop.phase = "none", UNCHANGED <<conn, beating>>
         PROVE  Owned'
    <2>1. /\ stop'.phase = "stopping" /\ stop'.conns = registered
          /\ stop'.beats = senders /\ registered' = {} /\ senders' = {}
      BY <1>10, PlansType
    <2> QED
      BY <1>w, <1>10, <2>1
  <1>11. CASE HandlerStops
    BY <1>10, <1>11 DEF HandlerStops
  <1>12. ASSUME NEW k \in Stoppers, StopCalled(k) PROVE Owned'
    <2>1. UNCHANGED <<conn, beating>>
      BY <1>12 DEF StopCalled
    <2>2. \/ Plans(k) /\ stop.phase = "none"
          \/ UNCHANGED <<stop, state, listener, registered, senders>>
      BY <1>12 DEF StopCalled
    <2> QED
      BY <1>10, <1>q, <2>1, <2>2
  <1>13. CASE WorkerExits
    BY <1>q, <1>13 DEF WorkerExits, connVars, hbVars
  <1>14. ASSUME ClosesConnections(stop), UNCHANGED <<registered, hbVars>>,
                stop.phase \in {"stopping", "heartbeats"}, stop.beats \cap beating = {}
         PROVE  Owned'
    <2>1. CASE stop.conns = {} /\ UNCHANGED conn
      BY <1>w, <1>14, <2>1 DEF hbVars
    <2>2. CASE conn' = Closing(stop.conns, stop.by = "handler") /\ GoesOn(stop, "closing")
      <3>1. \A d \in Connections : conn'[d].st = IF d \in stop.conns /\ conn[d].st = "up" THEN "closing"
                                                 ELSE conn[d].st
        BY <1>w, <2>2, ClosingType
      <3>2. stop'.phase = "closing" /\ stop'.conns = stop.conns
        BY <2>2 DEF GoesOn
      <3> QED
        BY <1>w, <1>14, <3>1, <3>2 DEF hbVars
    <2> QED
      BY <1>w, <1>14, <2>1, <2>2, ClosesEffect
  <1>15. CASE StoppingTold
    <2>1. CASE stop' = [stop EXCEPT !.phase = "heartbeats"] /\ UNCHANGED conn
      <3>1. stop'.phase = "heartbeats" /\ stop'.conns = stop.conns /\ stop'.beats = stop.beats
        BY <1>w, <2>1 DEF Plan
      <3> QED
        BY <1>q, <1>15, <2>1, <3>1 DEF StoppingTold, hbVars
    <2> QED
      BY <1>14, <1>15, <2>1 DEF StoppingTold
  <1>16. CASE HeartbeatsGone
    BY <1>14, <1>16 DEF HeartbeatsGone
  <1>17. CASE ConnectionsClosed
    <2>1. \A c \in stop.conns : conn[c].st \notin {"up", "closing"}
      BY <1>17 DEF ConnectionsClosed, CloseReturned
    <2> QED
      BY <1>q, <1>17, <2>1 DEF ConnectionsClosed, connVars, hbVars
  <1>18. CASE ListenerClosed \/ StoppedTold \/ FinisherRuns
    BY <1>q, <1>18 DEF ListenerClosed, StoppedTold, FinisherRuns, connVars, hbVars
  <1>19. ASSUME NEW k \in Stoppers, StopperCancelled(k) PROVE Owned'
    <2>1. \/ UNCHANGED stop
          \/ stop.phase \in {"draining", "listener"}
          \/ stop' = [stop EXCEPT !.error = TRUE]
      BY <1>19 DEF StopperCancelled
    <2>2. UNCHANGED <<conn, registered, senders, beating>>
      BY <1>19 DEF StopperCancelled, connVars, hbVars
    <2>3. \/ stop.phase \in {"draining", "listener"}
          \/ stop'.phase = stop.phase /\ stop'.conns = stop.conns /\ stop'.beats = stop.beats
      BY <1>w, <2>1 DEF Plan
    <2> QED
      BY <1>q, <2>2, <2>3
  <1> QED
    BY <1>1, <1>2, <1>3, <1>4, <1>5, <1>6, <1>7, <1>8, <1>9, <1>11, <1>12, <1>13, <1>15,
       <1>16, <1>17, <1>18, <1>19
    DEF Next, CloseStep, AcceptStep, StopStep, BroadcastStep


-----------------------------------------------------------------------------
(***************************************************************************)
(* The lives of the server.                                                 *)
(***************************************************************************)
\* Every action keeps Life.
LEMMA LifeStep == TypeOK /\ Life /\ [Next]_vars => Life'
  <1> SUFFICES ASSUME TypeOK, Life, [Next]_vars PROVE Life'
    OBVIOUS
  <1>w. /\ stop \in Plan /\ (stop.phase = "none" => stop = NoStop)
        /\ start \in StartStates /\ disp \in {"off", "on", "stopping"}
        /\ state \in {"STOPPED", "STARTING", "RUNNING", "STOPPING"} /\ listener \in {"none", "held", "plan"}
    BY StopTyped DEF TypeOK
  <1>n. NoStop.phase = "none" /\ ~NoStop.transition /\ NoStop.by = "none"
    BY DEF NoStop
  <1> USE DEF Life, ListenerOwned, StartSide, OneLife, Active
  <1>k. ASSUME UNCHANGED <<setup, state, listener, start, disp, stop>>, registered' \subseteq registered
        PROVE  Life'
    BY <1>k
  <1>1. CASE \/ \E c \in Connections : \/ CloseStep(c) \/ ClientArrives(c) \/ ConnectionDies(c)
                                       \/ HeartbeatEnds(c) \/ HandlerBegins(c) \/ Rejected(c)
                                       \/ OpenedQueued(c) \/ OpenedHandled(c) \/ HandedOff(c)
                                       \/ Abandons(c) \/ AcceptFails(c)
             \/ BroadcastStep \/ BroadcastCalled \/ HandlerReturns \/ UNCHANGED vars
    <2>1. UNCHANGED <<setup, state, listener, start, disp, stop>> /\ registered' \subseteq registered
      BY <1>1 DEF CloseStep, ClosedCallback, CallbackReturns, ClosedPublished, ClientArrives,
         ConnectionDies, HeartbeatEnds, HandlerBegins, Rejected, OpenedQueued, OpenedHandled, HandedOff,
         Abandons, AcceptFails, BroadcastStep, BroadcastCalled, BroadcastSent, BroadcastReported,
         BroadcastReturns, HandlerReturns, connVars, hbVars, vars
    <2> QED
      BY <1>k, <2>1
  <1>2. ASSUME NEW c \in Connections, Decides(c) PROVE Life'
    BY <1>2 DEF Decides
  <1>3. CASE StartCalled
    BY <1>w, <1>n, <1>3 DEF StartCalled, Quiet, connVars
  <1>4. ASSUME RollsBack, UNCHANGED <<setup, registered, stop>> PROVE Life'
    BY <1>w, <1>n, <1>4 DEF RollsBack, StartStopsDispatcher
  <1>5. ASSUME start = "binding", BindFails, UNCHANGED <<setup, listener, registered, stop>> PROVE Life'
    BY <1>w, <1>n, <1>5 DEF BindFails, StartStopsDispatcher
  <1>6. CASE StartingQueued \/ StartRaises
    BY <1>w, <1>n, <1>4, <1>6 DEF StartingQueued, StartRaises, connVars
  <1>7. CASE StartingHandled \/ Binds \/ RunningTold
    BY <1>w, <1>n, <1>7 DEF StartingHandled, Binds, RunningTold, connVars
  <1>8. CASE FailureTold \/ RollbackEnds
    BY <1>w, <1>n, <1>8 DEF FailureTold, RollbackEnds, StartStopsDispatcher, connVars
  <1>9. CASE BindRaises
    BY <1>5, <1>9 DEF BindRaises, connVars
  <1>10. CASE StartCancelled
    <2>1. UNCHANGED <<setup, registered, stop>>
      BY <1>10 DEF StartCancelled, connVars
    <2>2. CASE RollsBack
      BY <1>4, <2>1, <2>2
    <2>3. CASE start = "binding" /\ BindFails /\ UNCHANGED listener
      BY <1>5, <2>1, <2>3
    <2>4. CASE /\ start \in {"handling", "join"} /\ start' \in {"idle", "doomed"}
               /\ UNCHANGED <<state, listener, disp>>
      BY <2>1, <2>4
    <2> QED
      BY <1>10, <2>2, <2>3, <2>4 DEF StartCancelled
  <1>11. ASSUME NEW by \in Stoppers \cup {"handler"}, Plans(by), stop.phase = "none", UNCHANGED setup
         PROVE  /\ stop'.phase = "stopping" /\ stop'.by = by /\ (stop'.transition <=> Active)
                /\ state' = (IF Active THEN "STOPPING" ELSE state) /\ registered' = {}
                /\ listener' = (IF listener = "held" THEN "plan" ELSE listener)
                /\ listener' = "plan" => stop'.listener
    BY <1>w, <1>11, PlansType
  <1>12. CASE HandlerStops
    <2>1. /\ UNCHANGED setup /\ disp' = "stopping" /\ stop.phase = "none" /\ Plans("handler")
          /\ start' \in {start, "dropped"}
      BY <1>12 DEF HandlerStops
    <2>2. /\ stop'.phase = "stopping" /\ stop'.by = "handler" /\ (stop'.transition <=> Active)
          /\ state' = (IF Active THEN "STOPPING" ELSE state) /\ registered' = {}
          /\ listener' = (IF listener = "held" THEN "plan" ELSE listener)
          /\ listener' = "plan" => stop'.listener
      BY <1>11, <2>1
    <2> QED
      BY <1>w, <1>n, <2>1, <2>2
  <1>13. ASSUME NEW k \in Stoppers, StopCalled(k) PROVE Life'
    <2>1. UNCHANGED <<setup, disp, start>>
      BY <1>13 DEF StopCalled
    <2>2. CASE Plans(k) /\ stop.phase = "none"
      <3>1. /\ stop'.phase = "stopping" /\ (stop'.transition <=> Active)
            /\ state' = (IF Active THEN "STOPPING" ELSE state) /\ registered' = {}
            /\ listener' = (IF listener = "held" THEN "plan" ELSE listener)
            /\ listener' = "plan" => stop'.listener
        BY <1>11, <2>1, <2>2
      <3> QED
        BY <1>w, <1>n, <2>1, <2>2, <3>1
    <2>3. CASE UNCHANGED <<stop, state, listener, registered, senders>>
      BY <1>k, <2>1, <2>3
    <2> QED
      BY <1>13, <2>2, <2>3 DEF StopCalled
  <1>14. CASE WorkerExits
    BY <1>w, <1>n, <1>14 DEF WorkerExits, connVars
  \* A step that takes the stop of plan p further.
  <1>s. ASSUME NEW p \in Plan, p.phase \notin {"none", "draining"}, p.phase = stop.phase,
               p.transition = stop.transition, p.by = stop.by,
               \/ Concluded(p)
               \/ UNCHANGED state /\ Over(p) /\ p.phase \in {"stopped", "closes"}
               \/ /\ UNCHANGED state
                  /\ \E ph \in {"listener", "closing", "heartbeats", "telling", "closes", "stopped", "draining"} :
                       GoesOn(p, ph) /\ (ph \in {"telling", "closes", "stopped", "draining"} => p.phase \in {"handlers", "telling", "closes", "stopped"}),
               listener' \in {listener, "none"}, listener' # "plan", listener = "held" => listener' = "held",
               UNCHANGED <<setup, registered>>
        PROVE  Life'
    <2>1. /\ state' \in {state, "STOPPED"} /\ (state = "RUNNING" => state' = "RUNNING")
          /\ (state = "STARTING" => state' = "STARTING")
          /\ stop.phase \notin {"none", "draining"}
      BY <1>s DEF Concluded
    <2>2. CASE Over(p)
      <3>1. /\ stop' = NoStop /\ disp' = disp /\ (disp = "off" \/ (~stop.transition /\ stop.by # "handler"))
            /\ start' = IF start = "join" THEN "idle" ELSE start
        BY <1>s, <2>2 DEF Over, Completed
      <3>2. state' = "STOPPING" => setup.overlap
        <4>1. CASE Concluded(p)
          BY <1>s, <2>1, <4>1 DEF Concluded
        <4>2. CASE UNCHANGED state /\ p.phase \in {"stopped", "closes"}
          BY <1>s, <4>2
        <4>3. ASSUME NEW ph, ph # "none" PROVE ~GoesOn(p, ph)
          BY <1>n, <3>1, <4>3 DEF GoesOn
        <4> QED
          BY <1>s, <4>1, <4>2, <4>3
      <3> QED
        BY <1>w, <1>n, <1>s, <2>1, <3>1, <3>2
    <2>3. ASSUME NEW ph \in StopPhases \ {"none"}, GoesOn(p, ph)
          PROVE  /\ stop'.phase = ph /\ stop'.transition = stop.transition /\ stop'.by = stop.by
                 /\ disp' = (IF ph = "draining" THEN "stopping" ELSE disp) /\ UNCHANGED start
      BY <1>s, <2>3 DEF GoesOn
    <2>4. ASSUME NEW ph \in {"handlers", "stopped", "draining"}, GoesOn(p, ph), Concluded(p) PROVE Life'
      <3>1. ph \in StopPhases \ {"none"}
        BY DEF StopPhases
      <3>2. state' = "STOPPING" => setup.overlap
        BY <1>s, <2>1, <2>4 DEF Concluded
      <3> QED
        BY <1>w, <1>s, <2>1, <2>3, <2>4, <3>1, <3>2
    <2>5. ASSUME NEW ph \in {"listener", "closing", "heartbeats", "telling", "closes", "stopped", "draining"},
                 GoesOn(p, ph), UNCHANGED state,
                 ph \in {"telling", "closes", "stopped", "draining"} => p.phase \in {"handlers", "telling", "closes", "stopped"}
          PROVE  Life'
      <3>1. ph \in StopPhases \ {"none"}
        BY DEF StopPhases
      <3> QED
        BY <1>w, <1>s, <2>1, <2>3, <2>5, <3>1
    <2> QED
      BY <1>s, <2>2, <2>4, <2>5 DEF Concluded
  <1>15. CASE StoppingTold
    <2>1. /\ listener' \in {listener, "none"} /\ listener' # "plan" /\ (listener = "held" => listener' = "held")
          /\ UNCHANGED <<setup, registered>> /\ stop.phase = "stopping"
      BY <1>w, <1>15 DEF StoppingTold
    <2>2. CASE stop' = [stop EXCEPT !.phase = "heartbeats"] /\ UNCHANGED <<conn, state, disp, pc, start>>
      <3>1. GoesOn(stop, "heartbeats")
        BY <1>w, <2>2, PlanMoves DEF StopPhases
      <3> QED
        BY <1>w, <1>s, <2>1, <2>2, <3>1
    <2>3. CASE ClosesConnections(stop)
      BY <1>w, <1>s, <2>1, <2>3, ClosesEffect DEF Awaited
    <2> QED
      BY <1>15, <2>2, <2>3 DEF StoppingTold
  <1>16. CASE HeartbeatsGone
    <2>1. listener # "plan" /\ UNCHANGED <<setup, registered, listener>> /\ stop.phase = "heartbeats"
      BY <1>16 DEF HeartbeatsGone
    <2> QED
      BY <1>w, <1>s, <1>16, <2>1, ClosesEffect DEF HeartbeatsGone, Awaited
  <1>17. CASE ConnectionsClosed
    <2>1. listener # "plan" /\ UNCHANGED <<setup, registered, listener>> /\ stop.phase = "closing"
      BY <1>17 DEF ConnectionsClosed, connVars
    <2> QED
      BY <1>w, <1>s, <1>17, <2>1, AwaitsEffect DEF ConnectionsClosed, Awaited
  <1>18. CASE ListenerClosed
    <2>1. listener # "plan" /\ UNCHANGED <<setup, registered, listener>> /\ stop.phase = "listener"
      BY <1>18 DEF ListenerClosed, connVars
    <2> QED
      BY <1>w, <1>s, <1>18, <2>1, ConcludesEffect DEF ListenerClosed
  <1>19. CASE StoppedTold \/ FinisherRuns
    <2>1. /\ listener # "plan" /\ UNCHANGED <<setup, registered, listener, state>>
          /\ stop.phase \in {"stopped", "handlers", "telling", "closes"}
      BY <1>19 DEF StoppedTold, FinisherRuns, connVars
    <2>2. \/ StopsDispatcher(stop) /\ stop.phase \in {"stopped", "closes"}
          \/ \E ph \in {"telling", "closes", "stopped"} :
               stop' = [stop EXCEPT !.phase = ph] /\ UNCHANGED <<disp, pc, start>>
      BY <1>19 DEF StoppedTold, FinisherRuns
    <2>3. \/ Over(stop) /\ stop.phase \in {"stopped", "closes"}
          \/ \E ph \in {"telling", "closes", "stopped", "draining"} : GoesOn(stop, ph)
      <3>1. {"telling", "closes", "stopped"} \subseteq StopPhases \ {"draining"}
        BY DEF StopPhases
      <3> QED
        BY <1>w, <2>2, <3>1, StopsDispatcherEffect, PlanMoves
    <2> QED
      BY <1>w, <1>s, <2>1, <2>3
  <1>20. ASSUME NEW k \in Stoppers, StopperCancelled(k) PROVE Life'
    <2> DEFINE failed == [stop EXCEPT !.error = TRUE]
    <2>0. /\ failed \in Plan /\ failed.phase = stop.phase /\ failed.by = stop.by
          /\ failed.transition = stop.transition /\ failed.listener = stop.listener
      BY <1>w, PlanFails
    <2>1. \/ UNCHANGED <<stop, state, disp, start>>
          \/ stop.phase = "draining" /\ Completed(failed) /\ UNCHANGED <<state, disp>>
          \/ stop.phase = "listener" /\ Concludes(failed)
          \/ stop' = failed /\ UNCHANGED <<pc, state, disp, start>>
      BY <1>20 DEF StopperCancelled
    <2>2. UNCHANGED <<setup, listener, registered>> /\ setup.cancels # 0
      <3>1. calls.cancels \in Nat /\ setup.cancels \in Nat /\ calls.cancels < setup.cancels
        BY <1>20, SetupAssumption DEF StopperCancelled, TypeOK
      <3> QED
        BY <1>20, <3>1 DEF StopperCancelled, connVars
    <2> HIDE DEF failed
    <2>3. CASE UNCHANGED <<stop, state, disp, start>>
      BY <1>k, <2>2, <2>3
    <2>4. CASE stop.phase = "draining" /\ Completed(failed) /\ UNCHANGED <<state, disp>>
      BY <1>w, <1>n, <2>2, <2>4 DEF Completed
    <2>5. CASE stop.phase = "listener" /\ Concludes(failed)
      BY <1>w, <1>s, <2>0, <2>2, <2>5, ConcludesEffect
    <2>6. CASE stop' = failed /\ UNCHANGED <<pc, state, disp, start>>
      BY <2>0, <2>2, <2>6
    <2> QED
      BY <2>1, <2>3, <2>4, <2>5, <2>6
  <1> QED
    BY <1>1, <1>2, <1>3, <1>6, <1>7, <1>8, <1>9, <1>10, <1>12, <1>13, <1>14, <1>15, <1>16, <1>17, <1>18,
       <1>19, <1>20
    DEF Next, AcceptStep, StartStep, StopStep


LEMMA InvInit == Init => ServerInv
  BY DEF Init, ServerInv, Owned, Life, ConnectionsOwned, HeartbeatsOwned, Served, ListenerOwned, StartSide,
     OneLife, Active, NoStop

LEMMA InvInvariant == Spec => []ServerInv
  BY InvInit, TypeCorrect, OwnedStep, LifeStep, PTL DEF Spec, ServerInv

\* The server keeps track of what it owns: every connected connection, every
\* heartbeat task and the listener have somebody who will end them, whatever the
\* interleaving of clients, start() with its rollbacks, stop(), broadcast() and
\* cancellations.
THEOREM ServerOwnsEverything == Spec => []EverythingOwned
  <1>1. ServerInv => EverythingOwned
    BY DEF ServerInv, Owned, Life, EverythingOwned
  <1> QED
    BY <1>1, InvInvariant, PTL

-----------------------------------------------------------------------------
(***************************************************************************)
(* max_connections.                                                         *)
(***************************************************************************)
Serving == {c \in Connections : conn[c].st \in {"up", "closing"}}

\* Only the decision under the lock adds to what is served.
LEMMA ServingStep ==
  ASSUME TypeOK, [Next]_vars
  PROVE  \/ Serving' \subseteq Serving
         \/ /\ state = "RUNNING" /\ ~(Cardinality(registered) >= setup.limit)
            /\ \E c \in Connections : Serving' \subseteq Serving \cup {c}
  <1>w. stop \in Plan /\ conn \in [Connections -> Conn]
    BY StopTyped
  <1> USE DEF Serving
  <1>1. ASSUME NEW cs, NEW P \in BOOLEAN, conn' = Closing(cs, P) PROVE Serving' \subseteq Serving
    BY <1>w, <1>1, ClosingType
  <1>2. ASSUME NEW c \in Connections, NEW s \in ConnStates, s \notin {"up", "closing"},
               conn' = [conn EXCEPT ![c].st = s]
        PROVE  Serving' \subseteq Serving
    BY <1>w, <1>2, ConnUpdates
  <1>3. CASE UNCHANGED conn
    BY <1>3
  <1>4. ASSUME NEW c \in Connections,
               \/ ClosedCallback(c) \/ CallbackReturns(c) \/ Rejected(c) \/ ClientArrives(c)
        PROVE  Serving' \subseteq Serving
    <2>1. \E s \in ConnStates : s \notin {"up", "closing"} /\ conn' = [conn EXCEPT ![c].st = s]
      BY <1>4 DEF ClosedCallback, CallbackReturns, Rejected, ClientArrives, AfterCallback, ConnStates
    <2> QED
      BY <1>2, <2>1
  <1>5. ASSUME NEW c \in Connections, ClosedPublished(c) PROVE Serving' \subseteq Serving
    BY <1>w, <1>5 DEF ClosedPublished
  <1>6. CASE \/ \E c \in Connections : ConnectionDies(c) \/ Abandons(c)
             \/ BroadcastReported
    BY <1>1, <1>6 DEF ConnectionDies, Abandons, BroadcastReported
  <1>7. ASSUME NEW c \in Connections, Decides(c)
        PROVE  \/ Serving' \subseteq Serving
               \/ /\ state = "RUNNING" /\ ~(Cardinality(registered) >= setup.limit)
                  /\ Serving' \subseteq Serving \cup {c}
    <2>1. CASE \E s \in {"refused", "rejecting"} : conn' = [conn EXCEPT ![c].st = s]
      BY <1>2, <2>1 DEF ConnStates
    <2>2. CASE conn' = [conn EXCEPT ![c].st = "up"]
      <3>1. Serving' \subseteq Serving \cup {c}
        BY <1>w, <2>2
      <3>2. state = "RUNNING" /\ ~(Cardinality(registered) >= setup.limit)
        <4>1. conn'[c].st = "up"
          BY <1>w, <2>2, ConnUpdates DEF ConnStates
        <4>2. ASSUME NEW s \in {"refused", "rejecting"}, conn' = [conn EXCEPT ![c].st = s] PROVE FALSE
          <5>1. s \in ConnStates
            BY DEF ConnStates
          <5>2. conn'[c].st = s
            BY <1>w, <4>2, <5>1, ConnUpdates
          <5> QED
            BY <4>1, <5>2
        <4> QED
          BY <1>7, <4>2 DEF Decides
      <3> QED
        BY <3>1, <3>2
    <2> QED
      BY <1>7, <2>1, <2>2 DEF Decides
  <1>8. ASSUME ClosesConnections(stop) PROVE Serving' \subseteq Serving
    <2>1. UNCHANGED conn \/ conn' = Closing(stop.conns, stop.by = "handler")
      BY <1>w, <1>8, ClosesEffect
    <2> QED
      BY <1>1, <1>3, <2>1
  <1>9. CASE StoppingTold \/ HeartbeatsGone
    BY <1>3, <1>8, <1>9 DEF StoppingTold, HeartbeatsGone
  <1>10. CASE \/ \E c \in Connections : \/ HeartbeatEnds(c) \/ HandlerBegins(c) \/ OpenedQueued(c)
                                        \/ OpenedHandled(c) \/ HandedOff(c) \/ AcceptFails(c)
              \/ \E k \in Stoppers : StopCalled(k) \/ StopperCancelled(k)
              \/ StartStep \/ StartCalled \/ BindRaises \/ StartCancelled \/ HandlerStops
              \/ ConnectionsClosed \/ ListenerClosed \/ StoppedTold \/ FinisherRuns
              \/ BroadcastCalled \/ BroadcastSent \/ BroadcastReturns \/ HandlerReturns \/ WorkerExits
              \/ UNCHANGED vars
    <2>1. UNCHANGED conn
      BY <1>10 DEF HeartbeatEnds, HandlerBegins, OpenedQueued, OpenedHandled, HandedOff, AcceptFails,
         StopCalled, StopperCancelled, StartStep, StartCalled, BindRaises, StartCancelled, HandlerStops,
         ConnectionsClosed, ListenerClosed, StoppedTold, FinisherRuns, BroadcastCalled, BroadcastSent,
         BroadcastReturns, HandlerReturns, WorkerExits, StartingQueued, StartingHandled, Binds, FailureTold,
         RunningTold, StartRaises, RollbackEnds, connVars, vars
    <2> QED
      BY <1>3, <2>1
  <1> QED
    BY <1>4, <1>5, <1>6, <1>7, <1>9, <1>10
    DEF Next, CloseStep, AcceptStep, StopStep, BroadcastStep

LEMMA SetupFixed == [Next]_vars => UNCHANGED setup
  <1> SUFFICES ASSUME [Next]_vars PROVE UNCHANGED setup
    OBVIOUS
  <1>1. CASE \/ \E c \in Connections : \/ CloseStep(c) \/ AcceptStep(c) \/ ClientArrives(c)
                                       \/ ConnectionDies(c) \/ HeartbeatEnds(c) \/ HandlerBegins(c)
             \/ \E k \in Stoppers : StopCalled(k) \/ StopperCancelled(k)
    BY <1>1 DEF CloseStep, AcceptStep, ClientArrives, ConnectionDies, HeartbeatEnds, HandlerBegins,
       StopCalled, StopperCancelled, ClosedCallback, CallbackReturns, ClosedPublished, Decides, Rejected,
       OpenedQueued, OpenedHandled, HandedOff, Abandons, AcceptFails
  <1>2. CASE StartStep \/ StartCalled \/ BindRaises \/ StartCancelled
    BY <1>2 DEF StartCalled, StartStep, BindRaises, StartCancelled, StartingQueued, StartingHandled,
       Binds, FailureTold, RunningTold, StartRaises, RollbackEnds
  <1>3. CASE StopStep \/ HandlerStops
    BY <1>3 DEF StopStep, HandlerStops, StoppingTold, HeartbeatsGone, ConnectionsClosed,
       ListenerClosed, StoppedTold, FinisherRuns
  <1>4. CASE BroadcastStep \/ BroadcastCalled \/ HandlerReturns \/ WorkerExits
    BY <1>4 DEF BroadcastStep, BroadcastCalled, BroadcastSent, BroadcastReported,
       BroadcastReturns, HandlerReturns, WorkerExits
  <1> QED
    BY <1>1, <1>2, <1>3, <1>4 DEF Next, vars

LEMMA LimitStep ==
  ASSUME TypeOK, ServerInv, LimitKept, [Next]_vars
  PROVE  LimitKept'
  <1> SUFFICES ASSUME ~setup.overlap
               PROVE  Cardinality(Serving') <= setup.limit
    BY SetupFixed DEF LimitKept, Serving
  <1>1. setup.limit \in Nat /\ IsFiniteSet(Connections) /\ registered \subseteq Connections
    BY SetupAssumption, TaskAssumption DEF TypeOK
  <1>2. /\ IsFiniteSet(Serving) /\ Cardinality(Serving) \in Nat /\ Cardinality(Serving) <= setup.limit
        /\ IsFiniteSet(registered) /\ Cardinality(registered) \in Nat
    <2>1. IsFiniteSet(Serving) /\ IsFiniteSet(registered)
      BY <1>1, FS_Subset DEF Serving
    <2> QED
      BY <2>1, FS_CardinalityType DEF LimitKept, Serving
  <1>3. CASE Serving' \subseteq Serving
    BY <1>1, <1>2, <1>3, FS_Subset, FS_CardinalityType
  <1>4. ASSUME NEW c \in Connections, state = "RUNNING", ~(Cardinality(registered) >= setup.limit),
               Serving' \subseteq Serving \cup {c}
        PROVE  Cardinality(Serving') <= setup.limit
    <2>1. Serving \subseteq registered
      BY <1>4 DEF ServerInv, Owned, Life, Served, OneLife, Active, Serving
    <2>2. IsFiniteSet(registered \cup {c}) /\ Serving' \subseteq registered \cup {c}
      BY <1>2, <1>4, <2>1, FS_AddElement
    <2>3. /\ Cardinality(registered \cup {c}) \in Nat
          /\ Cardinality(registered \cup {c}) <= Cardinality(registered) + 1
      BY <1>2, <2>2, FS_AddElement, FS_CardinalityType
    <2>4. Cardinality(Serving') \in Nat /\ Cardinality(Serving') <= Cardinality(registered \cup {c})
      BY <2>2, FS_Subset, FS_CardinalityType
    <2> QED
      BY <1>1, <1>2, <1>4, <2>3, <2>4
  <1> QED
    BY <1>3, <1>4, ServingStep

\* max_connections holds at every moment of a server whose lives do not overlap:
\* connections whose opened event is still being handled, and the ones still
\* closing, take their slot.
THEOREM ServerKeepsLimit == Spec => []LimitKept
  <1>1. Init => LimitKept
    <2> SUFFICES ASSUME Init PROVE LimitKept
      OBVIOUS
    <2>1. {c \in Connections : conn[c].st \in {"up", "closing"}} = {}
      BY DEF Init
    <2>2. setup.limit \in Nat
      BY SetupAssumption DEF Init
    <2>3. Cardinality({c \in Connections : conn[c].st \in {"up", "closing"}}) = 0
      BY <2>1, FS_EmptySet
    <2> QED
      BY <2>2, <2>3 DEF LimitKept
  <1> QED
    BY <1>1, TypeCorrect, InvInvariant, LimitStep, PTL DEF Spec

-----------------------------------------------------------------------------
(***************************************************************************)
(* What stop() leaves behind.                                               *)
(***************************************************************************)
\* A call of stop() returns normally only when there is nothing to stop, or with
\* the end of the stop it waited for.
LEMMA ReturnStep ==
  ASSUME TypeOK, ServerInv, [Next]_vars, NEW k \in Stoppers, Returns(k), ~setup.overlap, ~RollingBack
  PROVE  /\ stop'.phase = "none" /\ state' \notin {"STARTING", "RUNNING"} /\ registered' = {}
         /\ start' \notin {"rollback", "failed", "draining"} /\ stop'.by = "none"
  <1>w. /\ stop \in Plan /\ (stop.phase = "none" => stop = NoStop) /\ pc \in [Stoppers -> PcStates]
        /\ state \in {"STOPPED", "STARTING", "RUNNING", "STOPPING"}
    BY StopTyped DEF TypeOK
  <1>n. NoStop.phase = "none" /\ NoStop.by = "none"
    BY DEF NoStop
  <1>s. stop.phase # "none" => ~Active /\ registered = {}
    BY DEF ServerInv, Life, OneLife
  <1>p. pc'[k] # pc[k]
    BY DEF Returns
  \* The stop of plan p is over.
  <1>o. ASSUME NEW p, Completed(p), stop.phase # "none", state' \in {state, "STOPPED"}, UNCHANGED registered
        PROVE  /\ stop'.phase = "none" /\ state' \notin {"STARTING", "RUNNING"} /\ registered' = {}
               /\ start' \notin {"rollback", "failed", "draining"} /\ stop'.by = "none"
    BY <1>n, <1>o, <1>s DEF Completed, RollingBack, Active
  <1>c. ASSUME NEW p, stop.phase # "none", UNCHANGED registered,
               \/ Concluded(p) \/ Awaited(p)
               \/ UNCHANGED state /\ (Over(p) \/ \E ph : GoesOn(p, ph))
        PROVE  /\ stop'.phase = "none" /\ state' \notin {"STARTING", "RUNNING"} /\ registered' = {}
               /\ start' \notin {"rollback", "failed", "draining"} /\ stop'.by = "none"
    <2>1. \A ph : ~GoesOn(p, ph)
      BY <1>p DEF GoesOn
    <2>2. Over(p) /\ state' \in {state, "STOPPED"}
      BY <1>c, <2>1 DEF Concluded, Awaited
    <2> QED
      BY <1>c, <1>o, <2>2 DEF Over
  <1>1. ASSUME NEW j \in Stoppers, StopCalled(j)
        PROVE  /\ stop'.phase = "none" /\ state' \notin {"STARTING", "RUNNING"} /\ registered' = {}
               /\ start' \notin {"rollback", "failed", "draining"} /\ stop'.by = "none"
    <2>1. stop.phase = "none" /\ ~Active /\ registered = {}
      BY <1>w, <1>1 DEF StopCalled, Returns
    <2> QED
      BY <1>w, <1>n, <1>1, <2>1 DEF StopCalled, RollingBack, Active
  <1>2. CASE WorkerExits
    <2>1. stop.phase = "draining"
      BY <1>p, <1>2 DEF WorkerExits
    <2> QED
      BY <1>n, <1>s, <1>2, <2>1 DEF WorkerExits, RollingBack, Active, connVars
  <1>3. ASSUME ClosesConnections(stop), stop.phase # "none", UNCHANGED registered
        PROVE  /\ stop'.phase = "none" /\ state' \notin {"STARTING", "RUNNING"} /\ registered' = {}
               /\ start' \notin {"rollback", "failed", "draining"} /\ stop'.by = "none"
    BY <1>w, <1>c, <1>3, ClosesEffect
  <1>4. CASE StoppingTold \/ HeartbeatsGone
    BY <1>p, <1>3, <1>4 DEF StoppingTold, HeartbeatsGone
  <1>5. CASE ConnectionsClosed \/ ListenerClosed
    BY <1>w, <1>c, <1>5, AwaitsEffect, ConcludesEffect DEF ConnectionsClosed, ListenerClosed, connVars
  <1>6. CASE StoppedTold \/ FinisherRuns
    <2>1. StopsDispatcher(stop) /\ stop.phase # "none" /\ UNCHANGED <<registered, state>>
      BY <1>p, <1>6 DEF StoppedTold, FinisherRuns, connVars
    <2> QED
      BY <1>w, <1>c, <2>1, StopsDispatcherEffect
  <1>7. ASSUME NEW j \in Stoppers, StopperCancelled(j) PROVE FALSE
    <2> DEFINE failed == [stop EXCEPT !.error = TRUE]
    <2>1. failed \in Plan /\ failed.error
      BY <1>w, PlanFails
    <2>2. \/ pc' = [pc EXCEPT ![j] = "raised"]
          \/ Completed(failed)
          \/ Concludes(failed)
      BY <1>p, <1>7 DEF StopperCancelled
    <2> HIDE DEF failed
    <2>3. ~Completed(failed)
      BY <1>w, <2>1 DEF Completed, CallsAfter, Outcome, Returns
    <2>4. ~Concludes(failed)
      <3>1. \A ph : ~GoesOn(failed, ph)
        BY <1>p DEF GoesOn
      <3> QED
        BY <2>1, <2>3, <3>1, ConcludesEffect DEF Concluded, Over
    <2> QED
      BY <1>w, <2>2, <2>3, <2>4 DEF Returns
  <1>8. CASE \/ \E c \in Connections : \/ CloseStep(c) \/ AcceptStep(c) \/ ClientArrives(c)
                                       \/ ConnectionDies(c) \/ HeartbeatEnds(c) \/ HandlerBegins(c)
             \/ StartStep \/ StartCalled \/ BindRaises \/ StartCancelled \/ HandlerStops
             \/ BroadcastStep \/ BroadcastCalled \/ HandlerReturns \/ UNCHANGED vars
    <2>1. UNCHANGED pc
      BY <1>8 DEF CloseStep, AcceptStep, ClientArrives, ConnectionDies, HeartbeatEnds, HandlerBegins,
         ClosedCallback, CallbackReturns, ClosedPublished, Decides, Rejected, OpenedQueued, OpenedHandled,
         HandedOff, Abandons, AcceptFails, StartStep, StartCalled, BindRaises, StartCancelled,
         StartingQueued, StartingHandled, Binds, FailureTold, RunningTold, StartRaises, RollbackEnds,
         HandlerStops, BroadcastStep, BroadcastCalled, BroadcastSent, BroadcastReported, BroadcastReturns,
         HandlerReturns, vars
    <2> QED
      BY <1>p, <2>1
  <1> QED
    BY <1>1, <1>2, <1>4, <1>5, <1>6, <1>7, <1>8 DEF Next, StopStep

\* A stop() that returns normally leaves nothing behind: no listener, no
\* connection, no dispatcher, and no heartbeat but one that a close callback
\* is waiting for; unless it met a start() that is rolling back.
THEOREM StopLeavesNothingBehind == Spec => StopLeavesNothing
  <1>1. ASSUME TypeOK, ServerInv, TypeOK', ServerInv', [Next]_vars
        PROVE  [\A k \in Stoppers : Returns(k) /\ ~setup.overlap /\ ~RollingBack =>
                  /\ state' = "STOPPED" /\ listener' = "none"
                  /\ disp' # "on" /\ (setup.cancels = 0 => disp' = "off")
                  /\ registered' = {} /\ senders' = {}
                  /\ \A c \in Connections : /\ conn'[c].st \notin {"up", "closing"}
                                            /\ c \in beating' => conn'[c].st = "callback"]_vars
    <2> SUFFICES ASSUME NEW k \in Stoppers, Returns(k), ~setup.overlap, ~RollingBack
                 PROVE  /\ state' = "STOPPED" /\ listener' = "none"
                        /\ disp' # "on" /\ (setup.cancels = 0 => disp' = "off")
                        /\ registered' = {} /\ senders' = {}
                        /\ \A c \in Connections : /\ conn'[c].st \notin {"up", "closing"}
                                                  /\ c \in beating' => conn'[c].st = "callback"
      OBVIOUS
    <2>1. /\ stop'.phase = "none" /\ state' \notin {"STARTING", "RUNNING"} /\ registered' = {}
          /\ start' \notin {"rollback", "failed", "draining"} /\ stop'.by = "none"
      BY <1>1, ReturnStep
    <2>2. setup' = setup
      BY <1>1, SetupFixed
    <2>3. /\ state' \in {"STOPPED", "STARTING", "RUNNING", "STOPPING"} /\ listener' \in {"none", "held", "plan"}
          /\ disp' \in {"off", "on", "stopping"} /\ beating' \subseteq Connections
      BY <1>1 DEF TypeOK
    <2>4. state' = "STOPPED" /\ disp' # "on" /\ (setup.cancels = 0 => disp' = "off")
      BY <1>1, <2>1, <2>2, <2>3 DEF ServerInv, Life, OneLife, Active
    <2>5. listener' = "none"
      BY <1>1, <2>1, <2>3 DEF ServerInv, Life, ListenerOwned
    <2>6. /\ senders' = {}
          /\ \A c \in Connections : /\ conn'[c].st \notin {"up", "closing"}
                                    /\ c \in beating' => conn'[c].st = "callback"
      BY <1>1, <2>1 DEF ServerInv, Owned, Served, HeartbeatsOwned
    <2> QED
      BY <2>1, <2>4, <2>5, <2>6
  <1>2. TypeOK /\ ServerInv /\ TypeOK' /\ ServerInv' /\ [Next]_vars =>
          [\A k \in Stoppers : Returns(k) /\ ~setup.overlap /\ ~RollingBack =>
             /\ state' = "STOPPED" /\ listener' = "none"
             /\ disp' # "on" /\ (setup.cancels = 0 => disp' = "off")
             /\ registered' = {} /\ senders' = {}
             /\ \A c \in Connections : /\ conn'[c].st \notin {"up", "closing"}
                                       /\ c \in beating' => conn'[c].st = "callback"]_vars
    BY <1>1
  <1> QED
    BY <1>2, TypeCorrect, InvInvariant, PTL DEF Spec, StopLeavesNothing
=============================================================================
