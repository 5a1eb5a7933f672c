--------------------------- MODULE TcpClientProofs ---------------------------
(***************************************************************************)
(* The client keeps track of its connection, its heartbeat and its          *)
(* supervisor, and a stop() that returns leaves nothing behind: proofs      *)
(* about TcpClient.                                                         *)
(***************************************************************************)
EXTENDS TcpClient, TLAPS

\* Where a supervisor holds a connection of its own; where it has none, and no
\* connection is alive; where it has nothing to do any more.
Holding == {"opening", "handling", "handoff", "abandoned", "closing"}
Between == {"new", "attempt", "connecting", "scheduled", "sleeping", "failed", "failing"}
Idling == {"unborn", "told", "draining", "done"}
Works(s) == sup[s].pc \notin Idling
Live(c) == conn[c].st \in {"up", "closing"}
\* stop() and the rollback of start() before they release what the client has.
StopComing == stop.transition /\ stop.phase \in {"stopping", "supervisor"}

\* One supervisor works at a time, and somebody will end it: the client runs and
\* knows it, stop() awaits it, or the rollback of start() does.
OneSupervisor ==
  /\ \A s, u \in Supervisors : Works(s) /\ Works(u) => s = u
  /\ \A s \in Supervisors : Works(s) =>
       /\ \/ state = "RUNNING"
          \/ stop.sup = s /\ (stop.handler \/ StopComing)
          \/ start.pc = "rollback" /\ start.sup = s
       /\ supervisor = s <=> state = "RUNNING"

\* The plan of the stop fits the state.
StopSide ==
  /\ stop.phase = "none" => stop.sup = "none" /\ ~stop.transition /\ ~stop.handler
  /\ stop.transition /\ stop.phase \in {"stopping", "supervisor", "release"} => state = "STOPPING"
  /\ stop.transition => stop.dispatcher
  /\ stop.handler => ~setup.overlap /\ ~Running
  /\ handler # "none" => ~setup.overlap /\ disp # "off"
  /\ stop.phase \in {"stopped", "draining"} \/ (stop.phase = "release" /\ ~stop.handler) => SupDone(stop.sup)
  /\ start.pc \in {"rollback", "releasing"} => ~Running

\* The connection that is alive is the client's, or its supervisor's, and there is
\* one at most.
LiveHeld == \A c \in Connections :
  Live(c) => current = c \/ \E s \in Supervisors : sup[s].conn = c /\ sup[s].pc \in Holding
LiveAlone == \A c \in Connections, s \in Supervisors :
  Live(c) => /\ sup[s].pc \in Holding => sup[s].conn = c
             /\ sup[s].pc \notin Between
             /\ sup[s].pc = "finishing" => /\ release[s].at # "released"
                                           /\ release[s].at = "close" => release[s].of = c
HeldIsOpen == \A s \in Supervisors :
  sup[s].pc \in Holding => /\ sup[s].conn \in Connections
                           /\ conn[sup[s].conn].st \notin {"none", "callback"}
                           /\ sup[s].pc = "handoff" => conn[sup[s].conn].st = "deferred"
                           /\ sup[s].pc = "closing" => conn[sup[s].conn].st # "up"
LiveOwned == LiveHeld /\ LiveAlone /\ HeldIsOpen /\ (current # "none" => conn[current].st # "none")

\* While the client's connection is alive, somebody has yet to close it.
Pending(t) == release[t].at = "heartbeat" \/ release[t] = [at |-> "close", of |-> current]
CurrentSide ==
  current # "none" /\ Live(current) =>
    \/ state = "RUNNING" \/ StopComing \/ start.pc = "rollback"
    \/ stop.transition /\ stop.phase = "release" /\ Pending(Releaser)
    \/ start.pc = "releasing" /\ Pending("start")

\* The heartbeat is that of the connection that is alive.
HeartbeatSide ==
  /\ hb # "none" => /\ current = hb /\ Live(hb)
                    /\ state = "RUNNING" \/ StopComing \/ start.pc = "rollback"
  /\ \A s \in Supervisors : sup[s].pc \in Holding \cup Between \cup {"finishing"} => hb = "none"

\* Who releases resources is at it.
ReleaseSide ==
  /\ \A s \in Supervisors : release[s].at # "no" => sup[s].pc \in {"failing", "finishing"}
  /\ release["start"].at # "no" => start.pc = "releasing"
  /\ release["stop"].at # "no" => stop.phase = "release" /\ ~stop.handler
  /\ release["handler"].at # "no" => stop.phase = "release" /\ stop.handler
  /\ \A t \in {"start", "stop", "handler"} : release[t].at # "aborted"

\* One life at a time, unless start() may overlap an old one.  A stop() has the
\* client's supervisor and is the only one to be STOPPING ...
StopKnows ==
  /\ stop.phase # "none" => ~Running /\ supervisor \in {"none", stop.sup}
  /\ state = "STOPPING" => stop.transition /\ stop.phase \in {"stopping", "supervisor", "release"}
  /\ stop.phase # "none" /\ ~stop.dispatcher /\ ~stop.handler => disp = "off"
\* ... somebody knows each supervisor that has not ended, and start() creates none
\* next to it ...
SupKnown ==
  \A s \in Supervisors : sup[s].pc \notin {"unborn", "done"} =>
    /\ supervisor = s \/ stop.sup = s \/ (start.pc = "rollback" /\ start.sup = s)
    /\ start.pc \notin {"starting", "handling", "doomed"}
\* ... and once stop() has released the connection there is none.
Cleared ==
  /\ stop.phase \in {"handlers", "telling", "closes", "stopped", "draining"} => current = "none"
  /\ stop.phase = "release" => /\ release[Releaser].at = "released" => current = "none"
                               /\ release[Releaser].at = "close" => current \in {"none", release[Releaser].of}
OneLife == ~setup.overlap => StopKnows /\ SupKnown /\ Cleared

ClientInv == /\ OneSupervisor /\ StopSide /\ LiveOwned /\ CurrentSide /\ HeartbeatSide
             /\ ReleaseSide /\ OneLife /\ EverythingOwned


-----------------------------------------------------------------------------
(***************************************************************************)
(* What the pieces of the actions do.                                       *)
(***************************************************************************)
SupRec == [pc : SupStates, conn : Connections \cup {"none"}, retry : BOOLEAN, cancelled : BOOLEAN]
ConnRec == [st : ConnStates, beat : Connections \cup {"none"}, inline : BOOLEAN]
StartRec == [pc : StartStates, sup : Supervisors \cup {"none"}]
StopRec == [phase : StopPhases, sup : Supervisors \cup {"none"},
            dispatcher : BOOLEAN, error : BOOLEAN, handler : BOOLEAN, transition : BOOLEAN,
            cancel : BOOLEAN, conn : Connections \cup {"none"}]
RelRec == [at : {"no", "released", "aborted"}, of : {"none"}] \cup [at : {"heartbeat", "close"}, of : Connections]
CallCounts == [starts : Nat, stops : Nat, cancels : Nat, handled : Nat]

\* The types, and what they rest on: a supervisor that holds a connection has
\* one, and start() will find a supervisor to create.
TypeInv ==
  /\ TypeOK
  /\ \A s \in Supervisors : sup[s].pc \in Holding => sup[s].conn \in Connections
  /\ start.pc \in {"starting", "handling"} => \E s \in Supervisors : sup[s].pc = "unborn"

LEMMA Typed ==
  TypeInv => /\ sup \in [Supervisors -> SupRec] /\ conn \in [Connections -> ConnRec]
             /\ start \in StartRec /\ stop \in StopRec /\ release \in [Releasers -> RelRec]
             /\ calls \in CallCounts /\ supervisor \in Supervisors \cup {"none"}
             /\ current \in Connections \cup {"none"} /\ hb \in Connections \cup {"none"}
             /\ beating \subseteq Connections /\ closedEvent \in BOOLEAN
             /\ state \in {"STOPPED", "STARTING", "RUNNING", "STOPPING"}
             /\ disp \in {"off", "on", "stopping"} /\ handler \in Connections \cup {"none", "event"}
             /\ pc \in [Stoppers -> CallStates] /\ setup \in Setups
             /\ "none" \notin Supervisors /\ "none" \notin Connections
             /\ {"start", "stop", "handler"} \subseteq Releasers \ Supervisors
             /\ Supervisors \subseteq Releasers
  BY TaskAssumption DEF TypeInv, TypeOK, SupRec, ConnRec, StartRec, StopRec, RelRec, CallCounts, Names, Releasers

\* Supervisor s goes on at p.
LEMMA GoToEffect ==
  ASSUME sup \in [Supervisors -> SupRec], NEW s \in Supervisors, NEW p \in SupStates, GoTo(s, p)
  PROVE  /\ sup' \in [Supervisors -> SupRec] /\ sup'[s].pc = p
         /\ sup'[s].conn = IF p \in {"handling", "handoff", "abandoned", "closing"} THEN sup[s].conn ELSE "none"
         /\ \A u \in Supervisors \ {s} : sup'[u] = sup[u]
  <1>1. PICK r \in BOOLEAN : r = (sup[s].retry /\ p = "failing")
    <2>1. (sup[s].retry /\ p = "failing") \in BOOLEAN
      OBVIOUS
    <2> QED
      BY <2>1
  <1>2. PICK b \in BOOLEAN : b = (sup[s].cancelled /\ p # "done")
    <2>1. (sup[s].cancelled /\ p # "done") \in BOOLEAN
      OBVIOUS
    <2> QED
      BY <2>1
  <1> DEFINE q == [pc |-> p, conn |-> IF p \in {"handling", "handoff", "abandoned", "closing"}
                                      THEN sup[s].conn ELSE "none", retry |-> r, cancelled |-> b]
  <1>3. sup' = [sup EXCEPT ![s] = q]
    BY <1>1, <1>2 DEF GoTo
  <1>4. /\ q \in SupRec /\ q.pc = p
        /\ q.conn = IF p \in {"handling", "handoff", "abandoned", "closing"} THEN sup[s].conn ELSE "none"
    BY DEF SupRec
  <1> HIDE DEF q
  <1> QED
    BY <1>3, <1>4

\* The opener of s, or its connection.start(), has failed.
LEMMA FailsEffect ==
  ASSUME sup \in [Supervisors -> SupRec], NEW s \in Supervisors, Fails(s)
  PROVE  /\ sup' \in [Supervisors -> SupRec] /\ sup'[s].pc = "failed" /\ sup'[s].conn = "none"
         /\ \A u \in Supervisors \ {s} : sup'[u] = sup[u]
  <1>1. PICK r \in BOOLEAN : r = (Running /\ setup.reconnect)
    <2>1. (Running /\ setup.reconnect) \in BOOLEAN
      BY DEF Running
    <2> QED
      BY <2>1
  <1> DEFINE q == [NoSup EXCEPT !.pc = "failed", !.retry = r]
  <1>2. sup' = [sup EXCEPT ![s] = q]
    BY <1>1 DEF Fails
  <1>3. q \in SupRec /\ q.pc = "failed" /\ q.conn = "none"
    BY DEF NoSup, SupRec, SupStates
  <1> HIDE DEF q
  <1> QED
    BY <1>2, <1>3

\* What cancel() makes of a supervisor that has not ended.
LEMMA AfterCancelEffect ==
  ASSUME sup \in [Supervisors -> SupRec], NEW s \in Supervisors
  PROVE  LET q == AfterCancel(s)
         IN  /\ q \in SupRec
             /\ \/ sup[s].pc \in {"new", "draining"} /\ q.pc = "done" /\ q.conn = "none"
                \/ sup[s].pc \in {"opening", "handling", "handoff"} /\ q.pc = "abandoned" /\ q.conn = sup[s].conn
                \/ /\ sup[s].pc \in {"attempt", "connecting", "connected", "scheduled", "sleeping", "failed"}
                   /\ q.pc = "cancelled" /\ q.conn = sup[s].conn
                \/ q.pc = sup[s].pc /\ q.conn = sup[s].conn
  <1>1. sup[s] \in SupRec
    OBVIOUS
  <1>2. ASSUME NEW p \in SupStates
        PROVE  LET q == [sup[s] EXCEPT !.pc = p, !.cancelled = TRUE]
               IN  q \in SupRec /\ q.pc = p /\ q.conn = sup[s].conn
    BY <1>1 DEF SupRec
  <1>3. LET q == [sup[s] EXCEPT !.cancelled = TRUE]
        IN  q \in SupRec /\ q.pc = sup[s].pc /\ q.conn = sup[s].conn
    BY <1>1 DEF SupRec
  <1>4. LET q == [NoSup EXCEPT !.pc = "done"] IN  q \in SupRec /\ q.pc = "done" /\ q.conn = "none"
    BY DEF NoSup, SupRec, SupStates
  <1>5. "abandoned" \in SupStates /\ "cancelled" \in SupStates
    BY DEF SupStates
  <1>6. CASE sup[s].pc \in {"new", "draining"}
    BY <1>4, <1>6 DEF AfterCancel
  <1>7. CASE sup[s].pc \in {"opening", "handling", "handoff"}
    BY <1>2, <1>5, <1>7 DEF AfterCancel
  <1>8. CASE sup[s].pc \in {"attempt", "connecting", "connected", "scheduled", "sleeping", "failed"}
    BY <1>2, <1>5, <1>8 DEF AfterCancel
  <1>9. CASE sup[s].pc \notin {"new", "draining", "opening", "handling", "handoff", "attempt", "connecting",
                               "connected", "scheduled", "sleeping", "failed"}
    BY <1>3, <1>9 DEF AfterCancel
  <1> QED
    BY <1>6, <1>7, <1>8, <1>9

\* Where a supervisor is after a cancel(), if one came.
Cancels(s) ==
  \/ sup'[s] = sup[s]
  \/ sup[s].pc \in {"new", "draining"} /\ sup'[s].pc = "done"
  \/ sup[s].pc \in {"opening", "handling", "handoff"} /\ sup'[s].pc = "abandoned" /\ sup'[s].conn = sup[s].conn
  \/ /\ sup[s].pc \in {"attempt", "connecting", "connected", "scheduled", "sleeping", "failed"}
     /\ sup'[s].pc = "cancelled" /\ sup'[s].conn = sup[s].conn
  \/ sup[s].pc # "done" /\ sup'[s].pc = sup[s].pc /\ sup'[s].conn = sup[s].conn

LEMMA CancelEffect ==
  ASSUME sup \in [Supervisors -> SupRec], NEW s \in Supervisors \cup {"none"}, "none" \notin Supervisors, Cancel(s)
  PROVE  sup' \in [Supervisors -> SupRec] /\ \A u \in Supervisors : Cancels(u)
  <1>1. CASE SupDone(s)
    BY <1>1 DEF Cancel, Cancels
  <1>2. CASE ~SupDone(s)
    <2>1. s \in Supervisors /\ sup[s].pc # "done"
      BY <1>2 DEF SupDone
    <2> DEFINE q == AfterCancel(s)
    <2>2. /\ q \in SupRec
          /\ \/ sup[s].pc \in {"new", "draining"} /\ q.pc = "done" /\ q.conn = "none"
             \/ sup[s].pc \in {"opening", "handling", "handoff"} /\ q.pc = "abandoned" /\ q.conn = sup[s].conn
             \/ /\ sup[s].pc \in {"attempt", "connecting", "connected", "scheduled", "sleeping", "failed"}
                /\ q.pc = "cancelled" /\ q.conn = sup[s].conn
             \/ q.pc = sup[s].pc /\ q.conn = sup[s].conn
      BY <2>1, AfterCancelEffect
    <2>3. sup' = [sup EXCEPT ![s] = q]
      BY <1>2 DEF Cancel
    <2> HIDE DEF q
    <2>4. sup' \in [Supervisors -> SupRec] /\ sup'[s] = q /\ \A u \in Supervisors \ {s} : sup'[u] = sup[u]
      BY <2>1, <2>2, <2>3
    <2> QED
      BY <2>1, <2>2, <2>4 DEF Cancels
  <1> QED
    BY <1>1, <1>2

\* Task t begins, or goes on, to release what the client has.
RelTo(t, a, c) == release'[t] = [at |-> a, of |-> c] /\ \A u \in Releasers \ {t} : release'[u] = release[u]
Closes(t) ==
  \/ /\ current # "none" /\ ~Closed(current) /\ RelTo(t, "close", current)
     /\ UNCHANGED <<current, closedEvent>>
     /\ conn'[current].st = IF conn[current].st = "up" THEN "closing" ELSE conn[current].st
     /\ conn'[current].beat = conn[current].beat
     /\ \A d \in Connections \ {current} : conn'[d] = conn[d]
  \/ /\ current = "none" \/ Closed(current)
     /\ RelTo(t, "released", "none")
     /\ current' = "none" /\ closedEvent' = TRUE /\ UNCHANGED conn
Begins(t) ==
  /\ hb' = "none" /\ UNCHANGED beating
  /\ \/ hb \in beating /\ RelTo(t, "heartbeat", hb) /\ UNCHANGED connVars
     \/ hb \notin beating /\ Closes(t)

LEMMA ClosesEffect ==
  ASSUME TypeInv, NEW t \in Releasers, ClosesCurrent(t)
  PROVE  /\ Closes(t) /\ release' \in [Releasers -> RelRec] /\ conn' \in [Connections -> ConnRec]
         /\ current' \in Connections \cup {"none"} /\ closedEvent' \in BOOLEAN
  <1>t. /\ release \in [Releasers -> RelRec] /\ conn \in [Connections -> ConnRec]
        /\ current \in Connections \cup {"none"} /\ closedEvent \in BOOLEAN /\ "none" \notin Connections
    BY Typed
  <1>1. CASE current # "none" /\ ~Closed(current)
    <2>1. current \in Connections
      BY <1>t, <1>1
    <2>2. release' = [release EXCEPT ![t] = [at |-> "close", of |-> current]]
      BY <1>1 DEF ClosesCurrent
    <2>3. [at |-> "close", of |-> current] \in RelRec
      BY <2>1 DEF RelRec
    <2>4. RelTo(t, "close", current) /\ release' \in [Releasers -> RelRec]
      BY <1>t, <2>2, <2>3 DEF RelTo
    <2>5. PICK b \in BOOLEAN : b = (t = "handler")
      OBVIOUS
    <2>6. conn' = IF conn[current].st = "up"
                  THEN [conn EXCEPT ![current].st = "closing", ![current].inline = b] ELSE conn
      BY <1>1, <2>5 DEF ClosesCurrent
    <2>7. /\ conn' \in [Connections -> ConnRec]
          /\ conn'[current].st = IF conn[current].st = "up" THEN "closing" ELSE conn[current].st
          /\ conn'[current].beat = conn[current].beat
          /\ \A d \in Connections \ {current} : conn'[d] = conn[d]
      BY <1>t, <2>1, <2>6 DEF ConnRec, ConnStates
    <2> QED
      BY <1>t, <1>1, <2>4, <2>7 DEF ClosesCurrent, Closes
  <1>2. CASE ~(current # "none" /\ ~Closed(current))
    <2>1. release' = [release EXCEPT ![t] = [at |-> "released", of |-> "none"]]
      BY <1>2 DEF ClosesCurrent
    <2>2. [at |-> "released", of |-> "none"] \in RelRec
      BY DEF RelRec
    <2>3. RelTo(t, "released", "none") /\ release' \in [Releasers -> RelRec]
      BY <1>t, <2>1, <2>2 DEF RelTo
    <2> QED
      BY <1>t, <1>2, <2>3 DEF ClosesCurrent, Closes
  <1> QED
    BY <1>1, <1>2

LEMMA BeginsEffect ==
  ASSUME TypeInv, NEW t \in Releasers, ReleaseBegins(t)
  PROVE  /\ Begins(t) /\ release' \in [Releasers -> RelRec] /\ conn' \in [Connections -> ConnRec]
         /\ current' \in Connections \cup {"none"} /\ closedEvent' \in BOOLEAN /\ hb' = "none"
         /\ beating' \subseteq Connections
  <1>t. /\ release \in [Releasers -> RelRec] /\ conn \in [Connections -> ConnRec]
        /\ current \in Connections \cup {"none"} /\ closedEvent \in BOOLEAN
        /\ beating \subseteq Connections
    BY Typed
  <1>1. CASE hb \in beating
    <2>1. release' = [release EXCEPT ![t] = [at |-> "heartbeat", of |-> hb]] /\ UNCHANGED connVars
      BY <1>1 DEF ReleaseBegins
    <2>2. [at |-> "heartbeat", of |-> hb] \in RelRec
      BY <1>t, <1>1 DEF RelRec
    <2>3. RelTo(t, "heartbeat", hb) /\ release' \in [Releasers -> RelRec]
      BY <1>t, <2>1, <2>2 DEF RelTo
    <2> QED
      BY <1>t, <1>1, <2>1, <2>3 DEF ReleaseBegins, Begins, connVars
  <1>2. CASE hb \notin beating
    <2>1. ClosesCurrent(t)
      BY <1>2 DEF ReleaseBegins
    <2> QED
      BY <1>t, <1>2, <2>1, ClosesEffect DEF ReleaseBegins, Begins
  <1> QED
    BY <1>1, <1>2

LEMMA CallsStep ==
  ASSUME TypeInv, [Next]_vars
  PROVE  calls' \in CallCounts
  <1>w. calls \in CallCounts
    BY Typed
  <1>1. CASE UNCHANGED calls
    BY <1>w, <1>1
  <1>2. CASE \/ calls' = [calls EXCEPT !.starts = @ + 1] \/ calls' = [calls EXCEPT !.stops = @ + 1]
             \/ calls' = [calls EXCEPT !.cancels = @ + 1] \/ calls' = [calls EXCEPT !.handled = @ + 1]
    BY <1>w, <1>2 DEF CallCounts
  <1>3. CASE \E s \in Supervisors : SupervisorStep(s) \/ Connects(s) \/ ConnectFails(s)
    BY <1>1, <1>3 DEF SupervisorStep, Connects, ConnectFails, SupervisorRuns, OpenedQueued, OpenedHandled,
       DeferredClosePublished, Abandons, ClosesItself, NoticesClose, TearsDownAfterFailure, DecidesRetry,
       Finalizes, EndsSupervision, TerminalTold, ReleaseStep, HeartbeatGone, ConnectionGone
  <1>4. CASE \/ \E c \in Connections : CloseStep(c) \/ ConnectionDies(c) \/ HeartbeatEnds(c)
             \/ \E k \in Stoppers : StopCalled(k) \/ StopperCancelled(k)
             \/ \E h \in Connections \cup {"event"} : HandlerBegins(h)
             \/ WorkerExits \/ HandlerStops \/ HandlerReturns
    BY <1>1, <1>2, <1>4 DEF CloseStep, ClosedCallback, CallbackReturns, ClosedPublished, ConnectionDies,
       HeartbeatEnds, StopCalled, StopperCancelled, HandlerBegins, WorkerExits, HandlerStops, HandlerReturns
  <1>5. CASE StartStep \/ StartCalled \/ StartCancelled
    BY <1>1, <1>2, <1>5 DEF StartStep, StartCalled, StartCancelled, StartingQueued, StartingHandled,
       RunningTold, StartDoomed, RollbackReleases, RollbackStopsDispatcher, ReleaseStep, HeartbeatGone,
       ConnectionGone
  <1>6. CASE StopStep
    BY <1>1, <1>6 DEF StopStep, StoppingTold, SupervisorGone, ResourcesReleased, StoppedTold,
       HandlerStopsDispatcher, FinisherRuns, ReleaseStep, HeartbeatGone, ConnectionGone
  <1> QED
    BY <1>1, <1>3, <1>4, <1>5, <1>6 DEF Next, vars

\* The types are kept if every variable that changes keeps its own.
LEMMA TypeFrame ==
  ASSUME TypeInv, [Next]_vars, setup' = setup,
         sup' \in [Supervisors -> SupRec], conn' \in [Connections -> ConnRec],
         start' \in StartRec, stop' \in StopRec, release' \in [Releasers -> RelRec],
         supervisor' \in Supervisors \cup {"none"},
         current' \in Connections \cup {"none"}, hb' \in Connections \cup {"none"},
         beating' \subseteq Connections, closedEvent' \in BOOLEAN,
         state' \in {"STOPPED", "STARTING", "RUNNING", "STOPPING"},
         disp' \in {"off", "on", "stopping"}, handler' \in Connections \cup {"none", "event"},
         pc' \in [Stoppers -> CallStates],
         \A s \in Supervisors : sup'[s].pc \in Holding => sup'[s].conn \in Connections,
         start'.pc \in {"starting", "handling"} => \E s \in Supervisors : sup'[s].pc = "unborn"
  PROVE  TypeInv'
  BY CallsStep DEF TypeInv, TypeOK, SupRec, ConnRec, StartRec, StopRec, RelRec, CallCounts

\* Supervisor s goes to q; connection c goes to x.
Keeps == {"handling", "handoff", "abandoned", "closing"}
SupTo(s, q) == /\ sup'[s].pc = q /\ sup'[s].conn = (IF q \in Keeps THEN sup[s].conn ELSE "none")
               /\ \A u \in Supervisors \ {s} : sup'[u] = sup[u]
ConnTo(c, x) == /\ conn'[c].st = x /\ conn'[c].beat = conn[c].beat
                /\ \A d \in Connections \ {c} : conn'[d] = conn[d]

LEMMA SupToEffect ==
  ASSUME TypeInv, NEW s \in Supervisors, NEW q \in SupStates, GoTo(s, q) \/ (q = "failed" /\ Fails(s))
  PROVE  SupTo(s, q) /\ sup' \in [Supervisors -> SupRec]
  <1>1. CASE GoTo(s, q)
    BY <1>1, Typed, GoToEffect DEF SupTo, Keeps
  <1>2. CASE q = "failed" /\ Fails(s)
    BY <1>2, Typed, FailsEffect DEF SupTo, Keeps
  <1> QED
    BY <1>1, <1>2

LEMMA ConnToEffect ==
  ASSUME TypeInv, NEW c \in Connections, NEW x \in ConnStates, conn' = [conn EXCEPT ![c].st = x]
  PROVE  ConnTo(c, x) /\ conn' \in [Connections -> ConnRec]
  BY Typed DEF ConnTo, ConnRec

\* A supervisor that moves, and is not new-born, leaves the types right.
LEMMA SupMoveTypes ==
  ASSUME TypeInv, NEW s \in Supervisors, NEW q \in SupStates, SupTo(s, q), sup[s].pc # "unborn",
         q \in Keeps => sup[s].pc \in Holding, UNCHANGED start, q # "opening"
  PROVE  /\ \A u \in Supervisors : sup'[u].pc \in Holding => sup'[u].conn \in Connections
         /\ start'.pc \in {"starting", "handling"} => \E u \in Supervisors : sup'[u].pc = "unborn"
  BY DEF SupTo, TypeInv, Holding, Keeps

\* What the supervisor's actions do when nothing else happens.
Steps(s) ==
  /\ UNCHANGED <<setup, handler, state, supervisor, current, conn, hbVars, disp, start, stop, pc, release>>
  /\ \/ sup[s].pc = "new" /\ (SupTo(s, "attempt") \/ SupTo(s, "final"))
     \/ sup[s].pc = "sleeping" /\ (SupTo(s, "attempt") \/ SupTo(s, "final"))
     \/ sup[s].pc = "attempt" /\ (SupTo(s, "connecting") \/ SupTo(s, "final"))
     \/ sup[s].pc = "scheduled" /\ (SupTo(s, "sleeping") \/ SupTo(s, "final"))
     \/ sup[s].pc = "cancelled" /\ SupTo(s, "final")
     \/ sup[s].pc = "connecting" /\ SupTo(s, "failed")
     \/ sup[s].pc = "opening" /\ (SupTo(s, "handling") \/ SupTo(s, "abandoned"))
     \/ /\ sup[s].pc = "closing" /\ conn[sup[s].conn].st = "over"
        /\ SupTo(s, "final") \/ (Running /\ SupTo(s, "connected"))
     \/ /\ sup[s].pc = "connected"
        /\ \/ current # "none" /\ ~Closed(current) /\ Running /\ SupTo(s, "connected")
           \/ (current = "none" \/ Closed(current)) /\ Running /\ SupTo(s, "scheduled")
           \/ SupTo(s, "final") /\ (Running => current = "none" \/ Closed(current))
     \/ sup[s].pc = "handling" /\ conn[sup[s].conn].st = "deferred" /\ SupTo(s, "handoff")
     \/ sup[s].pc = "abandoned" /\ conn[sup[s].conn].st = "over" /\ (SupTo(s, "final") \/ SupTo(s, "failed"))

LEMMA StepsEffect ==
  ASSUME TypeInv, [Next]_vars, NEW s \in Supervisors,
         \/ SupervisorRuns(s) \/ ConnectFails(s) \/ OpenedQueued(s) \/ ClosesItself(s) \/ NoticesClose(s)
         \/ OpenedHandled(s) /\ conn[sup[s].conn].st = "deferred"
         \/ Abandons(s) /\ conn[sup[s].conn].st = "over"
  PROVE  TypeInv' /\ Steps(s)
  <1>p. {"attempt", "connecting", "sleeping", "failed", "final", "handling", "abandoned", "connected",
         "scheduled", "handoff"} \subseteq SupStates
    BY DEF SupStates
  <1>1. /\ UNCHANGED <<setup, handler, state, supervisor, current, conn, hbVars, disp, start, stop, pc, release>>
        /\ closedEvent' \in BOOLEAN
    BY Typed DEF SupervisorRuns, ConnectFails, OpenedQueued, ClosesItself, NoticesClose, OpenedHandled, Abandons,
       connVars
  <1>2. Steps(s) /\ sup' \in [Supervisors -> SupRec]
    <2>1. CASE SupervisorRuns(s)
      BY <1>1, <1>p, <2>1, SupToEffect DEF SupervisorRuns, LoopHead, At, Steps
    <2>2. CASE ConnectFails(s)
      BY <1>1, <1>p, <2>2, SupToEffect DEF ConnectFails, At, Steps
    <2>3. CASE OpenedQueued(s)
      BY <1>1, <1>p, <2>3, SupToEffect DEF OpenedQueued, At, Steps
    <2>4. CASE ClosesItself(s)
      BY <1>1, <1>p, <2>4, SupToEffect DEF ClosesItself, At, Steps
    <2>5. CASE NoticesClose(s)
      BY <1>1, <1>p, <2>5, SupToEffect DEF NoticesClose, At, Steps
    <2>6. CASE OpenedHandled(s) /\ conn[sup[s].conn].st = "deferred"
      BY <1>1, <1>p, <2>6, SupToEffect DEF OpenedHandled, At, Steps
    <2>7. CASE Abandons(s) /\ conn[sup[s].conn].st = "over"
      BY <1>1, <1>p, <2>7, SupToEffect DEF Abandons, At, Steps
    <2> QED
      BY <2>1, <2>2, <2>3, <2>4, <2>5, <2>6, <2>7
  <1>3. \E q \in SupStates : /\ SupTo(s, q) /\ sup[s].pc # "unborn" /\ q # "opening"
                             /\ q \in Keeps => sup[s].pc \in Holding
    BY <1>2, <1>p DEF Steps, Keeps, Holding
  <1>4. /\ \A u \in Supervisors : sup'[u].pc \in Holding => sup'[u].conn \in Connections
        /\ start'.pc \in {"starting", "handling"} => \E u \in Supervisors : sup'[u].pc = "unborn"
    BY <1>1, <1>3, SupMoveTypes
  <1> QED
    BY Typed, <1>1, <1>2, <1>4, TypeFrame DEF hbVars

\* Supervisor s has a new connection.
Opens(s, c) ==
  /\ UNCHANGED <<setup, handler, state, supervisor, hbVars, disp, start, stop, pc, release>>
  /\ sup[s].pc = "connecting" /\ conn[c].st = "none" /\ ConnTo(c, "up")
  /\ sup'[s].pc = "opening" /\ sup'[s].conn = c /\ \A u \in Supervisors \ {s} : sup'[u] = sup[u]
  /\ current' = IF state = "RUNNING" THEN c ELSE current

LEMMA OpensEffect ==
  ASSUME TypeInv, [Next]_vars, NEW s \in Supervisors, Connects(s)
  PROVE  TypeInv' /\ \E c \in Connections : Opens(s, c)
  <1>1. PICK c \in Connections : c = NewConnection /\ conn[c].st = "none"
    BY DEF Connects, NewConnection
  <1>2. /\ conn' = [conn EXCEPT ![c].st = "up"]
        /\ sup' = [sup EXCEPT ![s].pc = "opening", ![s].conn = c]
        /\ IF state = "RUNNING" THEN current' = c /\ closedEvent' = FALSE
           ELSE UNCHANGED <<current, closedEvent>>
    BY <1>1 DEF Connects
  <1>3. ConnTo(c, "up") /\ conn' \in [Connections -> ConnRec]
    BY <1>2, ConnToEffect DEF ConnStates
  <1>4. /\ sup' \in [Supervisors -> SupRec] /\ sup'[s].pc = "opening" /\ sup'[s].conn = c
        /\ \A u \in Supervisors \ {s} : sup'[u] = sup[u]
    <2> DEFINE q == [sup[s] EXCEPT !.pc = "opening", !.conn = c]
    <2>1. sup \in [Supervisors -> SupRec]
      BY Typed
    <2>2. q \in SupRec /\ q.pc = "opening" /\ q.conn = c
      BY <2>1 DEF SupRec, SupStates
    <2>3. sup' = [sup EXCEPT ![s] = q]
      BY <1>2, <2>1
    <2> HIDE DEF q
    <2> QED
      BY <2>1, <2>2, <2>3
  <1>5. /\ current' = (IF state = "RUNNING" THEN c ELSE current)
        /\ current' \in Connections \cup {"none"} /\ closedEvent' \in BOOLEAN
    BY Typed, <1>2
  <1>6. sup[s].pc = "connecting" /\ UNCHANGED <<setup, handler, state, supervisor, hbVars, disp, start, stop, pc, release>>
    BY DEF Connects, At
  <1>7. Opens(s, c)
    BY <1>1, <1>3, <1>4, <1>5, <1>6 DEF Opens
  <1>8. /\ \A u \in Supervisors : sup'[u].pc \in Holding => sup'[u].conn \in Connections
        /\ start'.pc \in {"starting", "handling"} => \E u \in Supervisors : sup'[u].pc = "unborn"
    BY <1>4, <1>6 DEF TypeInv
  <1> QED
    BY Typed, <1>3, <1>4, <1>5, <1>6, <1>7, <1>8, TypeFrame DEF hbVars

\* The connection of s is open, or was closed meanwhile (`told': and that is now published).
Beats(c) == IF setup.heartbeat THEN hb' = c /\ beating' = beating \cup {c} ELSE UNCHANGED hbVars
Settles(c, told) == IF told THEN ConnTo(c, "over") ELSE UNCHANGED conn
Joins(s, c, told) ==
  /\ UNCHANGED <<setup, handler, state, supervisor, disp, start, stop, pc, release>>
  /\ c = sup[s].conn /\ sup[s].pc = (IF told THEN "handoff" ELSE "handling")
  /\ \/ /\ current = c /\ UNCHANGED current
        /\ SupTo(s, IF Running THEN "connected" ELSE "final")
        /\ Settles(c, told)
        /\ IF state = "RUNNING" /\ conn[c].st = "up" THEN Beats(c) ELSE UNCHANGED hbVars
     \/ /\ current # c /\ (told \/ Closed(c)) /\ UNCHANGED <<current, hbVars>>
        /\ SupTo(s, IF Running THEN "connected" ELSE "final")
        /\ IF conn[c].st = "up" THEN ConnTo(c, "closing") ELSE Settles(c, told)
     \/ /\ current # c /\ ~told /\ ~Closed(c) /\ state # "RUNNING" /\ UNCHANGED <<current, hbVars>>
        /\ SupTo(s, "closing")
        /\ IF conn[c].st = "up" THEN ConnTo(c, "closing") ELSE UNCHANGED conn
     \/ /\ current # c /\ ~told /\ ~Closed(c) /\ state = "RUNNING" /\ current' = c
        /\ SupTo(s, "connected") /\ Beats(c) /\ UNCHANGED conn

LEMMA JoinsEffect ==
  ASSUME TypeInv, [Next]_vars, NEW s \in Supervisors, NEW told \in BOOLEAN,
         IF told THEN DeferredClosePublished(s) ELSE OpenedHandled(s) /\ conn[sup[s].conn].st # "deferred"
  PROVE  TypeInv' /\ Joins(s, sup[s].conn, told) /\ sup[s].conn \in Connections
  <1> DEFINE c == sup[s].conn
  <1>1. /\ sup[s].pc = (IF told THEN "handoff" ELSE "handling") /\ Connected(s, c, told)
        /\ UNCHANGED <<setup, handler, state, supervisor, disp, start, stop, pc, release>>
    BY DEF DeferredClosePublished, OpenedHandled, At
  <1>2. c \in Connections
    BY <1>1 DEF TypeInv, Holding
  <1> HIDE DEF c
  <1>p. {"connected", "final", "closing"} \subseteq SupStates /\ {"over", "closing"} \subseteq ConnStates
    BY DEF SupStates, ConnStates
  <1>3. CASE current = c
    <2>1. /\ GoTo(s, IF Running THEN "connected" ELSE "final") /\ UNCHANGED <<current, closedEvent>>
          /\ IF state = "RUNNING" /\ conn[c].st = "up" THEN Beats(c) ELSE UNCHANGED hbVars
          /\ conn' = IF told THEN [conn EXCEPT ![c].st = "over"] ELSE conn
      BY <1>1, <1>3 DEF Connected, StartsHeartbeat, Beats
    <2>2. SupTo(s, IF Running THEN "connected" ELSE "final") /\ sup' \in [Supervisors -> SupRec]
      BY <1>p, <2>1, SupToEffect
    <2>3. Settles(c, told) /\ conn' \in [Connections -> ConnRec]
      BY Typed, <1>2, <1>p, <2>1, ConnToEffect DEF Settles
    <2>4. hb' \in Connections \cup {"none"} /\ beating' \subseteq Connections
      BY Typed, <1>2, <2>1 DEF Beats, hbVars
    <2>5. Joins(s, sup[s].conn, told)
      BY <1>1, <1>3, <2>1, <2>2, <2>3 DEF Joins, c
    <2>6. /\ \A u \in Supervisors : sup'[u].pc \in Holding => sup'[u].conn \in Connections
          /\ start'.pc \in {"starting", "handling"} => \E u \in Supervisors : sup'[u].pc = "unborn"
      BY <1>1, <1>p, <2>2, SupMoveTypes DEF Keeps
    <2> QED
      BY Typed, <1>1, <1>2, <2>1, <2>2, <2>3, <2>4, <2>5, <2>6, TypeFrame DEF c
  <1>4. CASE current # c /\ (state # "RUNNING" \/ told \/ Closed(c))
    <2>1. /\ GoTo(s, IF told \/ Closed(c) THEN IF Running THEN "connected" ELSE "final" ELSE "closing")
          /\ UNCHANGED <<current, hbVars>> /\ closedEvent' = (closedEvent \/ told \/ Closed(c))
          /\ conn' = IF conn[c].st = "up" THEN [conn EXCEPT ![c].st = "closing"]
                     ELSE IF told THEN [conn EXCEPT ![c].st = "over"] ELSE conn
      BY <1>1, <1>4 DEF Connected
    <2>2. /\ SupTo(s, IF told \/ Closed(c) THEN IF Running THEN "connected" ELSE "final" ELSE "closing")
          /\ sup' \in [Supervisors -> SupRec]
      BY <1>p, <2>1, SupToEffect
    <2>3. /\ IF conn[c].st = "up" THEN ConnTo(c, "closing") ELSE Settles(c, told)
          /\ conn' \in [Connections -> ConnRec]
      BY Typed, <1>2, <1>p, <2>1, ConnToEffect DEF Settles
    <2>4. closedEvent' \in BOOLEAN
      BY <2>1
    <2>5. Joins(s, sup[s].conn, told)
      BY <1>1, <1>4, <2>1, <2>2, <2>3 DEF Joins, c, Settles
    <2>6. /\ \A u \in Supervisors : sup'[u].pc \in Holding => sup'[u].conn \in Connections
          /\ start'.pc \in {"starting", "handling"} => \E u \in Supervisors : sup'[u].pc = "unborn"
      BY <1>1, <1>p, <2>2, SupMoveTypes DEF Keeps, Holding
    <2> QED
      BY Typed, <1>1, <1>2, <2>1, <2>2, <2>3, <2>4, <2>5, <2>6, TypeFrame DEF c, hbVars
  <1>5. CASE current # c /\ ~(state # "RUNNING" \/ told \/ Closed(c))
    <2>1. /\ GoTo(s, "connected") /\ current' = c /\ closedEvent' = FALSE /\ Beats(c) /\ conn' = conn
      BY <1>1, <1>5 DEF Connected, StartsHeartbeat, Beats, Running
    <2>2. SupTo(s, "connected") /\ sup' \in [Supervisors -> SupRec]
      BY <1>p, <2>1, SupToEffect
    <2>3. hb' \in Connections \cup {"none"} /\ beating' \subseteq Connections
      BY Typed, <1>2, <2>1 DEF Beats, hbVars
    <2>4. Joins(s, sup[s].conn, told)
      BY <1>1, <1>5, <2>1, <2>2 DEF Joins, c
    <2>5. /\ \A u \in Supervisors : sup'[u].pc \in Holding => sup'[u].conn \in Connections
          /\ start'.pc \in {"starting", "handling"} => \E u \in Supervisors : sup'[u].pc = "unborn"
      BY <1>1, <1>p, <2>2, SupMoveTypes DEF Keeps, Holding
    <2> QED
      BY Typed, <1>1, <1>2, <2>1, <2>2, <2>3, <2>4, <2>5, TypeFrame DEF c
  <1> QED
    BY <1>3, <1>4, <1>5

\* A supervisor whose connection.start() failed closes what it opened.
Discards(s, c) ==
  /\ UNCHANGED <<setup, handler, state, supVars, current, hbVars, disp, start, stop, pc, release>>
  /\ c = sup[s].conn /\ sup[s].pc = "abandoned"
  /\ \/ conn[c].st = "up" /\ ConnTo(c, "closing")
     \/ conn[c].st = "deferred" /\ ConnTo(c, "over")

LEMMA DiscardsEffect ==
  ASSUME TypeInv, [Next]_vars, NEW s \in Supervisors, Abandons(s), conn[sup[s].conn].st # "over"
  PROVE  TypeInv' /\ Discards(s, sup[s].conn) /\ sup[s].conn \in Connections
  <1>1. /\ sup[s].pc = "abandoned" /\ UNCHANGED <<closedEvent>>
        /\ UNCHANGED <<setup, handler, state, supVars, current, hbVars, disp, start, stop, pc, release>>
    BY DEF Abandons, At, supVars
  <1>2. PICK c \in Connections : c = sup[s].conn
    BY <1>1 DEF TypeInv, Holding
  <1>3. \/ conn[c].st = "up" /\ conn' = [conn EXCEPT ![c].st = "closing"]
        \/ conn[c].st = "deferred" /\ conn' = [conn EXCEPT ![c].st = "over"]
    BY <1>2, Typed DEF Abandons
  <1>4. /\ conn' \in [Connections -> ConnRec]
        /\ \/ (conn[c].st = "up" /\ ConnTo(c, "closing")) \/ (conn[c].st = "deferred" /\ ConnTo(c, "over"))
    <2>1. "closing" \in ConnStates /\ "over" \in ConnStates
      BY DEF ConnStates
    <2> QED
      BY <1>3, <2>1, ConnToEffect
  <1>5. /\ \A u \in Supervisors : sup'[u].pc \in Holding => sup'[u].conn \in Connections
        /\ start'.pc \in {"starting", "handling"} => \E u \in Supervisors : sup'[u].pc = "unborn"
    BY <1>1 DEF TypeInv, supVars
  <1> QED
    BY <1>1, <1>2, <1>4, <1>5, Typed, TypeFrame DEF Discards, supVars, hbVars

\* After a failure, and in the end, the supervisor releases what the client has.
CleansUp(s) ==
  /\ UNCHANGED <<setup, handler, state, supervisor, disp, start, stop, pc>>
  /\ Begins(s)
  /\ \/ (sup[s].pc = "failed" /\ SupTo(s, "failing")) \/ (sup[s].pc = "final" /\ SupTo(s, "finishing"))

LEMMA CleansUpEffect ==
  ASSUME TypeInv, [Next]_vars, NEW s \in Supervisors, TearsDownAfterFailure(s) \/ Finalizes(s)
  PROVE  TypeInv' /\ CleansUp(s)
  <1>p. {"failing", "finishing"} \subseteq SupStates
    BY DEF SupStates
  <1>1. /\ UNCHANGED <<setup, handler, state, supervisor, disp, start, stop, pc>>
        /\ ReleaseBegins(s)
        /\ \/ (sup[s].pc = "failed" /\ GoTo(s, "failing")) \/ (sup[s].pc = "final" /\ GoTo(s, "finishing"))
    <2>1. CASE TearsDownAfterFailure(s)
      BY <2>1 DEF TearsDownAfterFailure, At
    <2>2. CASE Finalizes(s)
      BY <2>2 DEF Finalizes, At
    <2> QED
      BY <2>1, <2>2
  <1>2. /\ Begins(s) /\ release' \in [Releasers -> RelRec] /\ conn' \in [Connections -> ConnRec]
        /\ current' \in Connections \cup {"none"} /\ closedEvent' \in BOOLEAN /\ hb' = "none"
        /\ beating' \subseteq Connections
    BY <1>1, Typed, BeginsEffect
  <1>3. /\ \/ (sup[s].pc = "failed" /\ SupTo(s, "failing")) \/ (sup[s].pc = "final" /\ SupTo(s, "finishing"))
        /\ sup' \in [Supervisors -> SupRec]
    BY <1>1, <1>p, SupToEffect
  <1>4. /\ \A u \in Supervisors : sup'[u].pc \in Holding => sup'[u].conn \in Connections
        /\ start'.pc \in {"starting", "handling"} => \E u \in Supervisors : sup'[u].pc = "unborn"
    BY <1>1, <1>p, <1>3, SupMoveTypes DEF Keeps
  <1> QED
    BY <1>1, <1>2, <1>3, <1>4, Typed, TypeFrame DEF CleansUp

\* The supervisor has released it, and retries or ends.
Ends(s) ==
  /\ UNCHANGED <<setup, handler, supervisor, connVars, hbVars, start, stop, pc>>
  /\ \/ /\ sup[s].pc = "failing" /\ Released(s) /\ RelTo(s, "no", "none") /\ UNCHANGED <<state, disp>>
        /\ \/ release[s].at = "released" /\ Running /\ SupTo(s, "scheduled")
           \/ SupTo(s, "final")
     \/ /\ sup[s].pc = "finishing" /\ Released(s) /\ RelTo(s, "no", "none")
        /\ \/ /\ release[s].at = "released" /\ stop.phase = "none" /\ state # "STOPPED"
              /\ state' = "STOPPED" /\ SupTo(s, "told") /\ UNCHANGED disp
           \/ /\ ~(release[s].at = "released" /\ stop.phase = "none" /\ state # "STOPPED") /\ UNCHANGED state
              /\ \/ (stop.phase # "none" \/ disp = "off") /\ SupTo(s, "done") /\ UNCHANGED disp
                 \/ stop.phase = "none" /\ disp # "off" /\ SupTo(s, "draining") /\ disp' = "stopping"
     \/ /\ sup[s].pc = "told" /\ UNCHANGED <<state, release>>
        /\ \/ (stop.phase # "none" \/ disp = "off") /\ SupTo(s, "done") /\ UNCHANGED disp
           \/ stop.phase = "none" /\ disp # "off" /\ SupTo(s, "draining") /\ disp' = "stopping"

LEMMA ReleaseOverEffect ==
  ASSUME TypeInv, NEW t \in Releasers, ReleaseOver(t)
  PROVE  RelTo(t, "no", "none") /\ release' \in [Releasers -> RelRec]
  <1>1. [at |-> "no", of |-> "none"] \in RelRec
    BY DEF RelRec
  <1> QED
    BY <1>1, Typed DEF ReleaseOver, NotReleasing, RelTo

LEMMA EndsEffect ==
  ASSUME TypeInv, [Next]_vars, NEW s \in Supervisors, DecidesRetry(s) \/ EndsSupervision(s) \/ TerminalTold(s)
  PROVE  TypeInv' /\ Ends(s)
  <1>p. {"scheduled", "final", "told", "done", "draining"} \subseteq SupStates
    BY DEF SupStates
  <1>1. UNCHANGED <<setup, handler, supervisor, connVars, hbVars, start, stop, pc>>
    BY DEF DecidesRetry, EndsSupervision, TerminalTold
  <1>2. CASE DecidesRetry(s)
    <2>1. RelTo(s, "no", "none") /\ release' \in [Releasers -> RelRec]
      BY <1>2, ReleaseOverEffect, Typed DEF DecidesRetry
    <2>2. \/ release[s].at = "released" /\ Running /\ GoTo(s, "scheduled")
          \/ GoTo(s, "final")
      BY <1>2 DEF DecidesRetry
    <2>3. /\ \/ release[s].at = "released" /\ Running /\ SupTo(s, "scheduled")
             \/ SupTo(s, "final")
          /\ sup' \in [Supervisors -> SupRec]
      BY <1>p, <2>2, SupToEffect
    <2>4. UNCHANGED <<state, disp>> /\ sup[s].pc = "failing" /\ Released(s)
      BY <1>2 DEF DecidesRetry, At
    <2>5. /\ \A u \in Supervisors : sup'[u].pc \in Holding => sup'[u].conn \in Connections
          /\ start'.pc \in {"starting", "handling"} => \E u \in Supervisors : sup'[u].pc = "unborn"
      BY <1>1, <1>p, <2>3, <2>4, SupMoveTypes DEF Keeps
    <2> QED
      BY <1>1, <2>1, <2>3, <2>4, <2>5, Typed, TypeFrame DEF Ends, connVars, hbVars
  <1>3. ASSUME StopsDispatcher(s), sup[s].pc # "unborn"
        PROVE  /\ \/ (stop.phase # "none" \/ disp = "off") /\ SupTo(s, "done") /\ UNCHANGED disp
                  \/ stop.phase = "none" /\ disp # "off" /\ SupTo(s, "draining") /\ disp' = "stopping"
               /\ sup' \in [Supervisors -> SupRec] /\ disp' \in {"off", "on", "stopping"}
               /\ \A u \in Supervisors : sup'[u].pc \in Holding => sup'[u].conn \in Connections
               /\ start'.pc \in {"starting", "handling"} => \E u \in Supervisors : sup'[u].pc = "unborn"
    <2>1. /\ \/ (stop.phase # "none" \/ disp = "off") /\ SupTo(s, "done") /\ UNCHANGED disp
             \/ stop.phase = "none" /\ disp # "off" /\ SupTo(s, "draining") /\ disp' = "stopping"
          /\ sup' \in [Supervisors -> SupRec]
      BY <1>3, <1>p, SupToEffect DEF StopsDispatcher
    <2> QED
      BY <1>1, <1>3, <1>p, <2>1, Typed, SupMoveTypes DEF Keeps
  <1>4. CASE EndsSupervision(s)
    <2>1. RelTo(s, "no", "none") /\ release' \in [Releasers -> RelRec]
      BY <1>4, ReleaseOverEffect, Typed DEF EndsSupervision
    <2>2. sup[s].pc = "finishing" /\ Released(s)
      BY <1>4 DEF EndsSupervision, At
    <2>3. CASE release[s].at = "released" /\ stop.phase = "none" /\ state # "STOPPED"
      <3>1. state' = "STOPPED" /\ SupTo(s, "told") /\ UNCHANGED disp /\ sup' \in [Supervisors -> SupRec]
        BY <1>4, <1>p, <2>3, SupToEffect DEF EndsSupervision
      <3>2. /\ \A u \in Supervisors : sup'[u].pc \in Holding => sup'[u].conn \in Connections
            /\ start'.pc \in {"starting", "handling"} => \E u \in Supervisors : sup'[u].pc = "unborn"
        BY <1>1, <1>p, <2>2, <3>1, SupMoveTypes DEF Keeps
      <3> QED
        BY <1>1, <2>1, <2>2, <2>3, <3>1, <3>2, Typed, TypeFrame DEF Ends, connVars, hbVars
    <2>4. CASE ~(release[s].at = "released" /\ stop.phase = "none" /\ state # "STOPPED")
      <3>1. StopsDispatcher(s) /\ UNCHANGED state
        BY <1>4, <2>4 DEF EndsSupervision
      <3> QED
        BY <1>1, <1>3, <2>1, <2>2, <2>4, <3>1, Typed, TypeFrame DEF Ends, connVars, hbVars
    <2> QED
      BY <2>3, <2>4
  <1>5. CASE TerminalTold(s)
    <2>1. StopsDispatcher(s) /\ UNCHANGED <<state, release>> /\ sup[s].pc = "told"
      BY <1>5 DEF TerminalTold, At
    <2> QED
      BY <1>1, <1>3, <2>1, Typed, TypeFrame DEF Ends, connVars, hbVars
  <1> QED
    BY <1>2, <1>4, <1>5

\* The plan of the stop is the same, but for the connection it awaits.
SamePlan == /\ stop'.phase = stop.phase /\ stop'.sup = stop.sup /\ stop'.dispatcher = stop.dispatcher
            /\ stop'.handler = stop.handler /\ stop'.transition = stop.transition

\* Task t awaited a heartbeat that has ended, or a close() that returned.
GoesOn(t) ==
  /\ UNCHANGED <<setup, handler, state, supVars, hbVars, disp, start, pc>>
  /\ \/ /\ release[t].at = "heartbeat" /\ release[t].of \notin beating /\ UNCHANGED stop
        /\ \/ t \in Supervisors /\ RelTo(t, "aborted", "none") /\ UNCHANGED connVars
           \/ Closes(t)
     \/ /\ release[t].at = "close" /\ CloseReturned(release[t].of, t)
        /\ current' = (IF current = release[t].of THEN "none" ELSE current) /\ UNCHANGED conn
        /\ RelTo(t, "released", "none") \/ (t \in Supervisors /\ RelTo(t, "aborted", "none"))
        /\ SamePlan /\ (t # "handler" => UNCHANGED stop)

LEMMA GoesOnEffect ==
  ASSUME TypeInv, [Next]_vars, NEW t \in Releasers, HeartbeatGone(t) \/ ConnectionGone(t)
  PROVE  TypeInv' /\ GoesOn(t)
  <1>1. UNCHANGED <<setup, handler, state, supVars, hbVars, disp, start, pc>>
    BY DEF HeartbeatGone, ConnectionGone
  <1>2. /\ \A u \in Supervisors : sup'[u].pc \in Holding => sup'[u].conn \in Connections
        /\ start'.pc \in {"starting", "handling"} => \E u \in Supervisors : sup'[u].pc = "unborn"
    BY <1>1 DEF TypeInv, supVars
  <1>3. ASSUME NEW a \in {"released", "aborted"}, release' = [release EXCEPT ![t] = [at |-> a, of |-> "none"]]
        PROVE  RelTo(t, a, "none") /\ release' \in [Releasers -> RelRec]
    <2>1. [at |-> a, of |-> "none"] \in RelRec
      BY DEF RelRec
    <2> QED
      BY <1>3, <2>1, Typed DEF RelTo
  <1>4. CASE HeartbeatGone(t)
    <2>1. release[t].at = "heartbeat" /\ release[t].of \notin beating /\ UNCHANGED stop
      BY <1>4 DEF HeartbeatGone
    <2>2. CASE ClosesCurrent(t)
      BY <1>1, <1>2, <2>1, <2>2, Typed, ClosesEffect, TypeFrame DEF GoesOn, supVars, hbVars
    <2>3. CASE /\ Interrupted(t) /\ UNCHANGED connVars
               /\ release' = [release EXCEPT ![t] = [at |-> "aborted", of |-> "none"]]
      <3>1. t \in Supervisors /\ RelTo(t, "aborted", "none") /\ release' \in [Releasers -> RelRec]
        BY <1>3, <2>3 DEF Interrupted
      <3> QED
        BY <1>1, <1>2, <2>1, <2>3, <3>1, Typed, TypeFrame DEF GoesOn, supVars, hbVars, connVars
    <2> QED
      BY <1>4, <2>2, <2>3 DEF HeartbeatGone
  <1>5. CASE ConnectionGone(t)
    <2>1. /\ release[t].at = "close" /\ CloseReturned(release[t].of, t)
          /\ current' = (IF current = release[t].of THEN "none" ELSE current)
          /\ closedEvent' = TRUE /\ UNCHANGED conn
      BY <1>5 DEF ConnectionGone
    <2>2. release[t] \in RelRec
      BY Typed
    <2>3. release[t].of \in Connections
      BY <2>1, <2>2 DEF RelRec
    <2>4. /\ RelTo(t, "released", "none") \/ (t \in Supervisors /\ RelTo(t, "aborted", "none"))
          /\ release' \in [Releasers -> RelRec]
      <3>1. CASE Interrupted(t)
        BY <1>3, <1>5, <3>1 DEF ConnectionGone, Interrupted
      <3>2. CASE ~Interrupted(t)
        BY <1>3, <1>5, <3>2 DEF ConnectionGone
      <3> QED
        BY <3>1, <3>2
    <2>5. SamePlan /\ (t # "handler" => UNCHANGED stop) /\ stop' \in StopRec
      <3>1. stop \in StopRec
        BY Typed
      <3>2. CASE t = "handler"
        <4>1. stop' = [stop EXCEPT !.conn = release[t].of]
          BY <1>5, <3>2 DEF ConnectionGone
        <4> QED
          BY <2>3, <3>1, <3>2, <4>1 DEF StopRec, SamePlan
      <3>3. CASE t # "handler"
        BY <1>5, <3>1, <3>3 DEF ConnectionGone, SamePlan
      <3> QED
        BY <3>2, <3>3
    <2> QED
      BY <1>1, <1>2, <2>1, <2>4, <2>5, Typed, TypeFrame DEF GoesOn, supVars, hbVars
  <1> QED
    BY <1>4, <1>5

\* A connection dies, and its close task goes on; a heartbeat ends.
Fades(c) ==
  /\ UNCHANGED <<setup, handler, state, supVars, disp, start, stop, pc, release>>
  /\ \A d \in Connections \ {c} : conn'[d] = conn[d]
  /\ \/ conn[c].st = "up" /\ ConnTo(c, "closing") /\ UNCHANGED <<current, hbVars>>
     \/ /\ conn[c].st = "closing"
        /\ conn'[c].st \in (IF hb \in beating THEN {"callback"} ELSE {"deferred", "parked", "closed"})
        /\ conn'[c].beat = (IF hb \in beating THEN hb ELSE "none")
        /\ current' = (IF current = c THEN "none" ELSE current)
        /\ hb' = "none" /\ UNCHANGED beating
     \/ /\ conn[c].st = "callback" /\ conn[c].beat \notin beating
        /\ conn'[c].st \in {"deferred", "parked", "closed"} /\ UNCHANGED <<current, hbVars>>
     \/ conn[c].st \in {"closed", "parked"} /\ ConnTo(c, "over") /\ UNCHANGED <<current, hbVars>>
     \/ beating' = beating \ {c} /\ UNCHANGED <<hb, current, conn>>

LEMMA FadesEffect ==
  ASSUME TypeInv, [Next]_vars, NEW c \in Connections, CloseStep(c) \/ ConnectionDies(c) \/ HeartbeatEnds(c)
  PROVE  TypeInv' /\ Fades(c)
  <1>1. UNCHANGED <<setup, handler, state, supVars, disp, start, stop, pc, release>>
    BY DEF CloseStep, ClosedCallback, CallbackReturns, ClosedPublished, ConnectionDies, HeartbeatEnds
  <1>2. /\ \A u \in Supervisors : sup'[u].pc \in Holding => sup'[u].conn \in Connections
        /\ start'.pc \in {"starting", "handling"} => \E u \in Supervisors : sup'[u].pc = "unborn"
    BY <1>1 DEF TypeInv, supVars
  <1>3. CASE ConnectionDies(c) \/ ClosedPublished(c)
    <2>1. /\ UNCHANGED <<current, hbVars, closedEvent>>
          /\ \/ conn[c].st = "up" /\ conn' = [conn EXCEPT ![c].st = "closing"]
             \/ conn[c].st \in {"closed", "parked"} /\ conn' = [conn EXCEPT ![c].st = "over"]
      BY <1>3 DEF ConnectionDies, ClosedPublished
    <2>2. "closing" \in ConnStates /\ "over" \in ConnStates
      BY DEF ConnStates
    <2>3. /\ conn' \in [Connections -> ConnRec]
          /\ \/ conn[c].st = "up" /\ ConnTo(c, "closing")
             \/ conn[c].st \in {"closed", "parked"} /\ ConnTo(c, "over")
      BY <2>1, <2>2, ConnToEffect
    <2> QED
      BY <1>1, <1>2, <2>1, <2>3, Typed, TypeFrame DEF Fades, ConnTo, supVars, hbVars
  <1>4. CASE HeartbeatEnds(c)
    BY <1>1, <1>2, <1>4, Typed, TypeFrame DEF HeartbeatEnds, Fades, supVars, connVars
  <1>5. ASSUME NEW x \in ConnStates, NEW b \in Connections \cup {"none"},
               conn' = [conn EXCEPT ![c].st = x, ![c].beat = b]
        PROVE  /\ conn' \in [Connections -> ConnRec] /\ conn'[c].st = x /\ conn'[c].beat = b
               /\ \A d \in Connections \ {c} : conn'[d] = conn[d]
    <2> DEFINE q == [conn[c] EXCEPT !.st = x, !.beat = b]
    <2>1. conn \in [Connections -> ConnRec]
      BY Typed
    <2>2. q \in ConnRec /\ q.st = x /\ q.beat = b
      BY <1>5, <2>1 DEF ConnRec
    <2>3. conn' = [conn EXCEPT ![c] = q]
      BY <1>5, <2>1
    <2> HIDE DEF q
    <2> QED
      BY <2>1, <2>2, <2>3
  <1>6. AfterCallback(c) \in {"deferred", "parked", "closed"}
    BY DEF AfterCallback
  <1>7. CASE ClosedCallback(c)
    <2>1. /\ conn[c].st = "closing" /\ current' = (IF current = c THEN "none" ELSE current)
          /\ hb' = "none" /\ UNCHANGED beating /\ closedEvent' \in BOOLEAN
      BY <1>7 DEF ClosedCallback
    <2>2. PICK x \in IF hb \in beating THEN {"callback"} ELSE {"deferred", "parked", "closed"} :
            conn' = [conn EXCEPT ![c].st = x, ![c].beat = IF hb \in beating THEN hb ELSE "none"]
      BY <1>6, <1>7 DEF ClosedCallback
    <2>3. x \in ConnStates /\ (IF hb \in beating THEN hb ELSE "none") \in Connections \cup {"none"}
      BY <2>2, Typed DEF ConnStates
    <2>4. /\ conn' \in [Connections -> ConnRec] /\ conn'[c].st = x
          /\ conn'[c].beat = (IF hb \in beating THEN hb ELSE "none")
          /\ \A d \in Connections \ {c} : conn'[d] = conn[d]
      BY <1>5, <2>2, <2>3
    <2> QED
      BY <1>1, <1>2, <2>1, <2>2, <2>4, Typed, TypeFrame DEF Fades, supVars
  <1>8. CASE CallbackReturns(c)
    <2>1. conn[c].st = "callback" /\ conn[c].beat \notin beating /\ UNCHANGED <<current, closedEvent, hbVars>>
      BY <1>8 DEF CallbackReturns
    <2>2. PICK x \in {"deferred", "parked", "closed"} : conn' = [conn EXCEPT ![c].st = x, ![c].beat = "none"]
      BY <1>6, <1>8 DEF CallbackReturns
    <2>3. x \in ConnStates
      BY <2>2 DEF ConnStates
    <2>4. /\ conn' \in [Connections -> ConnRec] /\ conn'[c].st = x /\ conn'[c].beat = "none"
          /\ \A d \in Connections \ {c} : conn'[d] = conn[d]
      BY <1>5, <2>2, <2>3
    <2> QED
      BY <1>1, <1>2, <2>1, <2>2, <2>4, Typed, TypeFrame DEF Fades, supVars, hbVars
  <1> QED
    BY <1>3, <1>4, <1>7, <1>8 DEF CloseStep

\* A handler begins or returns; the worker ends.
Handles ==
  /\ UNCHANGED <<setup, state, supVars, connVars, hbVars, disp, start, stop, pc, release>>
  /\ handler' = "none" \/ (~setup.overlap /\ disp # "off")

LEMMA HandlesEffect ==
  ASSUME TypeInv, [Next]_vars, HandlerReturns \/ \E h \in Connections \cup {"event"} : HandlerBegins(h)
  PROVE  TypeInv' /\ Handles
  <1>1. /\ UNCHANGED <<setup, state, supVars, connVars, hbVars, disp, start, stop, pc, release>>
        /\ handler' \in Connections \cup {"none", "event"}
    BY DEF HandlerReturns, HandlerBegins
  <1>2. handler' = "none" \/ (~setup.overlap /\ disp # "off")
    <2>1. CASE HandlerReturns
      BY <2>1 DEF HandlerReturns
    <2>2. CASE \E h \in Connections \cup {"event"} : HandlerBegins(h)
      <3>1. calls.handled < setup.handled /\ disp # "off"
        BY <2>2 DEF HandlerBegins
      <3>2. setup \in Setups /\ setup.handled \in Nat /\ calls.handled \in Nat
        BY Typed, SetupAssumption DEF CallCounts
      <3>3. setup.handled > 0
        BY <3>1, <3>2
      <3> QED
        BY <3>1, <3>2, <3>3, HandlerAssumption
    <2> QED
      BY <2>1, <2>2
  <1>3. /\ \A u \in Supervisors : sup'[u].pc \in Holding => sup'[u].conn \in Connections
        /\ start'.pc \in {"starting", "handling"} => \E u \in Supervisors : sup'[u].pc = "unborn"
    BY <1>1 DEF TypeInv, supVars
  <1> QED
    BY <1>1, <1>2, <1>3, Typed, TypeFrame DEF Handles, supVars, connVars, hbVars

LEMMA CallsAfterType ==
  ASSUME TypeInv, NEW e PROVE CallsAfter(e) \in [Stoppers -> CallStates]
  BY Typed DEF CallsAfter, CallStates

Exits ==
  /\ UNCHANGED <<setup, handler, state, supervisor, connVars, hbVars, release>>
  /\ disp = "stopping" /\ disp' = "off" /\ handler = "none"
  /\ \A s \in Supervisors : IF sup[s].pc = "draining" THEN sup'[s].pc = "done" ELSE sup'[s] = sup[s]
  /\ IF stop.phase = "draining" THEN stop' = NoStop /\ pc' = CallsAfter(stop.error) ELSE UNCHANGED <<stop, pc>>
  /\ start'.sup = start.sup
  /\ start'.pc = IF start.pc = "draining" \/ (start.pc = "join" /\ stop.phase = "draining") THEN "idle" ELSE start.pc

LEMMA NoStopType == NoStop \in StopRec
  BY DEF NoStop, StopRec, StopPhases

LEMMA ExitsEffect ==
  ASSUME TypeInv, [Next]_vars, WorkerExits
  PROVE  TypeInv' /\ Exits
  <1>1. /\ UNCHANGED <<setup, handler, state, supervisor, connVars, hbVars, release>>
        /\ disp = "stopping" /\ disp' = "off" /\ handler = "none"
        /\ IF stop.phase = "draining" THEN stop' = NoStop /\ pc' = CallsAfter(stop.error) ELSE UNCHANGED <<stop, pc>>
    BY DEF WorkerExits
  <1>2. /\ start' \in StartRec /\ start'.sup = start.sup
        /\ start'.pc = IF start.pc = "draining" \/ (start.pc = "join" /\ stop.phase = "draining") THEN "idle" ELSE start.pc
    <2>1. start \in StartRec
      BY Typed
    <2> QED
      BY <2>1 DEF WorkerExits, StartRec, StartStates
  <1>3. /\ sup' \in [Supervisors -> SupRec]
        /\ \A s \in Supervisors : IF sup[s].pc = "draining" THEN sup'[s].pc = "done" ELSE sup'[s] = sup[s]
    <2>1. sup \in [Supervisors -> SupRec]
      BY Typed
    <2> DEFINE q == [NoSup EXCEPT !.pc = "done"]
    <2>2. q \in SupRec /\ q.pc = "done"
      BY DEF NoSup, SupRec, SupStates
    <2>3. sup' = [s \in Supervisors |-> IF sup[s].pc = "draining" THEN q ELSE sup[s]]
      BY DEF WorkerExits
    <2> HIDE DEF q
    <2> QED
      BY <2>1, <2>2, <2>3
  <1>4. stop' \in StopRec /\ pc' \in [Stoppers -> CallStates]
    BY <1>1, Typed, NoStopType, CallsAfterType
  <1>5. /\ \A u \in Supervisors : sup'[u].pc \in Holding => sup'[u].conn \in Connections
        /\ start'.pc \in {"starting", "handling"} => \E u \in Supervisors : sup'[u].pc = "unborn"
    BY <1>2, <1>3 DEF TypeInv, Holding
  <1> QED
    BY <1>1, <1>2, <1>3, <1>4, <1>5, Typed, TypeFrame DEF Exits, connVars, hbVars

\* start() is called, and goes on.
StartTo(p) == start'.pc = p /\ start'.sup = start.sup
StartGoes ==
  /\ UNCHANGED <<setup, handler, supVars, connVars, hbVars, stop, pc, release>>
  /\ \/ /\ start.pc = "idle" /\ (setup.overlap \/ Quiet)
        /\ disp' = IF disp = "off" THEN "on" ELSE disp
        /\ \/ state = "STOPPED" /\ state' = "STARTING" /\ StartTo("starting")
           \/ state = "STOPPING" /\ UNCHANGED <<state, start>>
     \/ /\ UNCHANGED <<state, disp>>
        /\ \/ start.pc = "starting" /\ StartTo("handling")
           \/ start.pc = "handling" /\ state # "STARTING" /\ stop.phase = "none" /\ StartTo("idle")
           \/ start.pc = "handling" /\ state # "STARTING" /\ stop.phase # "none" /\ StartTo("join")
           \/ start.pc = "handling" /\ StartTo("doomed")
           \/ start.pc = "running" /\ StartTo("idle")
           \/ start.pc = "join" /\ StartTo("idle")

\* It has succeeded: a supervisor is born.
Born(s) ==
  /\ UNCHANGED <<setup, handler, connVars, hbVars, disp, stop, pc, release>>
  /\ start.pc = "handling" /\ StartTo("running") /\ state = "STARTING" /\ state' = "RUNNING"
  /\ sup[s].pc = "unborn" /\ SupTo(s, "new") /\ supervisor' = s

\* It has failed, and rolls back.
RollsBackTo ==
  /\ UNCHANGED <<setup, handler, connVars, hbVars, disp, stop, pc, release>>
  /\ start.pc \in {"starting", "running", "doomed"} /\ start'.pc = "rollback" /\ start'.sup = supervisor
  /\ supervisor' = "none" /\ state' = IF Running THEN "STOPPED" ELSE state
  /\ \A s \in Supervisors : Cancels(s)
RollbackBegins ==
  /\ UNCHANGED <<setup, handler, state, supVars, disp, stop, pc>>
  /\ start.pc = "rollback" /\ SupDone(start.sup) /\ StartTo("releasing") /\ Begins("start")
RollbackEnds ==
  /\ UNCHANGED <<setup, handler, state, supVars, connVars, hbVars, stop, pc>>
  /\ start.pc = "releasing" /\ Released("start") /\ RelTo("start", "no", "none")
  /\ start'.pc \in {"idle", "draining"} /\ disp' = IF disp = "off" THEN "off" ELSE "stopping"

LEMMA StartToEffect ==
  ASSUME TypeInv, NEW p \in StartStates, start' = [start EXCEPT !.pc = p]
  PROVE  start' \in StartRec /\ StartTo(p)
  BY Typed DEF StartRec, StartTo

LEMMA RollsBackEffect ==
  ASSUME TypeInv, [Next]_vars, RollsBack, start.pc \in {"starting", "running", "doomed"},
         UNCHANGED <<setup, handler, connVars, hbVars, disp, stop, pc, release>>
  PROVE  TypeInv' /\ RollsBackTo
  <1>1. /\ start' = [pc |-> "rollback", sup |-> supervisor] /\ supervisor' = "none"
        /\ state' = IF Running THEN "STOPPED" ELSE state
    BY DEF RollsBack
  <1>2. start' \in StartRec /\ start'.pc = "rollback" /\ start'.sup = supervisor
    BY <1>1, Typed DEF StartRec, StartStates
  <1>3. sup' \in [Supervisors -> SupRec] /\ \A s \in Supervisors : Cancels(s)
    BY Typed, CancelEffect DEF RollsBack
  <1>4. \A u \in Supervisors : sup'[u].pc \in Holding => sup'[u].conn \in Connections
    BY <1>3 DEF Cancels, TypeInv, Holding
  <1> QED
    BY <1>1, <1>2, <1>3, <1>4, Typed, TypeFrame DEF RollsBackTo, connVars, hbVars

LEMMA StartEffect ==
  ASSUME TypeInv, [Next]_vars,
         \/ StartCalled \/ StartingQueued \/ StartingHandled \/ RunningTold \/ StartCancelled \/ StartDoomed
         \/ RollbackReleases \/ RollbackStopsDispatcher
  PROVE  TypeInv' /\ (StartGoes \/ RollsBackTo \/ RollbackBegins \/ RollbackEnds \/ \E s \in Supervisors : Born(s))
  <1>p. {"starting", "handling", "idle", "join", "doomed", "running", "releasing"} \subseteq StartStates
    BY DEF StartStates
  <1>1. CASE StartCalled
    <2>1. /\ UNCHANGED <<setup, handler, supVars, connVars, hbVars, stop, pc, release>>
          /\ start.pc = "idle" /\ (setup.overlap \/ Quiet) /\ disp' = (IF disp = "off" THEN "on" ELSE disp)
          /\ \E s \in Supervisors : sup[s].pc = "unborn"
          /\ \/ state = "STOPPED" /\ state' = "STARTING" /\ start' = [start EXCEPT !.pc = "starting"]
             \/ state = "STOPPING" /\ UNCHANGED <<state, start>>
      BY <1>1 DEF StartCalled, At
    <2>2. /\ start' \in StartRec
          /\ \/ state = "STOPPED" /\ state' = "STARTING" /\ StartTo("starting")
             \/ state = "STOPPING" /\ UNCHANGED <<state, start>>
      BY <1>p, <2>1, Typed, StartToEffect
    <2>3. /\ \A u \in Supervisors : sup'[u].pc \in Holding => sup'[u].conn \in Connections
          /\ \E u \in Supervisors : sup'[u].pc = "unborn"
      BY <2>1 DEF TypeInv, supVars
    <2> QED
      BY <2>1, <2>2, <2>3, Typed, TypeFrame DEF StartGoes, supVars, connVars, hbVars
  <1>2. ASSUME \/ start.pc = "starting" /\ start' = [start EXCEPT !.pc = "handling"]
               \/ start.pc = "handling" /\ state # "STARTING" /\ stop.phase = "none" /\ start' = [start EXCEPT !.pc = "idle"]
               \/ start.pc = "handling" /\ state # "STARTING" /\ stop.phase # "none" /\ start' = [start EXCEPT !.pc = "join"]
               \/ start.pc = "handling" /\ start' = [start EXCEPT !.pc = "doomed"]
               \/ start.pc = "running" /\ start' = [start EXCEPT !.pc = "idle"]
               \/ start.pc = "join" /\ start' = [start EXCEPT !.pc = "idle"],
               UNCHANGED <<setup, handler, state, supVars, connVars, hbVars, disp, stop, pc, release>>
        PROVE  TypeInv' /\ StartGoes
    <2>1. /\ start' \in StartRec
          /\ \/ start.pc = "starting" /\ StartTo("handling")
             \/ start.pc = "handling" /\ state # "STARTING" /\ stop.phase = "none" /\ StartTo("idle")
             \/ start.pc = "handling" /\ state # "STARTING" /\ stop.phase # "none" /\ StartTo("join")
             \/ start.pc = "handling" /\ StartTo("doomed")
             \/ start.pc = "running" /\ StartTo("idle")
             \/ start.pc = "join" /\ StartTo("idle")
      BY <1>p, <1>2, StartToEffect
    <2>2. /\ \A u \in Supervisors : sup'[u].pc \in Holding => sup'[u].conn \in Connections
          /\ start'.pc \in {"starting", "handling"} => \E u \in Supervisors : sup'[u].pc = "unborn"
      BY <1>2, <2>1 DEF TypeInv, supVars, StartTo
    <2> QED
      BY <1>2, <2>1, <2>2, Typed, TypeFrame DEF StartGoes, supVars, connVars, hbVars
  <1>3. CASE StartingQueued
    BY <1>2, <1>3, RollsBackEffect DEF StartingQueued, supVars
  <1>4. CASE RunningTold
    BY <1>2, <1>4 DEF RunningTold
  <1>5. CASE StartDoomed
    BY <1>5, RollsBackEffect DEF StartDoomed
  <1>6. CASE StartCancelled
    <2>1. CASE start.pc \in {"starting", "running"} /\ RollsBack
      BY <1>6, <2>1, RollsBackEffect DEF StartCancelled
    <2>2. CASE /\ start.pc \in {"handling", "join"}
               /\ start' = [start EXCEPT !.pc = IF @ = "join" THEN "idle" ELSE "doomed"]
               /\ UNCHANGED <<state, supVars>>
      <3>1. \/ start.pc = "handling" /\ start' = [start EXCEPT !.pc = "doomed"]
            \/ start.pc = "join" /\ start' = [start EXCEPT !.pc = "idle"]
        BY <2>2, Typed DEF StartRec
      <3> QED
        BY <1>2, <1>6, <2>2, <3>1 DEF StartCancelled
    <2> QED
      BY <1>6, <2>1, <2>2 DEF StartCancelled
  <1>7. CASE StartingHandled
    <2>1. CASE state # "STARTING"
      <3>1. \/ start.pc = "handling" /\ state # "STARTING" /\ stop.phase = "none" /\ start' = [start EXCEPT !.pc = "idle"]
            \/ start.pc = "handling" /\ state # "STARTING" /\ stop.phase # "none" /\ start' = [start EXCEPT !.pc = "join"]
        BY <1>7, <2>1 DEF StartingHandled
      <3> QED
        BY <1>2, <1>7, <2>1, <3>1 DEF StartingHandled
    <2>2. CASE state = "STARTING"
      <3>1. /\ UNCHANGED <<setup, handler, connVars, hbVars, disp, stop, pc, release>>
            /\ start.pc = "handling" /\ state' = "RUNNING" /\ start' = [start EXCEPT !.pc = "running"]
            /\ GoTo(NewSupervisor, "new") /\ supervisor' = NewSupervisor
        BY <1>7, <2>2 DEF StartingHandled
      <3>2. PICK s \in Supervisors : s = NewSupervisor /\ sup[s].pc = "unborn"
        BY <3>1 DEF TypeInv, NewSupervisor
      <3>3. SupTo(s, "new") /\ sup' \in [Supervisors -> SupRec]
        BY <3>1, <3>2, SupToEffect DEF SupStates
      <3>4. start' \in StartRec /\ StartTo("running")
        BY <1>p, <3>1, StartToEffect
      <3>5. Born(s)
        BY <2>2, <3>1, <3>2, <3>3, <3>4 DEF Born
      <3>6. \A u \in Supervisors : sup'[u].pc \in Holding => sup'[u].conn \in Connections
        BY <3>3 DEF SupTo, TypeInv, Holding
      <3> QED
        BY <3>1, <3>2, <3>3, <3>4, <3>5, <3>6, Typed, TypeFrame DEF StartTo, connVars, hbVars
    <2> QED
      BY <2>1, <2>2
  <1>8. CASE RollbackReleases
    <2>1. /\ UNCHANGED <<setup, handler, state, supVars, disp, stop, pc>>
          /\ start.pc = "rollback" /\ SupDone(start.sup) /\ start' = [start EXCEPT !.pc = "releasing"]
          /\ ReleaseBegins("start")
      BY <1>8 DEF RollbackReleases
    <2>2. /\ Begins("start") /\ release' \in [Releasers -> RelRec] /\ conn' \in [Connections -> ConnRec]
          /\ current' \in Connections \cup {"none"} /\ closedEvent' \in BOOLEAN /\ hb' = "none"
          /\ beating' \subseteq Connections
      BY <2>1, Typed, BeginsEffect
    <2>3. start' \in StartRec /\ StartTo("releasing")
      BY <1>p, <2>1, StartToEffect
    <2>4. \A u \in Supervisors : sup'[u].pc \in Holding => sup'[u].conn \in Connections
      BY <2>1 DEF TypeInv, supVars
    <2> QED
      BY <2>1, <2>2, <2>3, <2>4, Typed, TypeFrame DEF RollbackBegins, StartTo, supVars
  <1>9. CASE RollbackStopsDispatcher
    <2>1. /\ UNCHANGED <<setup, handler, state, supVars, connVars, hbVars, stop, pc>>
          /\ start.pc = "releasing" /\ Released("start") /\ ReleaseOver("start")
          /\ start' = [pc |-> IF disp = "off" THEN "idle" ELSE "draining", sup |-> "none"]
          /\ disp' = IF disp = "off" THEN "off" ELSE "stopping"
      BY <1>9 DEF RollbackStopsDispatcher
    <2>2. start' \in StartRec /\ start'.pc \in {"idle", "draining"}
      BY <2>1 DEF StartRec, StartStates
    <2>3. RelTo("start", "no", "none") /\ release' \in [Releasers -> RelRec]
      BY <2>1, Typed, ReleaseOverEffect
    <2>4. \A u \in Supervisors : sup'[u].pc \in Holding => sup'[u].conn \in Connections
      BY <2>1 DEF TypeInv, supVars
    <2> QED
      BY <2>1, <2>2, <2>3, <2>4, Typed, TypeFrame DEF RollbackEnds, supVars, connVars, hbVars
  <1> QED
    BY <1>1, <1>3, <1>4, <1>5, <1>6, <1>7, <1>8, <1>9

\* stop() is called.
PlanIs(ph, s, h, t) == stop'.phase = ph /\ stop'.sup = s /\ stop'.handler = h /\ stop'.transition = t
StopPlanned ==
  /\ UNCHANGED <<setup, handler, sup, disp, start>> /\ stop.phase = "none"
  /\ \/ /\ Running /\ PlanIs("stopping", supervisor, FALSE, TRUE) /\ stop'.dispatcher = TRUE
        /\ supervisor' = "none" /\ state' = "STOPPING" /\ UNCHANGED <<connVars, hbVars, release>>
     \/ /\ Running /\ PlanIs("release", supervisor, TRUE, TRUE) /\ stop'.dispatcher = TRUE
        /\ handler # "none" /\ supervisor' = "none" /\ state' = "STOPPING" /\ Begins("handler")
     \/ /\ ~Running /\ UNCHANGED <<state, connVars, hbVars, release>>
        /\ supervisor' = IF SupDone(supervisor) THEN "none" ELSE supervisor
        /\ stop'.dispatcher <=> disp # "off"
        /\ \/ PlanIs("supervisor", supervisor', FALSE, FALSE)
           \/ handler # "none" /\ PlanIs("supervisor", supervisor', TRUE, FALSE)

LEMMA PlansRestEffect ==
  ASSUME TypeInv, NEW b \in BOOLEAN, PlansRest(b)
  PROVE  /\ stop' \in StopRec /\ (stop'.dispatcher <=> disp # "off")
         /\ supervisor' = (IF SupDone(supervisor) THEN "none" ELSE supervisor)
         /\ PlanIs("supervisor", supervisor', b, FALSE) /\ UNCHANGED state
         /\ supervisor' \in Supervisors \cup {"none"}
  <1>1. PICK s \in Supervisors \cup {"none"} : s = IF SupDone(supervisor) THEN "none" ELSE supervisor
    BY Typed
  <1>2. PICK d \in BOOLEAN : d = (disp # "off")
    OBVIOUS
  <1>3. /\ stop' = [NoStop EXCEPT !.phase = "supervisor", !.sup = s, !.dispatcher = d, !.handler = b]
        /\ supervisor' = s /\ UNCHANGED state
    BY <1>1, <1>2 DEF PlansRest
  <1>4. stop' = [phase |-> "supervisor", sup |-> s, dispatcher |-> d, error |-> FALSE, handler |-> b,
                 transition |-> FALSE, cancel |-> FALSE, conn |-> "none"]
    BY <1>3 DEF NoStop
  <1>5. stop' \in StopRec /\ PlanIs("supervisor", s, b, FALSE) /\ stop'.dispatcher = d
    BY <1>4 DEF StopRec, PlanIs, StopPhases
  <1>6. stop'.dispatcher <=> disp # "off"
    BY <1>2, <1>5
  <1> QED
    BY <1>1, <1>3, <1>5, <1>6

LEMMA StopPlannedEffect ==
  ASSUME TypeInv, [Next]_vars, HandlerStops \/ \E k \in Stoppers : StopCalled(k)
  PROVE  /\ TypeInv'
         /\ StopPlanned \/ UNCHANGED <<setup, handler, state, supVars, connVars, hbVars, disp, start, stop, release>>
  <1>1. UNCHANGED <<setup, handler, sup, disp, start>>
    BY DEF HandlerStops, StopCalled
  <1>2. /\ \A u \in Supervisors : sup'[u].pc \in Holding => sup'[u].conn \in Connections
        /\ start'.pc \in {"starting", "handling"} => \E u \in Supervisors : sup'[u].pc = "unborn"
    BY <1>1 DEF TypeInv
  <1>3. ASSUME NEW k \in Stoppers, StopCalled(k)
        PROVE  pc' \in [Stoppers -> CallStates] /\ UNCHANGED <<connVars, hbVars, release>>
    <2>1. \E x \in CallStates : pc' = [pc EXCEPT ![k] = x]
      BY <1>3 DEF StopCalled, CallStates
    <2> QED
      BY <1>3, <2>1, Typed DEF StopCalled
  <1>4. ASSUME NEW k \in Stoppers, StopCalled(k), stop.phase # "none" \/ FullyStopped
        PROVE  TypeInv' /\ UNCHANGED <<setup, handler, state, supVars, connVars, hbVars, disp, start, stop, release>>
    <2>1. UNCHANGED <<stop, state, supervisor>>
      BY <1>4 DEF StopCalled
    <2> QED
      BY <1>1, <1>2, <1>3, <1>4, <2>1, Typed, TypeFrame DEF connVars, hbVars, supVars
  <1>5. ASSUME NEW k \in Stoppers, StopCalled(k), ~(stop.phase # "none" \/ FullyStopped)
        PROVE  TypeInv' /\ StopPlanned
    <2>1. CASE Running
      <3>1. /\ stop' = [NoStop EXCEPT !.phase = "stopping", !.sup = supervisor, !.dispatcher = TRUE, !.transition = TRUE]
            /\ supervisor' = "none" /\ state' = "STOPPING"
        BY <1>5, <2>1 DEF StopCalled, PlansStop
      <3>2. stop' = [phase |-> "stopping", sup |-> supervisor, dispatcher |-> TRUE, error |-> FALSE,
                     handler |-> FALSE, transition |-> TRUE, cancel |-> FALSE, conn |-> "none"]
        BY <3>1 DEF NoStop
      <3>3. stop' \in StopRec /\ PlanIs("stopping", supervisor, FALSE, TRUE) /\ stop'.dispatcher = TRUE
        BY <3>2, Typed DEF StopRec, PlanIs, StopPhases
      <3> QED
        BY <1>1, <1>2, <1>3, <1>5, <2>1, <3>1, <3>3, Typed, TypeFrame DEF StopPlanned, connVars, hbVars
    <2>2. CASE ~Running
      <3>1. PlansRest(FALSE)
        BY <1>5, <2>2 DEF StopCalled
      <3>2. /\ stop' \in StopRec /\ (stop'.dispatcher <=> disp # "off")
            /\ supervisor' = (IF SupDone(supervisor) THEN "none" ELSE supervisor)
            /\ PlanIs("supervisor", supervisor', FALSE, FALSE) /\ UNCHANGED state
            /\ supervisor' \in Supervisors \cup {"none"}
        BY <3>1, PlansRestEffect
      <3> QED
        BY <1>1, <1>2, <1>3, <1>5, <2>2, <3>2, Typed, TypeFrame DEF StopPlanned, connVars, hbVars
    <2> QED
      BY <2>1, <2>2
  <1>6. CASE HandlerStops
    <2>1. handler # "none" /\ stop.phase = "none" /\ UNCHANGED pc
      BY <1>6 DEF HandlerStops
    <2>2. CASE Running
      <3>1. PICK x \in BOOLEAN : x = (supervisor # "none" /\ ~StartupInProgress)
        <4>1. (supervisor # "none" /\ ~StartupInProgress) \in BOOLEAN
          OBVIOUS
        <4> QED
          BY <4>1
      <3>2. /\ stop' = [NoStop EXCEPT !.phase = "release", !.sup = supervisor, !.dispatcher = TRUE,
                                     !.handler = TRUE, !.transition = TRUE, !.cancel = x]
            /\ supervisor' = "none" /\ state' = "STOPPING" /\ ReleaseBegins("handler")
        BY <1>6, <2>2, <3>1 DEF HandlerStops
      <3>3. stop' = [phase |-> "release", sup |-> supervisor, dispatcher |-> TRUE, error |-> FALSE,
                     handler |-> TRUE, transition |-> TRUE, cancel |-> x, conn |-> "none"]
        BY <3>2 DEF NoStop
      <3>4. stop' \in StopRec /\ PlanIs("release", supervisor, TRUE, TRUE) /\ stop'.dispatcher = TRUE
        BY <3>3, Typed DEF StopRec, PlanIs, StopPhases
      <3>5. /\ Begins("handler") /\ release' \in [Releasers -> RelRec] /\ conn' \in [Connections -> ConnRec]
            /\ current' \in Connections \cup {"none"} /\ closedEvent' \in BOOLEAN /\ hb' = "none"
            /\ beating' \subseteq Connections
        BY <3>2, Typed, BeginsEffect
      <3> QED
        BY <1>1, <1>2, <2>1, <2>2, <3>2, <3>4, <3>5, Typed, TypeFrame DEF StopPlanned
    <2>3. CASE ~Running
      <3>1. PlansRest(TRUE) /\ UNCHANGED <<connVars, hbVars, release>>
        BY <1>6, <2>3 DEF HandlerStops
      <3>2. /\ stop' \in StopRec /\ (stop'.dispatcher <=> disp # "off")
            /\ supervisor' = (IF SupDone(supervisor) THEN "none" ELSE supervisor)
            /\ PlanIs("supervisor", supervisor', TRUE, FALSE) /\ UNCHANGED state
            /\ supervisor' \in Supervisors \cup {"none"}
        BY <3>1, PlansRestEffect
      <3> QED
        BY <1>1, <1>2, <2>1, <2>3, <3>1, <3>2, Typed, TypeFrame DEF StopPlanned, connVars, hbVars
    <2> QED
      BY <2>2, <2>3
  <1> QED
    BY <1>4, <1>5, <1>6

\* The stop goes on in phase ph, or is over; in the end it stops the dispatcher.
PlanTo(ph) == PlanIs(ph, stop.sup, stop.handler, stop.transition) /\ stop'.dispatcher = stop.dispatcher
StopOver == stop' = NoStop /\ StartTo(IF start.pc = "join" THEN "idle" ELSE start.pc)
StopsDisp == \/ disp = "off" /\ StopOver /\ UNCHANGED disp
             \/ disp # "off" /\ PlanTo("draining") /\ disp' = "stopping" /\ UNCHANGED start
StopMoves ==
  /\ UNCHANGED <<setup, handler>>
  /\ \/ /\ stop.phase = "stopping" /\ PlanTo("supervisor") /\ \A s \in Supervisors : Cancels(s)
        /\ UNCHANGED <<state, supervisor, connVars, hbVars, disp, start, release>>
     \/ /\ stop.phase = "supervisor" /\ SupDone(stop.sup) /\ PlanTo("release") /\ Begins(Releaser)
        /\ supervisor' = IF supervisor = stop.sup THEN "none" ELSE supervisor
        /\ UNCHANGED <<state, sup, disp, start>>
     \/ /\ stop.phase = "release" /\ ~stop.handler /\ Released("stop") /\ RelTo("stop", "no", "none")
        /\ UNCHANGED <<supVars, connVars, hbVars>>
        /\ \/ ~stop.dispatcher /\ StopOver /\ UNCHANGED <<state, disp>>
           \/ /\ stop.dispatcher /\ state' = IF state = "STOPPING" THEN "STOPPED" ELSE state
              /\ StopsDisp \/ (PlanTo("stopped") /\ UNCHANGED <<disp, start>>)
     \/ /\ stop.phase = "release" /\ stop.handler /\ Released("handler") /\ RelTo("handler", "no", "none")
        /\ state' = (IF state = "STOPPING" THEN "STOPPED" ELSE state)
        /\ PlanTo("handlers") /\ disp' = "stopping" /\ \A s \in Supervisors : Cancels(s)
        /\ UNCHANGED <<supervisor, connVars, hbVars, start>>
     \/ /\ UNCHANGED <<state, supVars, connVars, hbVars, release>>
        /\ \/ /\ stop.phase = "handlers" /\ handler = "none" /\ UNCHANGED <<disp, start>>
              /\ PlanTo(IF stop.transition THEN "telling" ELSE "closes")
           \/ stop.phase = "telling" /\ PlanTo("closes") /\ UNCHANGED <<disp, start>>
           \/ /\ stop.phase = "closes" /\ SupDone(stop.sup)
              /\ IF stop.transition THEN PlanTo("stopped") /\ UNCHANGED <<disp, start>> ELSE StopsDisp
           \/ stop.phase = "stopped" /\ StopsDisp
           \/ UNCHANGED <<disp, start>> /\ SamePlan
           \/ stop.phase = "draining" /\ StopOver /\ UNCHANGED disp

LEMMA PlanToEffect ==
  ASSUME TypeInv, NEW ph \in StopPhases, stop' = [stop EXCEPT !.phase = ph]
  PROVE  stop' \in StopRec /\ PlanTo(ph)
  BY Typed DEF StopRec, PlanTo, PlanIs

LEMMA StopOverEffect ==
  ASSUME TypeInv, NEW e, Completed(e)
  PROVE  StopOver /\ stop' \in StopRec /\ start' \in StartRec /\ pc' \in [Stoppers -> CallStates]
  <1>1. start \in StartRec
    BY Typed
  <1>2. start' \in StartRec /\ StartTo(IF start.pc = "join" THEN "idle" ELSE start.pc)
    BY <1>1 DEF Completed, StartRec, StartStates, StartTo
  <1> QED
    BY <1>2, NoStopType, CallsAfterType DEF Completed, StopOver

LEMMA StopsDispEffect ==
  ASSUME TypeInv, FinishesWithDispatcher
  PROVE  /\ StopsDisp /\ stop' \in StopRec /\ start' \in StartRec /\ pc' \in [Stoppers -> CallStates]
         /\ disp' \in {"off", "on", "stopping"}
  <1>1. "draining" \in StopPhases
    BY DEF StopPhases
  <1>2. CASE disp = "off"
    BY <1>2, StopOverEffect DEF FinishesWithDispatcher, StopsDisp
  <1>3. CASE disp # "off"
    BY <1>1, <1>3, Typed, PlanToEffect DEF FinishesWithDispatcher, StopsDisp
  <1> QED
    BY <1>2, <1>3

LEMMA StopMovesEffect ==
  ASSUME TypeInv, [Next]_vars,
         \/ StoppingTold \/ SupervisorGone \/ ResourcesReleased \/ StoppedTold \/ HandlerStopsDispatcher
         \/ FinisherRuns \/ \E k \in Stoppers : StopperCancelled(k)
  PROVE  TypeInv' /\ StopMoves
  <1>p. {"supervisor", "release", "stopped", "handlers", "telling", "closes", "draining"} \subseteq StopPhases
    BY DEF StopPhases
  <1>u. UNCHANGED <<setup, handler>>
    BY DEF StoppingTold, SupervisorGone, ResourcesReleased, StoppedTold, HandlerStopsDispatcher, FinisherRuns,
       StopperCancelled
  <1>f. ASSUME \A s \in Supervisors : Cancels(s), sup' \in [Supervisors -> SupRec]
        PROVE  /\ \A u \in Supervisors : sup'[u].pc \in Holding => sup'[u].conn \in Connections
               /\ \A u \in Supervisors : sup[u].pc = "unborn" => sup'[u].pc = "unborn"
    BY <1>f DEF Cancels, TypeInv, Holding
  <1>s. ASSUME UNCHANGED sup, StopOver \/ UNCHANGED start
        PROVE  /\ \A u \in Supervisors : sup'[u].pc \in Holding => sup'[u].conn \in Connections
               /\ start'.pc \in {"starting", "handling"} => \E u \in Supervisors : sup'[u].pc = "unborn"
    BY <1>s DEF TypeInv, StopOver, StartTo
  <1>1. CASE StoppingTold
    <2>1. /\ stop.phase = "stopping" /\ stop' = [stop EXCEPT !.phase = "supervisor"] /\ Cancel(stop.sup)
          /\ UNCHANGED <<state, supervisor, connVars, hbVars, disp, start, pc, release>>
      BY <1>1 DEF StoppingTold
    <2>2. stop' \in StopRec /\ PlanTo("supervisor")
      BY <1>p, <2>1, PlanToEffect
    <2>3. sup' \in [Supervisors -> SupRec] /\ \A s \in Supervisors : Cancels(s)
      <3>1. stop.sup \in Supervisors \cup {"none"}
        BY Typed DEF StopRec
      <3> QED
        BY <2>1, <3>1, Typed, CancelEffect
    <2>4. /\ \A u \in Supervisors : sup'[u].pc \in Holding => sup'[u].conn \in Connections
          /\ start'.pc \in {"starting", "handling"} => \E u \in Supervisors : sup'[u].pc = "unborn"
      BY <1>f, <2>1, <2>3 DEF TypeInv
    <2> QED
      BY <1>u, <2>1, <2>2, <2>3, <2>4, Typed, TypeFrame DEF StopMoves, connVars, hbVars
  <1>2. CASE SupervisorGone
    <2>1. /\ stop.phase = "supervisor" /\ SupDone(stop.sup) /\ stop' = [stop EXCEPT !.phase = "release"]
          /\ supervisor' = (IF supervisor = stop.sup THEN "none" ELSE supervisor)
          /\ ReleaseBegins(Releaser) /\ UNCHANGED <<state, sup, disp, start, pc>>
      BY <1>2 DEF SupervisorGone
    <2>2. stop' \in StopRec /\ PlanTo("release")
      BY <1>p, <2>1, PlanToEffect
    <2>3. /\ Begins(Releaser) /\ release' \in [Releasers -> RelRec] /\ conn' \in [Connections -> ConnRec]
          /\ current' \in Connections \cup {"none"} /\ closedEvent' \in BOOLEAN /\ hb' = "none"
          /\ beating' \subseteq Connections
      <3>1. Releaser \in Releasers
        BY DEF Releaser, Releasers
      <3> QED
        BY <2>1, <3>1, BeginsEffect
    <2> QED
      BY <1>u, <1>s, <2>1, <2>2, <2>3, Typed, TypeFrame DEF StopMoves
  <1>3. CASE ResourcesReleased
    <2>1. /\ stop.phase = "release" /\ ~stop.handler /\ Released("stop") /\ ReleaseOver("stop")
          /\ UNCHANGED <<supVars, connVars, hbVars>>
      BY <1>3 DEF ResourcesReleased
    <2>2. RelTo("stop", "no", "none") /\ release' \in [Releasers -> RelRec]
      BY <2>1, Typed, ReleaseOverEffect
    <2>3. CASE ~stop.dispatcher
      <3>1. StopOver /\ stop' \in StopRec /\ start' \in StartRec /\ pc' \in [Stoppers -> CallStates]
        BY <1>3, <2>3, StopOverEffect DEF ResourcesReleased
      <3>2. UNCHANGED <<state, disp>>
        BY <1>3, <2>3 DEF ResourcesReleased
      <3> QED
        BY <1>u, <1>s, <2>1, <2>2, <2>3, <3>1, <3>2, Typed, TypeFrame DEF StopMoves, supVars, connVars, hbVars
    <2>4. CASE stop.dispatcher
      <3>1. state' = IF state = "STOPPING" THEN "STOPPED" ELSE state
        BY <1>3, <2>4 DEF ResourcesReleased
      <3>2. /\ stop' \in StopRec /\ start' \in StartRec /\ pc' \in [Stoppers -> CallStates]
            /\ disp' \in {"off", "on", "stopping"}
            /\ StopsDisp \/ (PlanTo("stopped") /\ UNCHANGED <<disp, start>>)
        <4>1. CASE FinishesWithDispatcher
          BY <4>1, StopsDispEffect
        <4>2. CASE stop' = [stop EXCEPT !.phase = "stopped"] /\ UNCHANGED <<disp, pc, start>>
          BY <1>p, <4>2, PlanToEffect, Typed
        <4> QED
          BY <1>3, <2>4, <4>1, <4>2 DEF ResourcesReleased
      <3>3. StopOver \/ UNCHANGED start
        BY <3>2 DEF StopsDisp
      <3> QED
        BY <1>u, <1>s, <2>1, <2>2, <2>4, <3>1, <3>2, <3>3, Typed, TypeFrame DEF StopMoves, supVars, connVars, hbVars
    <2> QED
      BY <2>3, <2>4
  <1>4. CASE HandlerStopsDispatcher
    <2>1. /\ stop.phase = "release" /\ stop.handler /\ Released("handler") /\ ReleaseOver("handler")
          /\ state' = (IF state = "STOPPING" THEN "STOPPED" ELSE state)
          /\ stop' = [stop EXCEPT !.phase = "handlers"] /\ disp' = "stopping"
          /\ UNCHANGED <<supervisor, connVars, hbVars, start, pc>>
      BY <1>4 DEF HandlerStopsDispatcher
    <2>2. RelTo("handler", "no", "none") /\ release' \in [Releasers -> RelRec]
      BY <2>1, Typed, ReleaseOverEffect
    <2>3. stop' \in StopRec /\ PlanTo("handlers")
      BY <1>p, <2>1, PlanToEffect
    <2>4. sup' \in [Supervisors -> SupRec] /\ \A s \in Supervisors : Cancels(s)
      <3>1. sup \in [Supervisors -> SupRec]
        BY Typed
      <3>2. sup' = [s \in Supervisors |->
                     IF s = stop.sup /\ stop.cancel /\ ~SupDone(s) THEN AfterCancel(s)
                     ELSE IF Dropped(s) THEN [sup[s] EXCEPT !.pc = "abandoned"] ELSE sup[s]]
        BY <1>4 DEF HandlerStopsDispatcher
      <3>3. ASSUME NEW s \in Supervisors PROVE sup'[s] \in SupRec /\ Cancels(s)
        <4>1. CASE s = stop.sup /\ stop.cancel /\ ~SupDone(s)
          <5>1. sup'[s] = AfterCancel(s) /\ sup[s].pc # "done"
            BY <3>2, <4>1 DEF SupDone
          <5> QED
            BY <3>1, <5>1, AfterCancelEffect DEF Cancels
        <4>2. CASE ~(s = stop.sup /\ stop.cancel /\ ~SupDone(s)) /\ Dropped(s)
          <5>1. sup'[s] = [sup[s] EXCEPT !.pc = "abandoned"] /\ sup[s].pc = "handling"
            BY <3>2, <4>2 DEF Dropped, At
          <5> QED
            BY <3>1, <5>1 DEF Cancels, SupRec, SupStates
        <4>3. CASE ~(s = stop.sup /\ stop.cancel /\ ~SupDone(s)) /\ ~Dropped(s)
          BY <3>1, <3>2, <4>3 DEF Cancels
        <4> QED
          BY <4>1, <4>2, <4>3
      <3> QED
        BY <3>2, <3>3
    <2>5. /\ \A u \in Supervisors : sup'[u].pc \in Holding => sup'[u].conn \in Connections
          /\ start'.pc \in {"starting", "handling"} => \E u \in Supervisors : sup'[u].pc = "unborn"
      BY <1>f, <2>1, <2>4 DEF TypeInv
    <2> QED
      BY <1>u, <2>1, <2>2, <2>3, <2>4, <2>5, Typed, TypeFrame DEF StopMoves, connVars, hbVars
  <1>5. ASSUME stop' \in StopRec, start' \in StartRec, pc' \in [Stoppers -> CallStates],
               disp' \in {"off", "on", "stopping"}, StopOver \/ UNCHANGED start,
               UNCHANGED <<state, supVars, connVars, hbVars, release>>
        PROVE  TypeInv'
    BY <1>u, <1>s, <1>5, Typed, TypeFrame DEF supVars, connVars, hbVars
  <1>6. CASE StoppedTold
    <2>1. /\ UNCHANGED <<state, supVars, connVars, hbVars, release>> /\ stop.phase = "stopped"
          /\ FinishesWithDispatcher
      BY <1>6 DEF StoppedTold
    <2>2. StopOver \/ UNCHANGED start
      BY <2>1, StopsDispEffect DEF StopsDisp
    <2> QED
      BY <1>u, <1>5, <2>1, <2>2, StopsDispEffect DEF StopMoves
  <1>7. CASE FinisherRuns
    <2>1. UNCHANGED <<state, supVars, connVars, hbVars, release>>
      BY <1>7 DEF FinisherRuns
    <2>2. CASE FinishesWithDispatcher /\ stop.phase = "closes" /\ SupDone(stop.sup) /\ ~stop.transition
      <3>1. StopOver \/ UNCHANGED start
        BY <2>2, StopsDispEffect DEF StopsDisp
      <3> QED
        BY <1>u, <1>5, <2>1, <2>2, <3>1, StopsDispEffect DEF StopMoves
    <2>3. CASE /\ UNCHANGED <<disp, pc, start>>
               /\ \/ /\ stop.phase = "handlers" /\ handler = "none"
                     /\ stop' = [stop EXCEPT !.phase = IF stop.transition THEN "telling" ELSE "closes"]
                  \/ stop.phase = "telling" /\ stop' = [stop EXCEPT !.phase = "closes"]
                  \/ /\ stop.phase = "closes" /\ SupDone(stop.sup) /\ stop.transition
                     /\ stop' = [stop EXCEPT !.phase = "stopped"]
      <3>1. /\ stop' \in StopRec
            /\ \/ /\ stop.phase = "handlers" /\ handler = "none"
                  /\ PlanTo(IF stop.transition THEN "telling" ELSE "closes")
               \/ stop.phase = "telling" /\ PlanTo("closes")
               \/ stop.phase = "closes" /\ SupDone(stop.sup) /\ stop.transition /\ PlanTo("stopped")
        BY <1>p, <2>3, PlanToEffect
      <3> QED
        BY <1>u, <1>5, <2>1, <2>3, <3>1, Typed DEF StopMoves
    <2> QED
      BY <1>7, <2>2, <2>3 DEF FinisherRuns
  <1>8. ASSUME NEW k \in Stoppers, StopperCancelled(k) PROVE TypeInv' /\ StopMoves
    <2>1. UNCHANGED <<state, supVars, connVars, hbVars, release, disp>>
      BY <1>8 DEF StopperCancelled
    <2>2. CASE Completed(TRUE) /\ stop.phase = "draining"
      BY <1>u, <1>5, <2>1, <2>2, StopOverEffect, Typed DEF StopMoves
    <2>3. CASE stop' = [stop EXCEPT !.error = TRUE] /\ UNCHANGED <<pc, start>>
      <3>1. stop' \in StopRec /\ SamePlan
        BY <2>3, Typed DEF StopRec, SamePlan
      <3> QED
        BY <1>u, <1>5, <2>1, <2>3, <3>1, Typed DEF StopMoves
    <2>4. CASE pc' = [pc EXCEPT ![k] = "raised"] /\ UNCHANGED <<stop, start>>
      <3>1. pc' \in [Stoppers -> CallStates] /\ SamePlan
        BY <2>4, Typed DEF CallStates, SamePlan
      <3> QED
        BY <1>u, <1>5, <2>1, <2>4, <3>1, Typed DEF StopMoves
    <2> QED
      BY <1>8, <2>2, <2>3, <2>4 DEF StopperCancelled
  <1> QED
    BY <1>1, <1>2, <1>3, <1>4, <1>6, <1>7, <1>8

-----------------------------------------------------------------------------
(***************************************************************************)
(* Types, and every step by what it does.                                   *)
(***************************************************************************)
NothingElse == UNCHANGED <<setup, handler, state, supVars, current, conn, hbVars, disp, start, stop, release>>
Effect ==
  \/ \E s \in Supervisors : Steps(s) \/ CleansUp(s) \/ Ends(s) \/ Born(s)
  \/ \E s \in Supervisors, c \in Connections :
       Opens(s, c) \/ Discards(s, c) \/ \E told \in BOOLEAN : Joins(s, c, told)
  \/ \E t \in Releasers : GoesOn(t)
  \/ \E c \in Connections : Fades(c)
  \/ Handles \/ Exits \/ StartGoes \/ RollsBackTo \/ RollbackBegins \/ RollbackEnds
  \/ StopPlanned \/ StopMoves \/ NothingElse

LEMMA StepEffect == TypeInv /\ [Next]_vars => TypeInv' /\ Effect
  <1> SUFFICES ASSUME TypeInv, [Next]_vars PROVE TypeInv' /\ Effect
    OBVIOUS
  <1>1. ASSUME NEW s \in Supervisors, SupervisorStep(s) \/ Connects(s) \/ ConnectFails(s)
        PROVE  TypeInv' /\ Effect
    <2>1. CASE \/ SupervisorRuns(s) \/ ConnectFails(s) \/ OpenedQueued(s) \/ ClosesItself(s) \/ NoticesClose(s)
               \/ OpenedHandled(s) /\ conn[sup[s].conn].st = "deferred"
               \/ Abandons(s) /\ conn[sup[s].conn].st = "over"
      BY <2>1, StepsEffect DEF Effect
    <2>2. CASE Connects(s)
      BY <2>2, OpensEffect DEF Effect
    <2>3. CASE DeferredClosePublished(s)
      <3>1. TypeInv' /\ Joins(s, sup[s].conn, TRUE) /\ sup[s].conn \in Connections
        BY <2>3, JoinsEffect
      <3> QED
        BY <3>1 DEF Effect
    <2>4. CASE OpenedHandled(s) /\ conn[sup[s].conn].st # "deferred"
      <3>1. TypeInv' /\ Joins(s, sup[s].conn, FALSE) /\ sup[s].conn \in Connections
        BY <2>4, JoinsEffect
      <3> QED
        BY <3>1 DEF Effect
    <2>5. CASE Abandons(s) /\ conn[sup[s].conn].st # "over"
      BY <2>5, DiscardsEffect DEF Effect
    <2>6. CASE TearsDownAfterFailure(s) \/ Finalizes(s)
      BY <2>6, CleansUpEffect DEF Effect
    <2>7. CASE DecidesRetry(s) \/ EndsSupervision(s) \/ TerminalTold(s)
      BY <2>7, EndsEffect DEF Effect
    <2>8. CASE ReleaseStep(s)
      BY <2>8, GoesOnEffect, Typed DEF ReleaseStep, Effect
    <2> QED
      BY <1>1, <2>1, <2>2, <2>3, <2>4, <2>5, <2>6, <2>7, <2>8 DEF SupervisorStep
  <1>2. ASSUME NEW c \in Connections, CloseStep(c) \/ ConnectionDies(c) \/ HeartbeatEnds(c)
        PROVE  TypeInv' /\ Effect
    BY <1>2, FadesEffect DEF Effect
  <1>3. ASSUME NEW k \in Stoppers, StopCalled(k) PROVE TypeInv' /\ Effect
    BY <1>3, StopPlannedEffect DEF Effect, NothingElse, connVars
  <1>4. CASE HandlerStops
    BY <1>4, StopPlannedEffect DEF Effect, NothingElse, connVars
  <1>5. CASE HandlerReturns \/ \E h \in Connections \cup {"event"} : HandlerBegins(h)
    BY <1>5, HandlesEffect DEF Effect
  <1>6. CASE WorkerExits
    BY <1>6, ExitsEffect DEF Effect
  <1>7. ASSUME NEW t \in {"start", "stop", "handler"}, ReleaseStep(t) PROVE TypeInv' /\ Effect
    BY <1>7, GoesOnEffect, Typed DEF ReleaseStep, Effect
  <1>8. CASE StartStep \/ StartCalled \/ StartCancelled
    BY <1>7, <1>8, StartEffect DEF StartStep, Effect
  <1>9. CASE StopStep \/ \E k \in Stoppers : StopperCancelled(k)
    BY <1>7, <1>9, StopMovesEffect DEF StopStep, Effect
  <1>10. CASE UNCHANGED vars
    <2>1. UNCHANGED <<setup, state, supervisor, sup, current, conn, closedEvent, hb, beating, disp, handler, start,
                      stop, pc, release, calls>>
      BY <1>10 DEF vars, supVars, connVars, hbVars
    <2>2. TypeInv'
      BY <2>1 DEF TypeInv, TypeOK
    <2> QED
      BY <2>1, <2>2 DEF Effect, NothingElse, supVars, hbVars
  <1> QED
    BY <1>1, <1>2, <1>3, <1>4, <1>5, <1>6, <1>8, <1>9, <1>10 DEF Next

LEMMA TypeInit == Init => TypeInv
  BY DEF Init, TypeInv, TypeOK, NoSup, NewConn, NoStop, NotReleasing, SupStates, ConnStates, StartStates,
     StopPhases, CallStates, Holding

LEMMA TypeInvariant == Spec => []TypeInv
  BY TypeInit, StepEffect, PTL DEF Spec

\* Every variable of the client keeps its type, whatever start(), stop(), the
\* supervisor, peers, failures, handlers and cancellations do.
THEOREM TypeCorrect == Spec => []TypeOK
  <1>1. TypeInv => TypeOK
    BY DEF TypeInv
  <1> QED
    BY <1>1, TypeInvariant, PTL

-----------------------------------------------------------------------------
(***************************************************************************)
(* The inductive invariant, part by part.                                   *)
(***************************************************************************)
\* A supervisor that has ended stays so; none begins to work but a new one.
LEMMA SupMoves ==
  ASSUME TypeInv, Effect, NEW s \in Supervisors
  PROVE  /\ sup[s].pc = "done" => sup'[s].pc = "done"
         /\ sup'[s].pc \notin Idling => sup[s].pc \notin Idling \/ Born(s)
         /\ sup'[s].pc = "unborn" => sup[s].pc = "unborn"
         /\ sup[s].pc = "unborn" => sup'[s].pc = "unborn" \/ Born(s)
  <1> USE DEF Idling
  <1>1. CASE \E u \in Supervisors : Steps(u) \/ CleansUp(u) \/ Ends(u)
    BY <1>1 DEF Steps, CleansUp, Ends, SupTo
  <1>2. CASE \E u \in Supervisors : Born(u)
    BY <1>2 DEF Born, SupTo
  <1>3. CASE \E u \in Supervisors, c \in Connections :
               Opens(u, c) \/ Discards(u, c) \/ \E told \in BOOLEAN : Joins(u, c, told)
    <2>1. ASSUME NEW u \in Supervisors, NEW c \in Connections, NEW told \in BOOLEAN, Joins(u, c, told)
          PROVE  /\ sup[u].pc \in {"handling", "handoff"} /\ sup'[u].pc \in {"connected", "final", "closing"}
                 /\ \A v \in Supervisors \ {u} : sup'[v] = sup[v]
      BY <2>1 DEF Joins, SupTo
    <2>2. CASE \E u \in Supervisors, c \in Connections : \E told \in BOOLEAN : Joins(u, c, told)
      BY <2>1, <2>2
    <2> QED
      BY <1>3, <2>2 DEF Opens, Discards, supVars
  <1>4. CASE Exits
    BY <1>4 DEF Exits
  <1>5. CASE RollsBackTo \/ StopMoves
    BY <1>5 DEF RollsBackTo, StopMoves, Cancels, supVars
  <1>6. CASE \/ \E t \in Releasers : GoesOn(t)
             \/ \E c \in Connections : Fades(c)
             \/ Handles \/ StartGoes \/ RollbackBegins \/ RollbackEnds \/ StopPlanned \/ NothingElse
    BY <1>6 DEF GoesOn, Fades, Handles, StartGoes, RollbackBegins, RollbackEnds, StopPlanned, NothingElse, supVars
  <1> QED
    BY <1>1, <1>2, <1>3, <1>4, <1>5, <1>6 DEF Effect

LEMMA StopSideStep ==
  ASSUME TypeInv, TypeInv', StopSide, Effect
  PROVE  StopSide'
  <1>t. /\ stop \in StopRec /\ start \in StartRec /\ state \in {"STOPPED", "STARTING", "RUNNING", "STOPPING"}
        /\ supervisor \in Supervisors \cup {"none"}
    BY Typed
  <1>d. \A x : SupDone(x) => SupDone(x)'
    BY SupMoves DEF SupDone
  <1> USE DEF StopSide, Running
  <1>1. CASE UNCHANGED <<setup, handler, state, disp, start, stop>>
    BY <1>d, <1>1
  <1>2. CASE \E s \in Supervisors : Ends(s)
    BY <1>d, <1>2 DEF Ends
  <1>3. CASE \E s \in Supervisors : Born(s)
    BY <1>d, <1>3 DEF Born, StartTo
  <1>4. CASE \E t \in Releasers : GoesOn(t)
    BY <1>d, <1>4 DEF GoesOn, SamePlan
  <1>5. CASE Handles
    BY <1>d, <1>5 DEF Handles
  <1>6. CASE Exits
    BY <1>d, <1>6 DEF Exits, NoStop
  <1>7. CASE StartGoes
    BY <1>d, <1>7 DEF StartGoes, StartTo, Quiet
  <1>8. CASE RollsBackTo
    BY <1>d, <1>8 DEF RollsBackTo
  <1>9. CASE RollbackBegins \/ RollbackEnds
    BY <1>d, <1>9 DEF RollbackBegins, RollbackEnds, StartTo
  <1>10. CASE StopPlanned
    BY <1>d, <1>10 DEF StopPlanned, PlanIs
  <1>11. CASE StopMoves
    BY <1>d, <1>11 DEF StopMoves, PlanTo, PlanIs, StopsDisp, StopOver, SamePlan, NoStop, StartTo
  <1> QED
    BY <1>1, <1>2, <1>3, <1>4, <1>5, <1>6, <1>7, <1>8, <1>9, <1>10, <1>11 DEF Effect, Steps, CleansUp, Opens,
       Discards, Joins, Fades, NothingElse

LEMMA BeginsRel ==
  ASSUME NEW t, Begins(t) \/ Closes(t)
  PROVE  /\ release'[t].at \in {"heartbeat", "close", "released"}
         /\ \A u \in Releasers \ {t} : release'[u] = release[u]
  BY DEF Begins, Closes, RelTo

LEMMA ReleaseSideStep ==
  ASSUME TypeInv, TypeInv', ReleaseSide, Effect
  PROVE  ReleaseSide'
  <1>t. /\ stop \in StopRec /\ start \in StartRec
        /\ {"start", "stop", "handler"} \subseteq Releasers \ Supervisors /\ Supervisors \subseteq Releasers
    BY Typed
  <1>d. "start" # "stop" /\ "start" # "handler" /\ "stop" # "handler"
    OBVIOUS
  <1> USE DEF ReleaseSide
  <1>1. CASE \E s \in Supervisors : Steps(s) \/ \E c \in Connections : Opens(s, c) \/ Discards(s, c)
    BY <1>1 DEF Steps, SupTo, Opens, Discards, supVars
  <1>2. ASSUME NEW s \in Supervisors, NEW c \in Connections, NEW told \in BOOLEAN, Joins(s, c, told)
        PROVE  ReleaseSide'
    <2>1. /\ sup[s].pc \in {"handling", "handoff"} /\ \A v \in Supervisors \ {s} : sup'[v] = sup[v]
          /\ UNCHANGED <<start, stop, release>>
      BY <1>2 DEF Joins, SupTo
    <2> QED
      BY <2>1
  <1>3. ASSUME NEW s \in Supervisors, CleansUp(s) PROVE ReleaseSide'
    <2>1. \A u \in Releasers \ {s} : release'[u] = release[u]
      BY <1>3, BeginsRel DEF CleansUp
    <2>2. sup'[s].pc \in {"failing", "finishing"} /\ (\A u \in Supervisors \ {s} : sup'[u] = sup[u]) /\ UNCHANGED <<start, stop>>
      BY <1>3 DEF CleansUp, SupTo
    <2> QED
      BY <1>t, <2>1, <2>2
  <1>4. CASE \E s \in Supervisors : Ends(s) \/ Born(s)
    BY <1>t, <1>4 DEF Ends, Born, SupTo, RelTo, StartTo
  <1>5. ASSUME NEW t \in Releasers, GoesOn(t) PROVE ReleaseSide'
    <2>1. /\ release[t].at \in {"heartbeat", "close"}
          /\ release'[t].at \in {"heartbeat", "close", "released"} \/ (t \in Supervisors /\ release'[t].at = "aborted")
          /\ \A u \in Releasers \ {t} : release'[u] = release[u]
      BY <1>5, BeginsRel DEF GoesOn, RelTo
    <2>2. UNCHANGED <<sup, start>> /\ stop'.phase = stop.phase /\ stop'.handler = stop.handler
      BY <1>5 DEF GoesOn, SamePlan, supVars
    <2> QED
      BY <1>t, <2>1, <2>2
  <1>6. CASE Exits
    BY <1>t, <1>6 DEF Exits, NoStop
  <1>7. CASE RollsBackTo
    BY <1>t, <1>7 DEF RollsBackTo, Cancels
  <1>8. CASE RollbackBegins
    BY <1>t, <1>8, BeginsRel DEF RollbackBegins, StartTo, supVars
  <1>9. CASE RollbackEnds
    BY <1>t, <1>9 DEF RollbackEnds, RelTo, supVars
  <1>10. CASE StopPlanned
    BY <1>t, <1>d, <1>10, BeginsRel DEF StopPlanned, PlanIs
  <1>11. CASE StopMoves
    <2>1. CASE stop.phase = "supervisor" /\ PlanTo("release") /\ Begins(Releaser) /\ UNCHANGED <<sup, start>>
      BY <1>t, <1>d, <2>1, BeginsRel DEF PlanTo, PlanIs, Releaser
    <2> QED
      BY <1>t, <1>d, <1>11, <2>1 DEF StopMoves, PlanTo, PlanIs, StopsDisp, StopOver, SamePlan, NoStop, StartTo, RelTo,
         Cancels, supVars
  <1>12. CASE Handles \/ StartGoes \/ NothingElse \/ \E c \in Connections : Fades(c)
    BY <1>12 DEF Handles, StartGoes, StartTo, NothingElse, Fades, supVars
  <1> QED
    BY <1>1, <1>2, <1>3, <1>4, <1>5, <1>6, <1>7, <1>8, <1>9, <1>10, <1>11, <1>12 DEF Effect

\* While start() is at it there is no supervisor that works, or it will not create one.
LEMMA OneSupervisorStep ==
  ASSUME TypeInv, TypeInv', OneSupervisor, StopSide, ReleaseSide, Effect
  PROVE  OneSupervisor'
  <1>t. /\ stop \in StopRec /\ start \in StartRec /\ state \in {"STOPPED", "STARTING", "RUNNING", "STOPPING"}
        /\ supervisor \in Supervisors \cup {"none"} /\ "none" \notin Supervisors
    BY Typed
  <1> USE DEF OneSupervisor, Works, StopComing
  <1>w. ASSUME NEW s \in Supervisors, sup'[s].pc \notin Idling PROVE Works(s) \/ Born(s)
    BY <1>w, SupMoves DEF Works
  <1>f. ASSUME ~\E s \in Supervisors : Born(s), UNCHANGED <<state, supervisor, start, stop>>
        PROVE  OneSupervisor'
    BY <1>f, <1>w
  <1>1. CASE \E s \in Supervisors : Ends(s)
    <2>1. PICK s \in Supervisors : Ends(s)
      BY <1>1
    <2>2. CASE UNCHANGED <<state, supervisor, start, stop>>
      <3>1. ~\E u \in Supervisors : Born(u)
        BY <2>2 DEF Born
      <3> QED
        BY <1>f, <2>2, <3>1
    <2>3. CASE state' # state
      <3>1. /\ sup[s].pc = "finishing" /\ sup'[s].pc = "told" /\ \A u \in Supervisors \ {s} : sup'[u] = sup[u]
        BY <2>1, <2>3 DEF Ends, SupTo
      <3> QED
        BY <3>1 DEF Idling
    <2> QED
      BY <2>1, <2>2, <2>3 DEF Ends
  <1>2. CASE \E s \in Supervisors : Born(s)
    <2>1. PICK s \in Supervisors : Born(s)
      BY <1>2
    <2>2. ~\E u \in Supervisors : Works(u)
      BY <1>t, <2>1 DEF Born, StopSide, Running
    <2> QED
      BY <2>1, <2>2 DEF Born, SupTo
  <1>3. CASE \E t \in Releasers : GoesOn(t)
    BY <1>w, <1>3 DEF GoesOn, SamePlan, supVars, Born
  <1>4. CASE Exits
    BY <1>t, <1>4, <1>w DEF Exits, Born, NoStop, StopSide, SupDone, Idling
  <1>5. CASE StartGoes
    BY <1>t, <1>5, <1>w DEF StartGoes, StartTo, Born, supVars, Quiet, StopSide, Running, Idling
  <1>6. CASE RollsBackTo
    BY <1>t, <1>6, <1>w DEF RollsBackTo, Born, StopSide, Running
  <1>7. CASE RollbackBegins
    BY <1>t, <1>7, <1>w DEF RollbackBegins, Born, StartTo, SupDone, supVars, Idling
  <1>8. CASE RollbackEnds
    BY <1>t, <1>8, <1>w DEF RollbackEnds, Born, supVars
  <1>9. CASE StopPlanned
    BY <1>t, <1>9, <1>w DEF StopPlanned, Born, PlanIs, StopSide, Running, SupDone, Idling
  <1>10. CASE StopMoves
    BY <1>t, <1>10, <1>w DEF StopMoves, Born, PlanTo, PlanIs, StopsDisp, StopOver, SamePlan, NoStop, StartTo, SupDone,
       supVars, Idling, StopSide
  <1> HIDE DEF OneSupervisor, Works, StopComing
  <1>11. CASE UNCHANGED <<state, supervisor, start, stop>>
    <2>1. ~\E s \in Supervisors : Born(s)
      BY <1>11 DEF Born
    <2> QED
      BY <1>f, <1>11, <2>1
  <1>12. CASE \/ \E s \in Supervisors : Steps(s) \/ CleansUp(s)
              \/ \E s \in Supervisors, c \in Connections :
                   Opens(s, c) \/ Discards(s, c) \/ \E told \in BOOLEAN : Joins(s, c, told)
              \/ \E c \in Connections : Fades(c)
              \/ Handles \/ NothingElse
    BY <1>11, <1>12 DEF Steps, CleansUp, Opens, Discards, Joins, Fades, Handles, NothingElse, supVars
  <1> QED
    BY <1>1, <1>2, <1>3, <1>4, <1>5, <1>6, <1>7, <1>8, <1>9, <1>10, <1>12 DEF Effect

\* A connection that is alive is the client's, unless a supervisor has it; and a
\* supervisor that works is the only one.
LEMMA LiveOwnedStep ==
  ASSUME TypeInv, TypeInv', LiveOwned, OneSupervisor, StopSide, CurrentSide, HeartbeatSide, Effect
  PROVE  LiveOwned'
  <1>t. /\ stop \in StopRec /\ start \in StartRec /\ state \in {"STOPPED", "STARTING", "RUNNING", "STOPPING"}
        /\ supervisor \in Supervisors \cup {"none"} /\ "none" \notin Supervisors /\ "none" \notin Connections
        /\ {"start", "stop", "handler"} \subseteq Releasers \ Supervisors /\ Supervisors \subseteq Releasers
        /\ current \in Connections \cup {"none"} /\ hb \in Connections \cup {"none"} /\ beating \subseteq Connections
        /\ conn \in [Connections -> ConnRec] /\ sup \in [Supervisors -> SupRec]
    BY Typed
  <1>h. /\ Holding \cap Idling = {} /\ Between \cap Idling = {} /\ Holding \cap Between = {}
        /\ "finishing" \notin Holding \cup Between \cup Idling /\ "final" \notin Holding \cup Between \cup Idling
        /\ "connected" \notin Holding \cup Between \cup Idling
    BY DEF Holding, Between, Idling
  <1>o. ASSUME NEW s \in Supervisors, Works(s), sup[s].pc \notin Holding, NEW c \in Connections, Live(c)
        PROVE  current = c
    BY <1>h, <1>o DEF LiveOwned, LiveHeld, OneSupervisor, Works
  <1>a. ASSUME NEW s \in Supervisors, Works(s), NEW u \in Supervisors \ {s}
        PROVE  sup[u].pc \notin Holding \cup Between \cup {"finishing"}
    BY <1>h, <1>a DEF OneSupervisor, Works
  <1> USE DEF LiveOwned, LiveHeld, LiveAlone, HeldIsOpen, Live
  <1>f. ASSUME UNCHANGED <<sup, current, conn>>, \A s \in Supervisors : release'[s] = release[s]
        PROVE  LiveOwned'
    BY <1>f
  <1>k. ASSUME \A s \in Supervisors : Cancels(s), UNCHANGED <<current, conn>>,
               \A s \in Supervisors : release'[s] = release[s]
        PROVE  LiveOwned'
    <2>1. ASSUME NEW s \in Supervisors
          PROVE  /\ sup'[s].pc \in Holding <=> sup[s].pc \in Holding
                 /\ sup'[s].pc \in Holding => sup'[s].conn = sup[s].conn
                 /\ sup'[s].pc \in Between => sup[s].pc \in Between
                 /\ sup'[s].pc \in {"handoff", "closing", "finishing"} => sup[s].pc = sup'[s].pc
      BY <1>k DEF Cancels, Holding, Between
    <2> QED
      BY <1>k, <2>1
  <1>c. ASSUME NEW t \in Releasers \ Supervisors, UNCHANGED sup,
               Begins(t) \/ Closes(t)
        PROVE  LiveOwned'
    <2>1. \A s \in Supervisors : release'[s] = release[s]
      BY <1>t, <1>c, BeginsRel
    <2>2. CASE UNCHANGED <<current, conn>>
      BY <1>f, <1>c, <2>1, <2>2
    <2>3. CASE Closes(t)
      BY <1>t, <1>c, <2>1, <2>3 DEF Closes, Closed
    <2> QED
      BY <1>c, <2>2, <2>3 DEF Begins, connVars
  <1>1. ASSUME NEW s \in Supervisors, Steps(s) PROVE LiveOwned'
    <2>1. UNCHANGED <<current, conn, release>>
      BY <1>1 DEF Steps
    <2>2. ASSUME NEW q, SupTo(s, q), q \notin Between, q # "finishing", sup[s].pc \in Holding => q \in Keeps,
                 q \in Holding => sup[s].pc \in Holding /\ q \in Keeps,
                 q = "handoff" => conn[sup[s].conn].st = "deferred", q = "closing" => sup[s].pc = "closing"
          PROVE  LiveOwned'
      BY <2>1, <2>2 DEF SupTo, Keeps, Holding
    <2>3. ASSUME NEW q, SupTo(s, q), q # "finishing", q \notin Holding, \A c \in Connections : ~Live(c)
          PROVE  LiveOwned'
      BY <2>1, <2>3 DEF SupTo
    <2>4. CASE sup[s].pc \in {"closing", "abandoned"} /\ conn[sup[s].conn].st = "over"
      <3>1. sup[s].pc \in Holding
        BY <2>4 DEF Holding
      <3>2. \A c \in Connections : ~Live(c)
        BY <2>4, <3>1
      <3>3. \/ SupTo(s, "final") \/ SupTo(s, "connected") \/ SupTo(s, "failed")
        BY <1>1, <2>4 DEF Steps
      <3> QED
        BY <2>3, <3>2, <3>3 DEF Holding
    <2>5. CASE sup[s].pc \in Between
      <3>1. \A c \in Connections : ~Live(c)
        BY <2>5
      <3>2. \/ SupTo(s, "attempt") \/ SupTo(s, "final") \/ SupTo(s, "connecting") \/ SupTo(s, "sleeping")
            \/ SupTo(s, "failed")
        BY <1>1, <2>5 DEF Steps, Between
      <3> QED
        BY <2>3, <3>1, <3>2 DEF Holding
    <2>6. CASE sup[s].pc = "connected" /\ SupTo(s, "scheduled") /\ (current = "none" \/ Closed(current))
      <3>1. \A c \in Connections : ~Live(c)
        BY <1>t, <1>h, <1>o, <2>6 DEF Closed, Works
      <3> QED
        BY <2>3, <2>6, <3>1 DEF Holding
    <2>7. CASE \/ sup[s].pc \in {"connected", "cancelled"} /\ (SupTo(s, "connected") \/ SupTo(s, "final"))
               \/ sup[s].pc = "opening" /\ (SupTo(s, "handling") \/ SupTo(s, "abandoned"))
               \/ sup[s].pc = "handling" /\ conn[sup[s].conn].st = "deferred" /\ SupTo(s, "handoff")
      BY <2>2, <2>7 DEF Holding, Between, Keeps
    <2> QED
      BY <1>1, <2>4, <2>5, <2>6, <2>7 DEF Steps, Between
  <1>2. ASSUME NEW s \in Supervisors, CleansUp(s) PROVE LiveOwned'
    <2>1. Begins(s) /\ Works(s) /\ sup[s].pc \notin Holding /\ \A u \in Supervisors \ {s} : sup'[u] = sup[u]
      BY <1>2 DEF CleansUp, SupTo, Works, Holding, Idling
    <2>2. /\ \A u \in Supervisors \ {s} : sup'[u].pc \notin Holding \cup Between \cup {"finishing"}
          /\ sup'[s].pc \notin Holding
      BY <1>2, <1>a, <2>1 DEF CleansUp, SupTo, Holding
    <2>3. \A c \in Connections : Live(c) => current = c
      BY <1>o, <2>1
    <2>4. sup'[s].pc \in Between => \A c \in Connections : ~Live(c)
      BY <1>2 DEF CleansUp, SupTo, Between
    <2>5. /\ \A c \in Connections : Live(c)' <=> Live(c)
          /\ \A c \in Connections : conn'[c].st = "none" <=> conn[c].st = "none"
          /\ \A c \in Connections : Live(c) => current' = c /\ release'[s].at # "released"
                                      /\ (release'[s].at = "close" => release'[s].of = c)
          /\ current' \in {"none", current}
      BY <1>t, <2>1, <2>3 DEF Begins, Closes, Closed, RelTo, connVars
    <2> QED
      BY <1>t, <2>2, <2>4, <2>5
  <1>3. ASSUME NEW s \in Supervisors, Ends(s) PROVE LiveOwned'
    <2>1. /\ UNCHANGED <<current, conn>> /\ \A u \in Supervisors \ {s} : sup'[u] = sup[u] /\ release'[u] = release[u]
          /\ sup'[s].pc \notin Holding \cup {"finishing"} /\ sup[s].pc \notin Holding
          /\ sup'[s].pc \in Between => sup[s].pc \in Between
      BY <1>t, <1>3 DEF Ends, SupTo, RelTo, connVars, Holding, Between
    <2> QED
      BY <2>1
  <1>4. ASSUME NEW s \in Supervisors, Born(s) PROVE LiveOwned'
    <2>1. ~\E u \in Supervisors : Works(u)
      BY <1>t, <1>4 DEF Born, StopSide, Running, OneSupervisor, StopComing
    <2>2. \A c \in Connections : ~Live(c)
      BY <1>t, <1>h, <1>4, <2>1 DEF Born, CurrentSide, StopComing, StopSide, Works, Running
    <2>3. UNCHANGED <<current, conn, release>> /\ sup'[s].pc = "new" /\ \A u \in Supervisors \ {s} : sup'[u] = sup[u]
      BY <1>4 DEF Born, SupTo, connVars
    <2> QED
      BY <2>2, <2>3 DEF Holding
  <1>5. ASSUME NEW s \in Supervisors, NEW c \in Connections, Opens(s, c) PROVE LiveOwned'
    <2>1. Works(s) /\ sup[s].pc \in Between
      BY <1>5 DEF Opens, Works, Between, Idling
    <2>2. \A u \in Supervisors \ {s} : sup'[u].pc \notin Holding \cup Between \cup {"finishing"}
      BY <1>5, <1>a, <2>1 DEF Opens
    <2>3. \A d \in Connections : Live(d)' <=> d = c
      BY <1>5, <2>1 DEF Opens, ConnTo
    <2>4. sup'[s].pc = "opening" /\ "opening" \in Holding \ Between /\ sup'[s].conn = c
      BY <1>5 DEF Opens, Holding, Between
    <2>5. current' # "none" => conn'[current'].st # "none"
      BY <1>t, <1>5 DEF Opens, ConnTo
    <2>6. conn'[c].st = "up"
      BY <1>5 DEF Opens, ConnTo
    <2> QED
      BY <2>2, <2>3, <2>4, <2>5, <2>6
  <1>6. ASSUME NEW s \in Supervisors, NEW c \in Connections, Discards(s, c) PROVE LiveOwned'
    <2>1. /\ Works(s) /\ sup[s].pc = "abandoned" /\ "abandoned" \in Holding /\ c = sup[s].conn
          /\ UNCHANGED <<sup, current, release>>
      BY <1>6 DEF Discards, Works, Idling, Holding, supVars
    <2>2. /\ \A d \in Connections : Live(d)' => Live(d)
          /\ \A d \in Connections \ {c} : conn'[d] = conn[d]
          /\ conn'[c].st \in {"closing", "over"}
      BY <1>6 DEF Discards, ConnTo
    <2> QED
      BY <1>t, <1>a, <2>1, <2>2
  <1>7. ASSUME NEW s \in Supervisors, NEW c \in Connections, NEW told \in BOOLEAN, Joins(s, c, told)
        PROVE  LiveOwned'
    <2>1. /\ sup[s].pc \in Holding /\ Works(s) /\ c = sup[s].conn /\ UNCHANGED release
          /\ told => conn[c].st = "deferred"
      BY <1>7 DEF Joins, Holding, Works, Idling
    <2>2. \A u \in Supervisors \ {s} : sup'[u] = sup[u] /\ sup'[u].pc \notin Holding \cup Between \cup {"finishing"}
      BY <1>7, <1>a, <2>1 DEF Joins, SupTo
    <2>3. /\ \A d \in Connections : Live(d) => d = c
          /\ conn[c].st \notin {"none", "callback"}
      BY <2>1
    <2>4. CASE current' = c /\ sup'[s].pc \in {"connected", "final"} /\ (Settles(c, told) \/ UNCHANGED conn)
      <3>1. /\ \A d \in Connections : Live(d)' => Live(d)
            /\ \A d \in Connections : conn'[d].st = "none" <=> conn[d].st = "none"
        BY <2>3, <2>4 DEF Settles, ConnTo
      <3> QED
        BY <1>h, <2>1, <2>2, <2>3, <2>4, <3>1 DEF Holding, Between
    <2>5. CASE /\ current # c /\ (told \/ Closed(c)) /\ UNCHANGED current
               /\ sup'[s].pc \in {"connected", "final"} /\ Settles(c, told)
      <3>1. /\ \A d \in Connections : ~Live(d)'
            /\ \A d \in Connections : conn'[d].st = "none" <=> conn[d].st = "none"
        BY <2>3, <2>5 DEF Settles, ConnTo, Closed
      <3> QED
        BY <1>t, <1>h, <2>2, <2>5, <3>1 DEF Holding
    <2>6. CASE /\ UNCHANGED current /\ sup'[s].pc = "closing" /\ sup'[s].conn = c
               /\ IF conn[c].st = "up" THEN ConnTo(c, "closing") ELSE UNCHANGED conn
      <3>1. /\ \A d \in Connections : Live(d)' => d = c
            /\ \A d \in Connections : conn'[d].st = "none" <=> conn[d].st = "none"
            /\ conn'[c].st \notin {"none", "callback", "up"}
        BY <2>3, <2>6 DEF ConnTo
      <3>2. "closing" \in Holding \ Between
        BY DEF Holding, Between
      <3> QED
        BY <1>t, <1>h, <2>2, <2>6, <3>1, <3>2
    <2> QED
      BY <1>7, <2>1, <2>4, <2>5, <2>6 DEF Joins, SupTo, Keeps, Closed
  <1>8. ASSUME NEW t \in Releasers, GoesOn(t) PROVE LiveOwned'
    <2>1. UNCHANGED sup
      BY <1>8 DEF GoesOn, supVars
    <2>2. CASE t \in Supervisors /\ RelTo(t, "aborted", "none") /\ UNCHANGED connVars
      BY <1>t, <2>1, <2>2 DEF RelTo, connVars
    <2>3. CASE Closes(t) /\ t \notin Supervisors
      BY <1>c, <2>1, <2>3
    <2>4. CASE Closes(t) /\ t \in Supervisors
      <3>1. \A u \in Supervisors \ {t} : release'[u] = release[u]
        BY <1>t, <2>4, BeginsRel
      <3>2. ASSUME NEW c \in Connections, Live(c), sup[t].pc = "finishing"
            PROVE  current = c
        BY <1>h, <1>o, <2>4, <3>2 DEF Works
      <3> QED
        BY <1>t, <2>1, <2>4, <3>1, <3>2 DEF Closes, Closed, RelTo
    <2>5. CASE /\ release[t].at = "close" /\ CloseReturned(release[t].of, t) /\ UNCHANGED conn
               /\ current' = (IF current = release[t].of THEN "none" ELSE current)
               /\ \A u \in Releasers \ {t} : release'[u] = release[u]
               /\ release'[t].at # "close"
      <3>1. \A c \in Connections : Live(c) => c # release[t].of
        BY <2>5 DEF CloseReturned
      <3> QED
        BY <1>t, <2>1, <2>5, <3>1
    <2> QED
      BY <1>8, <2>2, <2>3, <2>4, <2>5 DEF GoesOn, RelTo
  <1>9. ASSUME NEW c \in Connections, Fades(c) PROVE LiveOwned'
    <2>1. UNCHANGED <<sup, release>>
      BY <1>9 DEF Fades, supVars
    <2>2. CASE conn[c].st = "closing" /\ conn'[c].st = "callback" /\ hb \in beating
               /\ current' = (IF current = c THEN "none" ELSE current) /\ \A d \in Connections \ {c} : conn'[d] = conn[d]
      <3>1. \A s \in Supervisors : sup[s].pc \notin Holding
        BY <1>t, <2>2 DEF HeartbeatSide
      <3> QED
        BY <1>t, <2>1, <2>2, <3>1
    <2>3. CASE \/ UNCHANGED <<current, conn>>
               \/ /\ \A d \in Connections \ {c} : conn'[d] = conn[d]
                  /\ \/ conn[c].st = "up" /\ conn'[c].st = "closing" /\ UNCHANGED current
                     \/ /\ conn[c].st \in {"callback", "closed", "parked"} /\ UNCHANGED current
                        /\ conn'[c].st \in {"deferred", "parked", "closed", "over"}
                     \/ /\ conn[c].st = "closing" /\ current' = (IF current = c THEN "none" ELSE current)
                        /\ conn'[c].st \in {"deferred", "parked", "closed"}
      BY <1>t, <2>1, <2>3
    <2> QED
      BY <1>9, <2>2, <2>3 DEF Fades, ConnTo
  <1>10. CASE Exits
    <2>1. \A s \in Supervisors : \/ sup'[s] = sup[s]
                                 \/ sup'[s].pc = "done" /\ sup[s].pc = "draining"
      BY <1>10 DEF Exits
    <2>2. UNCHANGED <<current, conn, release>>
      BY <1>10 DEF Exits, connVars
    <2> QED
      BY <2>1, <2>2 DEF Holding, Between
  <1>11. CASE RollsBackTo
    BY <1>k, <1>11 DEF RollsBackTo, connVars
  <1>12. CASE RollbackBegins
    BY <1>t, <1>c, <1>12 DEF RollbackBegins, supVars
  <1>13. CASE RollbackEnds
    BY <1>t, <1>f, <1>13 DEF RollbackEnds, RelTo, supVars, connVars
  <1>14. CASE StopPlanned
    BY <1>t, <1>f, <1>c, <1>14 DEF StopPlanned, connVars
  <1>15. CASE StopMoves
    <2>1. CASE UNCHANGED <<sup, current, conn>> /\ \A s \in Supervisors : release'[s] = release[s]
      BY <1>f, <2>1
    <2>2. CASE UNCHANGED sup /\ Begins(Releaser)
      BY <1>t, <1>c, <2>2 DEF Releaser
    <2>3. CASE /\ \A s \in Supervisors : Cancels(s) /\ release'[s] = release[s]
               /\ UNCHANGED <<current, conn>>
      BY <1>k, <2>3
    <2> HIDE DEF LiveOwned, LiveHeld, LiveAlone, HeldIsOpen, Live
    <2> QED
      BY <1>t, <1>15, <2>1, <2>2, <2>3 DEF StopMoves, RelTo, supVars, connVars
  <1>16. CASE Handles \/ StartGoes \/ NothingElse
    BY <1>f, <1>16 DEF Handles, StartGoes, NothingElse, supVars, connVars
  <1> HIDE DEF LiveOwned, LiveHeld, LiveAlone, HeldIsOpen, Live
  <1> QED
    BY <1>1, <1>2, <1>3, <1>4, <1>5, <1>6, <1>7, <1>8, <1>9, <1>10, <1>11, <1>12, <1>13, <1>14, <1>15, <1>16
       DEF Effect

\* While t releases, a connection that stays alive stays the client's, and t has yet to close it.
LEMMA BeginsCurrent ==
  ASSUME TypeInv, NEW t \in Releasers, Begins(t) \/ Closes(t)
  PROVE  /\ current' \in {current, "none"}
         /\ \A c \in Connections : /\ Live(c)' <=> Live(c)
                                   /\ conn'[c].st = "up" => conn[c].st = "up"
                                   /\ conn'[c].st = "callback" <=> conn[c].st = "callback"
                                   /\ conn'[c].beat = conn[c].beat
         /\ current' = "none" \/ release'[t].at = "heartbeat" \/ release'[t] = [at |-> "close", of |-> current']
         /\ current # "none" /\ Live(current) => current' = current
         /\ \A u \in Releasers \ {t} : release'[u] = release[u]
  <1>t. current \in Connections \cup {"none"} /\ "none" \notin Connections
    BY Typed
  <1>1. CASE Closes(t)
    BY <1>t, <1>1 DEF Closes, RelTo, Live, Closed
  <1>2. CASE Begins(t) /\ ~Closes(t)
    BY <1>t, <1>2 DEF Begins, RelTo, Live, connVars
  <1> QED
    BY <1>1, <1>2

LEMMA CurrentSideStep ==
  ASSUME TypeInv, TypeInv', CurrentSide, LiveOwned, OneSupervisor, StopSide, ReleaseSide, Effect
  PROVE  CurrentSide'
  <1>t. /\ stop \in StopRec /\ start \in StartRec /\ state \in {"STOPPED", "STARTING", "RUNNING", "STOPPING"}
        /\ "none" \notin Connections /\ current \in Connections \cup {"none"} /\ current' \in Connections \cup {"none"}
        /\ {"start", "stop", "handler"} \subseteq Releasers \ Supervisors /\ Supervisors \subseteq Releasers
    BY Typed DEF TypeInv, TypeOK
  <1> DEFINE Same == current' # "none" /\ Live(current)' => current' = current /\ Live(current)
  <1>f. ASSUME Same, UNCHANGED <<state, start>>, \A t \in {"start", "stop", "handler"} : release'[t] = release[t],
               SamePlan
        PROVE  CurrentSide'
    BY <1>f DEF CurrentSide, StopComing, Pending, Releaser, SamePlan
  <1> USE DEF CurrentSide, StopComing, Pending
  <1>0. CASE NothingElse \/ Handles
    BY <1>f, <1>0 DEF NothingElse, Handles, Live, connVars, SamePlan
  <1>1. CASE \E s \in Supervisors : Steps(s)
    BY <1>f, <1>1 DEF Steps, Live, SamePlan
  <1>2. ASSUME NEW s \in Supervisors, CleansUp(s) PROVE CurrentSide'
    <2>1. /\ \A t \in {"start", "stop", "handler"} : release'[t] = release[t]
          /\ UNCHANGED <<state, start, stop>>
      BY <1>t, <1>2, BeginsRel DEF CleansUp
    <2>2. current' \in {current, "none"} /\ \A c \in Connections : Live(c)' <=> Live(c)
      BY <1>t, <1>2, BeginsCurrent DEF CleansUp
    <2>3. Same
      BY <1>t, <2>2
    <2> QED
      BY <1>f, <2>1, <2>3 DEF SamePlan
  <1>3. ASSUME NEW s \in Supervisors, Ends(s) PROVE CurrentSide'
    <2>1. /\ UNCHANGED <<current, conn, start, stop>>
          /\ \A t \in {"start", "stop", "handler"} : release'[t] = release[t]
      BY <1>t, <1>3 DEF Ends, RelTo, connVars
    <2>2. CASE UNCHANGED state
      BY <1>f, <2>1, <2>2 DEF Live, SamePlan
    <2>3. CASE sup[s].pc = "finishing" /\ release[s].at = "released"
      <3>1. current # "none" => ~Live(current)
        BY <1>t, <2>3 DEF LiveOwned, LiveAlone
      <3> QED
        BY <2>1, <3>1 DEF Live
    <2> QED
      BY <1>3, <2>2, <2>3 DEF Ends
  <1>4. CASE \E s \in Supervisors : Born(s)
    BY <1>4 DEF Born
  <1>5. ASSUME NEW s \in Supervisors, NEW c \in Connections, Opens(s, c) PROVE CurrentSide'
    <2>1. CASE state = "RUNNING"
      BY <1>5, <2>1 DEF Opens
    <2>2. CASE state # "RUNNING"
      <3>1. Same
        BY <1>t, <1>5, <2>2 DEF Opens, ConnTo, Live, LiveOwned
      <3> QED
        BY <1>f, <1>5, <3>1 DEF Opens, SamePlan
    <2> QED
      BY <2>1, <2>2
  <1>6. ASSUME NEW s \in Supervisors, NEW c \in Connections, Discards(s, c) PROVE CurrentSide'
    <2>1. Same
      BY <1>t, <1>6 DEF Discards, ConnTo, Live
    <2> QED
      BY <1>f, <1>6, <2>1 DEF Discards, SamePlan
  <1>7. ASSUME NEW s \in Supervisors, NEW c \in Connections, NEW told \in BOOLEAN, Joins(s, c, told)
        PROVE  CurrentSide'
    <2>1. CASE state = "RUNNING"
      BY <1>7, <2>1 DEF Joins
    <2>2. CASE state # "RUNNING"
      <3>1. UNCHANGED current
        BY <1>7, <2>2 DEF Joins
      <3>2. Same
        BY <1>t, <1>7, <2>2, <3>1 DEF Joins, Settles, ConnTo, Live
      <3> QED
        BY <1>f, <1>7, <3>2 DEF Joins, SamePlan
    <2> QED
      BY <2>1, <2>2
  <1>8. ASSUME NEW t \in Releasers, GoesOn(t) PROVE CurrentSide'
    <2>1. UNCHANGED <<state, start>> /\ SamePlan
      BY <1>8 DEF GoesOn, SamePlan
    <2>2. CASE t \in Supervisors /\ RelTo(t, "aborted", "none") /\ UNCHANGED connVars
      BY <1>t, <1>f, <2>1, <2>2 DEF RelTo, connVars, Live
    <2>3. CASE Closes(t)
      <3>1. /\ current' \in {current, "none"} /\ \A c \in Connections : Live(c)' <=> Live(c)
            /\ current' = "none" \/ release'[t].at = "heartbeat" \/ release'[t] = [at |-> "close", of |-> current']
            /\ \A u \in Releasers \ {t} : release'[u] = release[u]
        BY <2>3, BeginsCurrent
      <3> QED
        BY <1>t, <2>1, <3>1 DEF SamePlan, Releaser
    <2>4. CASE /\ release[t].at = "close" /\ UNCHANGED conn
               /\ current' = (IF current = release[t].of THEN "none" ELSE current)
               /\ \A u \in Releasers \ {t} : release'[u] = release[u]
      <3>1. Same
        BY <1>t, <2>4 DEF Live
      <3>2. current' # "none" => release[t] # [at |-> "close", of |-> current] /\ release[t].at # "heartbeat"
        BY <2>4
      <3> QED
        BY <1>t, <2>1, <2>4, <3>1, <3>2 DEF SamePlan, Releaser
    <2> QED
      BY <1>8, <2>2, <2>3, <2>4 DEF GoesOn, RelTo
  <1>9. ASSUME NEW c \in Connections, Fades(c) PROVE CurrentSide'
    <2>1. Same
      BY <1>t, <1>9 DEF Fades, ConnTo, Live
    <2> QED
      BY <1>f, <1>9, <2>1 DEF Fades, SamePlan
  <1>10. CASE Exits
    BY <1>t, <1>10 DEF Exits, Live, connVars, NoStop, Releaser
  <1>11. CASE StartGoes
    BY <1>t, <1>11 DEF StartGoes, StartTo, Live, connVars, StopSide, Releaser
  <1>12. CASE RollsBackTo
    BY <1>12 DEF RollsBackTo
  <1>13. CASE RollbackBegins
    <2>1. start'.pc = "releasing" /\ (current' = "none" \/ Pending("start")')
      BY <1>t, <1>13, BeginsCurrent DEF RollbackBegins, StartTo
    <2> QED
      BY <2>1
  <1>14. CASE RollbackEnds
    BY <1>t, <1>14 DEF RollbackEnds, RelTo, Released, Live, connVars, Releaser
  <1>15. CASE StopPlanned
    <2>1. CASE Begins("handler") /\ PlanIs("release", supervisor, TRUE, TRUE)
      <3>1. current' = "none" \/ release'["handler"].at = "heartbeat" \/ release'["handler"] = [at |-> "close", of |-> current']
        BY <1>t, <2>1, BeginsCurrent
      <3> QED
        BY <2>1, <3>1 DEF PlanIs, Releaser
    <2>2. CASE PlanIs("stopping", supervisor, FALSE, TRUE)
      BY <2>2 DEF PlanIs
    <2>3. CASE ~Running /\ UNCHANGED <<state, connVars, hbVars, release>>
      BY <1>t, <1>15, <2>3 DEF StopPlanned, Live, connVars, StopSide
    <2> QED
      BY <1>15, <2>1, <2>2, <2>3 DEF StopPlanned
  <1>16. CASE StopMoves
    <2>1. CASE stop.phase = "supervisor" /\ PlanTo("release") /\ Begins(Releaser) /\ UNCHANGED <<state, start>>
      <3>1. Releaser \in Releasers \ {"start"} /\ Releaser' = Releaser
        BY <1>t, <2>1 DEF Releaser, PlanTo, PlanIs
      <3>2. /\ current' \in {current, "none"} /\ \A c \in Connections : Live(c)' <=> Live(c)
            /\ \/ current' = "none" \/ release'[Releaser].at = "heartbeat"
               \/ release'[Releaser] = [at |-> "close", of |-> current']
            /\ release'["start"] = release["start"]
        BY <1>t, <2>1, <3>1, BeginsCurrent
      <3> QED
        BY <1>t, <2>1, <3>1, <3>2 DEF PlanTo, PlanIs
    <2>2. CASE /\ stop.phase = "release" /\ UNCHANGED connVars /\ Released(Releaser)
               /\ state' = state \/ state = "STOPPING"
               /\ start'.pc = start.pc \/ start.pc = "join"
               /\ release'["start"] = release["start"]
      BY <1>t, <2>2 DEF Live, connVars, StopSide, Released
    <2>3. CASE UNCHANGED <<connVars, state, start, release>> /\ stop.phase = "stopping" /\ PlanTo("supervisor")
      BY <2>3 DEF Live, connVars, PlanTo, PlanIs
    <2>4. CASE UNCHANGED <<connVars, state, start, release>> /\ SamePlan
      BY <1>f, <2>4 DEF Live, connVars
    <2>5. CASE /\ UNCHANGED <<connVars, state, release>> /\ (start'.pc = start.pc \/ start.pc = "join")
               /\ stop.phase \notin {"stopping", "supervisor", "release"}
      BY <2>5 DEF Live, connVars
    <2> QED
      BY <1>t, <1>16, <2>1, <2>2, <2>3, <2>4, <2>5 DEF StopMoves, StopsDisp, StopOver, StartTo, RelTo, Releaser
  <1> QED
    BY <1>0, <1>1, <1>2, <1>3, <1>4, <1>5, <1>6, <1>7, <1>8, <1>9, <1>10, <1>11, <1>12, <1>13, <1>14, <1>15, <1>16
       DEF Effect

LEMMA HeartbeatSideStep ==
  ASSUME TypeInv, TypeInv', HeartbeatSide, LiveOwned, OneSupervisor, StopSide, Effect
  PROVE  HeartbeatSide'
  <1>t. /\ stop \in StopRec /\ start \in StartRec /\ state \in {"STOPPED", "STARTING", "RUNNING", "STOPPING"}
        /\ "none" \notin Connections /\ current \in Connections \cup {"none"} /\ hb \in Connections \cup {"none"}
        /\ {"start", "stop", "handler"} \subseteq Releasers \ Supervisors /\ Supervisors \subseteq Releasers
    BY Typed
  <1> DEFINE Bare == Holding \cup Between \cup {"finishing"}
  <1>b. Bare \cap Idling = {} /\ "connected" \notin Bare /\ "final" \notin Bare
    BY DEF Holding, Between, Idling
  <1>h. /\ hb # "none" => current = hb /\ Live(hb) /\ (state = "RUNNING" \/ StopComing \/ start.pc = "rollback")
        /\ \A s \in Supervisors : sup[s].pc \in Bare => hb = "none"
    BY DEF HeartbeatSide
  <1>g. ASSUME hb' # "none" => current' = hb' /\ Live(hb)' /\ (state = "RUNNING" \/ StopComing \/ start.pc = "rollback")',
               \A s \in Supervisors : sup'[s].pc \in Bare => hb' = "none"
        PROVE  HeartbeatSide'
    BY <1>g DEF HeartbeatSide
  <1> HIDE DEF Bare
  <1>n. ASSUME hb' = "none" PROVE HeartbeatSide'
    BY <1>g, <1>n
  \* nothing happens to the heartbeat, its connection or the supervisors
  <1>f. ASSUME UNCHANGED hb, hb # "none" => current' = hb /\ Live(hb)' /\ (state = "RUNNING" \/ StopComing \/ start.pc = "rollback")',
               \A s \in Supervisors : sup'[s].pc \in Bare => sup[s].pc \in Bare \/ hb = "none"
        PROVE  HeartbeatSide'
    BY <1>g, <1>h, <1>f
  <1>0. CASE NothingElse \/ Handles
    BY <1>f, <1>h, <1>0 DEF NothingElse, Handles, Live, supVars, hbVars, connVars, StopComing
  <1>1. ASSUME NEW s \in Supervisors, Steps(s) PROVE HeartbeatSide'
    <2>1. UNCHANGED <<state, current, conn, hb, start, stop>>
      BY <1>1 DEF Steps, hbVars
    <2>2. CASE sup[s].pc \in Bare
      BY <1>h, <1>n, <2>1, <2>2
    <2>3. CASE sup[s].pc = "connected" /\ SupTo(s, "scheduled") /\ (current = "none" \/ Closed(current))
      BY <1>h, <1>n, <2>1, <2>3 DEF Closed, Live
    <2>4. CASE sup[s].pc \in {"connected", "cancelled"} /\ (SupTo(s, "connected") \/ SupTo(s, "final"))
      BY <1>b, <1>h, <1>f, <2>1, <2>4 DEF SupTo, Live, StopComing
    <2> QED
      BY <1>1, <2>2, <2>3, <2>4 DEF Steps, Bare, Holding, Between
  <1>2. CASE RollbackBegins \/ \E s \in Supervisors : CleansUp(s)
    BY <1>n, <1>2 DEF CleansUp, RollbackBegins, Begins
  <1>3. ASSUME NEW s \in Supervisors, Ends(s) PROVE HeartbeatSide'
    <2>1. CASE sup[s].pc \in Bare
      BY <1>h, <1>n, <1>3, <2>1 DEF Ends, hbVars
    <2>2. CASE sup[s].pc = "told"
      <3>1. UNCHANGED <<state, current, conn, hb, start, stop>>
        BY <1>3, <2>2 DEF Ends, hbVars, connVars
      <3>2. \A u \in Supervisors : sup'[u].pc \in Bare => sup[u].pc \in Bare
        BY <1>3, <2>2 DEF Ends, SupTo, Bare, Holding, Between
      <3> QED
        BY <1>f, <1>h, <3>1, <3>2 DEF Live, StopComing
    <2> QED
      BY <1>3, <2>1, <2>2 DEF Ends, Bare, Between
  <1>4. CASE \E s \in Supervisors : Born(s)
    BY <1>t, <1>h, <1>n, <1>4 DEF Born, StopComing, StopSide, hbVars
  <1>5. ASSUME NEW s \in Supervisors, NEW c \in Connections, Opens(s, c) \/ Discards(s, c) PROVE HeartbeatSide'
    BY <1>h, <1>n, <1>5 DEF Opens, Discards, hbVars, Bare, Holding, Between
  <1>6. ASSUME NEW s \in Supervisors, NEW c \in Connections, NEW told \in BOOLEAN, Joins(s, c, told)
        PROVE  HeartbeatSide'
    <2>1. sup[s].pc \in Bare \ Idling /\ sup[s].pc \in Holding
      BY <1>6 DEF Joins, Bare, Holding, Idling
    <2>2. CASE UNCHANGED hb
      BY <1>h, <1>n, <2>1, <2>2
    <2>3. CASE hb' # hb
      <3>1. hb' = c /\ current' = c /\ state = "RUNNING" /\ ~Closed(c) /\ SupTo(s, "connected")
        BY <1>6, <2>3 DEF Joins, Beats, Closed, Running, hbVars
      <3>2. conn[c].st \notin {"none", "callback", "deferred"} /\ conn[c].st \in ConnStates
        <4>1. c = sup[s].conn
          BY <1>6 DEF Joins
        <4>2. conn[c].st \in ConnStates
          BY Typed DEF ConnRec
        <4> QED
          BY <2>1, <3>1, <4>1, <4>2 DEF LiveOwned, HeldIsOpen, Closed
      <3>3. Live(c) /\ ~told
        <4>1. told => conn[c].st = "deferred"
          BY <1>6, <2>1 DEF Joins, LiveOwned, HeldIsOpen
        <4> QED
          BY <3>1, <3>2, <4>1 DEF Live, Closed, ConnStates
      <3>4. UNCHANGED <<conn, state>>
        BY <1>6, <3>1, <3>3, <2>3 DEF Joins, Settles, hbVars
      <3>5. \A u \in Supervisors : sup'[u].pc \notin Bare
        BY <1>b, <2>1, <3>1 DEF SupTo, OneSupervisor, Works
      <3> QED
        BY <1>g, <3>1, <3>3, <3>4, <3>5 DEF Live
    <2> QED
      BY <2>2, <2>3
  <1>7. ASSUME NEW t \in Releasers, GoesOn(t) PROVE HeartbeatSide'
    <2>1. UNCHANGED <<sup, hb, state, start>> /\ (StopComing' <=> StopComing)
      BY <1>7 DEF GoesOn, SamePlan, supVars, hbVars, StopComing
    <2>2. hb # "none" => current' = current /\ Live(hb)'
      <3>1. CASE UNCHANGED connVars
        BY <1>h, <2>1, <3>1 DEF connVars, Live
      <3>2. CASE Closes(t)
        BY <1>t, <1>h, <2>1, <3>2, BeginsCurrent
      <3>3. CASE /\ CloseReturned(release[t].of, t) /\ UNCHANGED conn
                 /\ current' = (IF current = release[t].of THEN "none" ELSE current)
        BY <1>h, <2>1, <3>3 DEF CloseReturned, Live
      <3> QED
        BY <1>7, <3>1, <3>2, <3>3 DEF GoesOn
    <2> QED
      BY <1>f, <1>h, <2>1, <2>2
  <1>8. ASSUME NEW c \in Connections, Fades(c) PROVE HeartbeatSide'
    <2>1. UNCHANGED <<sup, state, start>> /\ (StopComing' <=> StopComing)
      BY <1>8 DEF Fades, supVars, StopComing
    <2>2. CASE hb' = "none"
      BY <1>n, <2>2
    <2>3. CASE hb' # "none"
      <3>1. UNCHANGED <<hb, current>> /\ (hb # "none" => Live(hb)')
        BY <1>t, <1>h, <1>8, <2>3 DEF Fades, ConnTo, Live, hbVars
      <3> QED
        BY <1>f, <1>h, <2>1, <3>1
    <2> QED
      BY <2>2, <2>3
  <1>9. CASE Exits
    <2>1. UNCHANGED <<state, current, conn, hb>> /\ (StopComing => StopComing') /\ (start.pc = "rollback" => start'.pc = "rollback")
      BY <1>9 DEF Exits, StopComing, connVars, hbVars
    <2>2. \A s \in Supervisors : sup'[s].pc \in Bare => sup[s].pc \in Bare
      BY <1>b, <1>9 DEF Exits, Idling
    <2> QED
      BY <1>f, <1>h, <2>1, <2>2 DEF Live
  <1>10. CASE StartGoes
    <2>1. UNCHANGED <<sup, current, conn, hb, stop>>
      BY <1>10 DEF StartGoes, supVars, connVars, hbVars
    <2>2. hb # "none" => UNCHANGED state /\ (start.pc = "rollback" => start'.pc = "rollback")
      BY <1>h, <1>10 DEF StartGoes, StartTo, StopComing, StopSide
    <2> QED
      BY <1>f, <1>h, <2>1, <2>2 DEF Live, StopComing
  <1>11. CASE RollsBackTo
    <2>1. UNCHANGED <<current, conn, hb>> /\ start'.pc = "rollback"
      BY <1>11 DEF RollsBackTo, connVars, hbVars
    <2>2. \A s \in Supervisors : sup'[s].pc \in Bare => sup[s].pc \in Bare
      BY <1>11 DEF RollsBackTo, Cancels, Bare, Holding, Between
    <2> QED
      BY <1>f, <1>h, <2>1, <2>2 DEF Live
  <1>12. CASE RollbackEnds
    <2>1. UNCHANGED <<sup, state, current, conn, hb, stop>> /\ start.pc # "rollback"
      BY <1>12 DEF RollbackEnds, supVars, connVars, hbVars
    <2> QED
      BY <1>f, <1>h, <2>1 DEF Live, StopComing
  <1>13. CASE StopPlanned
    <2>1. CASE hb' = "none"
      BY <1>n, <2>1
    <2>2. CASE /\ UNCHANGED <<sup, current, conn, hb, start>>
               /\ (state' = "STOPPING" /\ PlanIs("stopping", supervisor, FALSE, TRUE)) \/ (UNCHANGED state /\ ~StopComing)
      BY <1>f, <1>h, <2>2 DEF Live, StopComing, PlanIs
    <2> QED
      BY <1>13, <2>1, <2>2 DEF StopPlanned, Begins, connVars, hbVars, StopComing
  <1>14. CASE StopMoves
    <2>1. CASE hb' = "none"
      BY <1>n, <2>1
    <2>2. CASE hb' # "none"
      <3>1. UNCHANGED <<current, conn, hb>>
        BY <1>14, <2>2 DEF StopMoves, Begins, connVars, hbVars
      <3>2. \A s \in Supervisors : sup'[s].pc \in Bare => sup[s].pc \in Bare
        BY <1>14 DEF StopMoves, Cancels, Bare, Holding, Between, supVars
      <3>3. /\ start.pc = "rollback" => start'.pc = "rollback"
            /\ state = "RUNNING" => state' = "RUNNING"
        BY <1>14 DEF StopMoves, StopsDisp, StopOver, StartTo
      <3>4. StopComing => StopComing'
        BY <1>14, <2>2 DEF StopMoves, StopComing, PlanTo, PlanIs, SamePlan, Begins
      <3> QED
        BY <1>f, <1>h, <3>1, <3>2, <3>3, <3>4 DEF Live
    <2> QED
      BY <2>1, <2>2
  <1> QED
    BY <1>0, <1>1, <1>2, <1>3, <1>4, <1>5, <1>6, <1>7, <1>8, <1>9, <1>10, <1>11, <1>12, <1>13, <1>14 DEF Effect

LEMMA HeartbeatsOwnedStep ==
  ASSUME TypeInv, TypeInv', HeartbeatsOwned, HeartbeatSide, LiveOwned, StopSide, ReleaseSide, Effect
  PROVE  HeartbeatsOwned'
  <1>t. /\ hb \in Connections \cup {"none"} /\ "none" \notin Connections /\ beating \subseteq Connections
        /\ {"start", "stop", "handler"} \subseteq Releasers \ Supervisors /\ Supervisors \subseteq Releasers
    BY Typed
  <1> USE DEF HeartbeatsOwned
  \* nobody who awaits a heartbeat gives up
  <1>f. ASSUME beating' \subseteq beating, UNCHANGED hb,
               \A t \in Releasers : \/ release'[t] = release[t] \/ release[t].at # "heartbeat"
                                    \/ release[t].of \notin beating,
               \A d \in Connections : conn[d].st = "callback" => \/ conn'[d].st = "callback" /\ conn'[d].beat = conn[d].beat
                                                                 \/ conn[d].beat \notin beating
        PROVE  HeartbeatsOwned'
    <2>1. SUFFICES ASSUME NEW c \in beating'
                   PROVE  \/ hb' = c
                          \/ \E t \in Releasers : release'[t] = [at |-> "heartbeat", of |-> c]
                          \/ \E d \in Connections : conn'[d].st = "callback" /\ conn'[d].beat = c
      OBVIOUS
    <2>2. CASE hb = c
      BY <1>f, <2>2
    <2>3. ASSUME NEW t \in Releasers, release[t] = [at |-> "heartbeat", of |-> c]
          PROVE  release'[t] = [at |-> "heartbeat", of |-> c]
      BY <1>f, <2>1, <2>3
    <2>4. ASSUME NEW d \in Connections, conn[d].st = "callback", conn[d].beat = c
          PROVE  conn'[d].st = "callback" /\ conn'[d].beat = c
      BY <1>f, <2>1, <2>4
    <2> QED
      BY <1>f, <2>1, <2>2, <2>3, <2>4
  <1>b. ASSUME NEW t \in Releasers, Begins(t), release[t].at = "no" PROVE HeartbeatsOwned'
    <2>1. /\ UNCHANGED beating /\ hb' = "none"
          /\ \A u \in Releasers \ {t} : release'[u] = release[u]
          /\ \A d \in Connections : conn[d].st = "callback" => conn'[d].st = "callback" /\ conn'[d].beat = conn[d].beat
      BY <1>b, BeginsCurrent DEF Begins
    <2>2. hb \in beating => release'[t] = [at |-> "heartbeat", of |-> hb]
      BY <1>b DEF Begins, RelTo
    <2>3. SUFFICES ASSUME NEW c \in beating'
                   PROVE  \/ hb' = c
                          \/ \E u \in Releasers : release'[u] = [at |-> "heartbeat", of |-> c]
                          \/ \E d \in Connections : conn'[d].st = "callback" /\ conn'[d].beat = c
      OBVIOUS
    <2>4. CASE hb = c
      BY <2>1, <2>2, <2>3, <2>4
    <2>5. ASSUME NEW u \in Releasers, release[u] = [at |-> "heartbeat", of |-> c]
          PROVE  release'[u] = [at |-> "heartbeat", of |-> c]
      BY <1>b, <2>1, <2>5
    <2> QED
      BY <2>1, <2>3, <2>4, <2>5
  <1>1. CASE \/ \E s \in Supervisors : Steps(s) \/ Born(s)
             \/ NothingElse \/ Handles \/ StartGoes \/ RollsBackTo
    BY <1>f, <1>1 DEF Steps, Born, NothingElse, Handles, StartGoes, RollsBackTo, hbVars, connVars
  <1>2. CASE Exits
    BY <1>f, <1>2 DEF Exits, hbVars, connVars
  <1>3. ASSUME NEW s \in Supervisors, CleansUp(s) PROVE HeartbeatsOwned'
    <2>1. release[s].at = "no"
      BY <1>3 DEF CleansUp, ReleaseSide
    <2> QED
      BY <1>t, <1>b, <1>3, <2>1 DEF CleansUp
  <1>4. ASSUME NEW s \in Supervisors, Ends(s) PROVE HeartbeatsOwned'
    BY <1>t, <1>f, <1>4 DEF Ends, RelTo, Released, hbVars, connVars
  <1>5. ASSUME NEW s \in Supervisors, NEW c \in Connections, Opens(s, c) \/ Discards(s, c) PROVE HeartbeatsOwned'
    BY <1>f, <1>5 DEF Opens, Discards, ConnTo, hbVars
  <1>6. ASSUME NEW s \in Supervisors, NEW c \in Connections, NEW told \in BOOLEAN, Joins(s, c, told)
        PROVE  HeartbeatsOwned'
    <2>1. /\ hb = "none" /\ UNCHANGED release
          /\ (hb' = c /\ beating' = beating \cup {c}) \/ UNCHANGED hbVars
      BY <1>6 DEF Joins, HeartbeatSide, Holding, Beats
    <2>2. \A d \in Connections : conn[d].st = "callback" => conn'[d] = conn[d]
      <3>1. conn[c].st # "callback"
        BY <1>6 DEF Joins, LiveOwned, HeldIsOpen, Holding
      <3> QED
        BY <1>6, <3>1 DEF Joins, Settles, ConnTo
    <2>3. CASE UNCHANGED hbVars
      BY <1>f, <2>1, <2>2, <2>3 DEF hbVars
    <2>4. CASE hb' = c /\ beating' = beating \cup {c}
      <3>1. SUFFICES ASSUME NEW x \in beating, x # c
                     PROVE  (\/ \E u \in Releasers : release[u] = [at |-> "heartbeat", of |-> x]
                             \/ \E d \in Connections : conn[d].st = "callback" /\ conn[d].beat = x)'
        BY <2>4
      <3>2. x # hb
        BY <1>t, <2>1
      <3> QED
        BY <2>1, <2>2, <3>1, <3>2
    <2> QED
      BY <2>1, <2>3, <2>4
  <1>7. ASSUME NEW t \in Releasers, GoesOn(t) PROVE HeartbeatsOwned'
    <2>1. UNCHANGED hbVars /\ \A u \in Releasers \ {t} : release'[u] = release[u]
      BY <1>7, BeginsRel DEF GoesOn, RelTo
    <2>2. release[t].at # "heartbeat" \/ release[t].of \notin beating
      BY <1>7 DEF GoesOn
    <2>3. \A d \in Connections : conn[d].st = "callback" => conn'[d].st = "callback" /\ conn'[d].beat = conn[d].beat
      <3>1. CASE UNCHANGED conn
        BY <3>1
      <3>2. CASE Closes(t)
        BY <3>2, BeginsCurrent
      <3> QED
        BY <1>7, <3>1, <3>2 DEF GoesOn, connVars
    <2> QED
      BY <1>f, <2>1, <2>2, <2>3 DEF hbVars
  <1>8. ASSUME NEW c \in Connections, Fades(c) PROVE HeartbeatsOwned'
    <2>1. UNCHANGED release /\ \A d \in Connections \ {c} : conn'[d] = conn[d]
      BY <1>8 DEF Fades
    <2>2. CASE /\ conn[c].st = "closing" /\ hb' = "none" /\ UNCHANGED beating
               /\ hb \in beating => conn'[c].st = "callback" /\ conn'[c].beat = hb
      <3>1. SUFFICES ASSUME NEW x \in beating
                     PROVE  (\/ \E u \in Releasers : release[u] = [at |-> "heartbeat", of |-> x]
                             \/ \E d \in Connections : conn[d].st = "callback" /\ conn[d].beat = x)'
        BY <2>2
      <3>2. CASE x = hb
        BY <2>2, <3>1, <3>2
      <3>3. CASE x # hb
        BY <2>1, <2>2, <3>1, <3>3
      <3> QED
        BY <3>2, <3>3
    <2>3. CASE /\ UNCHANGED hb /\ beating' \subseteq beating
               /\ conn[c].st = "callback" => conn'[c] = conn[c] \/ conn[c].beat \notin beating
      BY <1>f, <2>1, <2>3
    <2> QED
      BY <1>8, <2>2, <2>3 DEF Fades, hbVars, ConnTo
  <1>9. CASE RollbackBegins
    <2>1. release["start"].at = "no"
      BY <1>9 DEF RollbackBegins, ReleaseSide
    <2> QED
      BY <1>t, <1>b, <1>9, <2>1 DEF RollbackBegins
  <1>10. CASE RollbackEnds
    BY <1>t, <1>f, <1>10 DEF RollbackEnds, RelTo, Released, hbVars, connVars
  <1>11. CASE StopPlanned
    <2>1. release["handler"].at = "no"
      BY <1>11 DEF StopPlanned, ReleaseSide
    <2>2. CASE Begins("handler")
      BY <1>t, <1>b, <2>1, <2>2
    <2>3. CASE UNCHANGED <<connVars, hbVars, release>>
      BY <1>f, <2>3 DEF hbVars, connVars
    <2> QED
      BY <1>11, <2>2, <2>3 DEF StopPlanned
  <1>12. CASE StopMoves
    <2>1. CASE Begins(Releaser) /\ stop.phase = "supervisor"
      <3>1. Releaser \in Releasers /\ release[Releaser].at = "no"
        BY <1>t, <2>1 DEF Releaser, ReleaseSide
      <3> QED
        BY <1>b, <2>1, <3>1
    <2>2. CASE UNCHANGED <<connVars, hbVars, release>>
      BY <1>f, <2>2 DEF hbVars, connVars
    <2>3. ASSUME NEW t \in Releasers, Released(t), RelTo(t, "no", "none"), UNCHANGED <<connVars, hbVars>>
          PROVE  HeartbeatsOwned'
      BY <1>f, <2>3 DEF RelTo, Released, hbVars, connVars
    <2> QED
      BY <1>t, <1>12, <2>1, <2>2, <2>3 DEF StopMoves
  <1> QED
    BY <1>1, <1>2, <1>3, <1>4, <1>5, <1>6, <1>7, <1>8, <1>9, <1>10, <1>11, <1>12 DEF Effect

LEMMA SetupFixed == ASSUME Effect PROVE setup' = setup
  <1>1. CASE \E s \in Supervisors : Steps(s) \/ CleansUp(s) \/ Ends(s) \/ Born(s)
    BY <1>1 DEF Steps, CleansUp, Ends, Born
  <1>2. CASE \E s \in Supervisors, c \in Connections :
               Opens(s, c) \/ Discards(s, c) \/ \E told \in BOOLEAN : Joins(s, c, told)
    BY <1>2 DEF Opens, Discards, Joins
  <1>3. CASE (\E t \in Releasers : GoesOn(t)) \/ \E c \in Connections : Fades(c)
    BY <1>3 DEF GoesOn, Fades
  <1>4. CASE Handles \/ Exits \/ StartGoes \/ RollsBackTo \/ RollbackBegins \/ RollbackEnds
    BY <1>4 DEF Handles, Exits, StartGoes, RollsBackTo, RollbackBegins, RollbackEnds
  <1>5. CASE StopPlanned \/ StopMoves \/ NothingElse
    BY <1>5 DEF StopPlanned, StopMoves, NothingElse
  <1> QED
    BY <1>1, <1>2, <1>3, <1>4, <1>5 DEF Effect

LEMMA HeartbeatOfCurrentStep ==
  ASSUME TypeInv, TypeInv', HeartbeatOfCurrent, LiveOwned, OneSupervisor, StopSide, OneLife, Effect
  PROVE  HeartbeatOfCurrent'
  <1>t. /\ stop \in StopRec /\ start \in StartRec /\ state \in {"STOPPED", "STARTING", "RUNNING", "STOPPING"}
        /\ supervisor \in Supervisors \cup {"none"} /\ "none" \notin Supervisors
        /\ "none" \notin Connections /\ current \in Connections \cup {"none"} /\ current' \in Connections \cup {"none"}
        /\ {"start", "stop", "handler"} \subseteq Releasers \ Supervisors /\ Supervisors \subseteq Releasers
    BY Typed DEF TypeInv, TypeOK
  <1>s. SUFFICES ASSUME NEW s \in Supervisors, ~setup.overlap, sup'[s].pc = "connected", supervisor' = s,
                        setup.heartbeat, current' # "none", conn'[current'].st = "up"
                 PROVE  hb' = current'
    BY SetupFixed DEF HeartbeatOfCurrent
  <1>p. current' \in Connections
    BY <1>t, <1>s
  <1>w. ASSUME sup[s].pc = "connected"
        PROVE  /\ Works(s) /\ (supervisor = s <=> state = "RUNNING")
               /\ \A u \in Supervisors \ {s} : sup[u].pc \notin Holding \cup Between \cup {"final"}
    BY <1>w DEF Works, OneSupervisor, Idling, Holding, Between
  <1>f. ASSUME sup[s].pc = "connected", supervisor = s, current' = current, conn[current].st = "up" PROVE hb = current
    BY <1>s, <1>f DEF HeartbeatOfCurrent
  <1>1. ASSUME NEW u \in Supervisors, Steps(u) PROVE hb' = current'
    <2>1. UNCHANGED <<supervisor, current, conn, hb>>
      BY <1>1 DEF Steps, hbVars
    <2>2. CASE sup[s].pc = "connected"
      BY <1>s, <1>f, <2>1, <2>2
    <2>3. CASE sup[s].pc = "closing" /\ conn[sup[s].conn].st = "over"
      BY <1>s, <1>p, <2>1, <2>3 DEF LiveOwned, LiveAlone, Live, Holding
    <2> QED
      BY <1>s, <1>1, <2>2, <2>3 DEF Steps, SupTo
  <1>2. ASSUME NEW u \in Supervisors, CleansUp(u) PROVE hb' = current'
    BY <1>s, <1>w, <1>2 DEF CleansUp, SupTo, Between
  <1>3. ASSUME NEW u \in Supervisors, Ends(u) PROVE hb' = current'
    BY <1>s, <1>f, <1>3 DEF Ends, SupTo, connVars, hbVars
  <1>4. ASSUME NEW u \in Supervisors, Born(u) PROVE hb' = current'
    BY <1>s, <1>4 DEF Born, SupTo
  <1>5. ASSUME NEW u \in Supervisors, NEW c \in Connections, Opens(u, c) \/ Discards(u, c) PROVE hb' = current'
    BY <1>s, <1>w, <1>5 DEF Opens, Discards, SupTo, supVars, Between, Holding
  <1>6. ASSUME NEW u \in Supervisors, NEW c \in Connections, NEW told \in BOOLEAN, Joins(u, c, told)
        PROVE  hb' = current'
    <2>1. u = s
      BY <1>s, <1>w, <1>6 DEF Joins, SupTo, Holding
    <2>2. Works(s) /\ sup[s].pc \in Holding /\ c = sup[s].conn
      BY <1>6, <2>1 DEF Joins, Works, Holding, Idling
    <2>3. state = "RUNNING"
      BY <1>s, <1>6, <2>2 DEF Joins, OneSupervisor
    <2>4. CASE current = c
      <3>1. conn[c].st = "up"
        BY <1>s, <1>6, <2>4 DEF Joins, Settles, ConnTo
      <3> QED
        BY <1>s, <1>6, <2>3, <2>4, <3>1 DEF Joins, Beats
    <2>5. CASE current # c /\ UNCHANGED current
      <3>1. conn[current].st = "up"
        BY <1>s, <1>p, <1>6, <2>5 DEF Joins, Settles, ConnTo
      <3> QED
        BY <1>p, <2>2, <2>5, <3>1 DEF LiveOwned, LiveAlone, Live
    <2>6. CASE current' = c /\ Beats(c)
      BY <1>s, <2>6 DEF Beats
    <2> QED
      BY <1>6, <2>4, <2>5, <2>6 DEF Joins
  <1>7. ASSUME NEW t \in Releasers, GoesOn(t) PROVE hb' = current'
    <2>1. sup[s].pc = "connected" /\ supervisor = s /\ UNCHANGED hb
      BY <1>s, <1>7 DEF GoesOn, supVars, hbVars
    <2>2. current' = current /\ conn[current].st = "up"
      <3>1. CASE Closes(t)
        BY <1>s, <1>p, <3>1, BeginsCurrent
      <3>2. CASE UNCHANGED conn /\ current' \in {current, "none"}
        BY <1>s, <3>2
      <3> QED
        BY <1>7, <3>1, <3>2 DEF GoesOn, connVars
    <2> QED
      BY <1>f, <2>1, <2>2
  <1>8. ASSUME NEW c \in Connections, Fades(c) PROVE hb' = current'
    <2>1. sup[s].pc = "connected" /\ supervisor = s
      BY <1>s, <1>8 DEF Fades, supVars
    <2>2. (current' = current /\ conn[current].st = "up" /\ current # c) \/ UNCHANGED <<current, conn, hb>>
      BY <1>s, <1>p, <1>8 DEF Fades, ConnTo
    <2>3. CASE UNCHANGED hb
      BY <1>s, <1>f, <2>1, <2>2, <2>3
    <2>4. CASE conn[c].st = "closing" /\ current # c
      <3>1. \E u \in Supervisors : sup[u].conn = c /\ sup[u].pc \in Holding
        BY <2>4 DEF LiveOwned, LiveHeld, Live
      <3> QED
        BY <1>w, <2>1, <3>1 DEF Holding
    <2> QED
      BY <1>8, <2>2, <2>3, <2>4 DEF Fades, hbVars
  <1>9. CASE NothingElse \/ Handles \/ Exits \/ StartGoes \/ RollbackEnds
    <2>1. UNCHANGED <<supervisor, current, conn, hb>>
      BY <1>9 DEF NothingElse, Handles, Exits, StartGoes, RollbackEnds, supVars, connVars, hbVars
    <2>2. sup[s].pc = "connected"
      BY <1>s, <1>9 DEF NothingElse, Handles, Exits, StartGoes, RollbackEnds, supVars
    <2> QED
      BY <1>s, <1>f, <2>1, <2>2
  <1>10. CASE RollsBackTo
    BY <1>t, <1>s, <1>10 DEF RollsBackTo
  <1>11. CASE RollbackBegins
    BY <1>s, <1>w, <1>11 DEF RollbackBegins, supVars, StopSide, Running
  <1>12. CASE StopPlanned
    BY <1>t, <1>s, <1>f, <1>12 DEF StopPlanned, connVars, hbVars
  <1>13. CASE StopMoves
    <2>1. sup[s].pc = "connected" /\ supervisor = s
      BY <1>t, <1>s, <1>13 DEF StopMoves, Cancels, supVars
    <2>2. stop.phase # "supervisor"
      BY <1>s, <1>w, <2>1 DEF OneLife, StopKnows, Running
    <2>3. UNCHANGED <<current, conn, hb>>
      BY <1>13, <2>2 DEF StopMoves, connVars, hbVars
    <2> QED
      BY <1>s, <1>f, <2>1, <2>3
  <1> QED
    BY <1>1, <1>2, <1>3, <1>4, <1>5, <1>6, <1>7, <1>8, <1>9, <1>10, <1>11, <1>12, <1>13 DEF Effect


LEMMA StopKnowsStep ==
  ASSUME TypeInv, TypeInv', StopKnows, StopSide, ~setup.overlap, Effect
  PROVE  StopKnows'
  <1>t. /\ stop \in StopRec /\ start \in StartRec /\ state \in {"STOPPED", "STARTING", "RUNNING", "STOPPING"}
        /\ supervisor \in Supervisors \cup {"none"} /\ disp \in {"off", "on", "stopping"}
    BY Typed
  <1> USE DEF StopKnows, Running
  <1>1. CASE UNCHANGED <<state, supervisor, disp, stop>>
    BY <1>1
  <1>2. CASE \E s \in Supervisors : Ends(s) \/ Born(s)
    BY <1>2 DEF Ends, Born
  <1>3. CASE \E t \in Releasers : GoesOn(t)
    BY <1>3 DEF GoesOn, SamePlan, supVars
  <1>4. CASE Exits
    BY <1>t, <1>4 DEF Exits, NoStop
  <1>5. CASE StartGoes
    BY <1>5 DEF StartGoes, StartTo, Quiet, supVars
  <1>6. CASE RollsBackTo \/ RollbackEnds
    BY <1>6 DEF RollsBackTo, RollbackEnds, supVars
  <1>7. CASE StopPlanned
    BY <1>t, <1>7 DEF StopPlanned, PlanIs
  <1>8. CASE StopMoves
    BY <1>t, <1>8 DEF StopMoves, PlanTo, PlanIs, StopsDisp, StopOver, SamePlan, NoStop, supVars, StopSide
  <1> QED
    BY <1>1, <1>2, <1>3, <1>4, <1>5, <1>6, <1>7, <1>8 DEF Effect, Steps, CleansUp, Opens,
       Discards, Joins, Fades, Handles, RollbackBegins, NothingElse, supVars

LEMMA SupKnownStep ==
  ASSUME TypeInv, TypeInv', SupKnown, StopSide, ~setup.overlap, Effect
  PROVE  SupKnown'
  <1>t. /\ stop \in StopRec /\ start \in StartRec /\ supervisor \in Supervisors \cup {"none"} /\ "none" \notin Supervisors
    BY Typed
  <1> USE DEF SupKnown
  <1>w. ASSUME NEW s \in Supervisors, sup'[s].pc \notin {"unborn", "done"}
        PROVE  sup[s].pc \notin {"unborn", "done"} \/ Born(s)
    BY <1>w, SupMoves
  <1>1. CASE UNCHANGED <<supervisor, start>> /\ stop'.sup = stop.sup
    BY <1>1, <1>w DEF Born, StartTo
  <1>2. CASE \E s \in Supervisors : Born(s)
    BY <1>2 DEF Born, SupTo, StartTo
  <1>3. CASE Exits
    BY <1>t, <1>3, <1>w DEF Exits, Born, StopSide, SupDone, NoStop, StartTo
  <1>4. CASE StartGoes
    BY <1>t, <1>4, <1>w DEF StartGoes, Born, StartTo, Quiet, supVars
  <1>5. CASE RollsBackTo
    BY <1>t, <1>5, <1>w DEF RollsBackTo, Born
  <1>6. CASE RollbackBegins \/ RollbackEnds
    BY <1>t, <1>6, <1>w DEF RollbackBegins, RollbackEnds, Born, StartTo, SupDone, supVars
  <1>7. CASE StopPlanned
    BY <1>t, <1>7, <1>w DEF StopPlanned, PlanIs, Born, SupDone, StopSide
  <1>8. CASE StopMoves
    BY <1>t, <1>8, <1>w DEF StopMoves, Born, PlanTo, PlanIs, StopsDisp, StopOver, SamePlan, NoStop, StartTo, SupDone,
       supVars, StopSide
  <1> HIDE DEF SupKnown
  <1>9. CASE \/ \E s \in Supervisors : Steps(s) \/ CleansUp(s) \/ Ends(s)
             \/ \E s \in Supervisors, c \in Connections :
                  Opens(s, c) \/ Discards(s, c) \/ \E told \in BOOLEAN : Joins(s, c, told)
             \/ \E t \in Releasers : GoesOn(t)
             \/ \E c \in Connections : Fades(c)
             \/ Handles \/ NothingElse
    BY <1>1, <1>9 DEF Steps, CleansUp, Ends, GoesOn, SamePlan, Opens, Discards, Joins, Fades, Handles, NothingElse, supVars
  <1> QED
    BY <1>2, <1>3, <1>4, <1>5, <1>6, <1>7, <1>8, <1>9 DEF Effect

LEMMA ClearedStep ==
  ASSUME TypeInv, TypeInv', Cleared, StopKnows, ReleaseSide, ~setup.overlap, Effect
  PROVE  Cleared'
  <1>t. /\ stop \in StopRec /\ "none" \notin Connections
        /\ {"start", "stop", "handler"} \subseteq Releasers \ Supervisors /\ Supervisors \subseteq Releasers
        /\ Releaser \in {"stop", "handler"}
    BY Typed DEF Releaser
  <1> USE DEF Cleared
  <1>f. ASSUME SamePlan, current' \in {current, "none"}, release'[Releaser] = release[Releaser] PROVE Cleared'
    <2>1. Releaser' = Releaser /\ stop'.phase = stop.phase
      BY <1>f DEF SamePlan, Releaser
    <2> QED
      BY <1>f, <2>1
  <1>b. ASSUME NEW t \in {"stop", "handler"}, Begins(t) \/ Closes(t), Releaser' = t, stop'.phase = "release"
        PROVE  Cleared'
    <2>1. current' = "none" \/ release'[t].at = "heartbeat" \/ release'[t] = [at |-> "close", of |-> current']
      BY <1>t, <1>b, BeginsCurrent
    <2> QED
      BY <1>b, <2>1
  <1>1. CASE UNCHANGED <<current, stop>> /\ release'[Releaser] = release[Releaser]
    BY <1>f, <1>1 DEF SamePlan
  <1>2. ASSUME NEW s \in Supervisors, CleansUp(s) PROVE Cleared'
    <2>1. current' \in {current, "none"} /\ release'[Releaser] = release[Releaser] /\ UNCHANGED stop
      BY <1>t, <1>2, BeginsCurrent DEF CleansUp
    <2> QED
      BY <1>f, <2>1 DEF SamePlan
  <1>3. CASE \E s \in Supervisors : Ends(s)
    BY <1>t, <1>1, <1>3 DEF Ends, RelTo, connVars
  <1>4. ASSUME NEW s \in Supervisors, NEW c \in Connections, Opens(s, c) PROVE Cleared'
    BY <1>f, <1>4 DEF Opens, StopKnows, Running, SamePlan
  <1>5. ASSUME NEW s \in Supervisors, NEW c \in Connections, NEW told \in BOOLEAN, Joins(s, c, told) PROVE Cleared'
    <2>1. UNCHANGED <<stop, release>> /\ (UNCHANGED current \/ state = "RUNNING")
      BY <1>5 DEF Joins
    <2> QED
      BY <1>1, <2>1 DEF StopKnows, Running
  <1>6. ASSUME NEW t \in Releasers, GoesOn(t) PROVE Cleared'
    <2>1. SamePlan /\ Releaser' = Releaser /\ stop'.phase = stop.phase
      BY <1>6 DEF GoesOn, SamePlan, Releaser
    <2>2. current' \in {current, "none"} /\ \A u \in Releasers \ {t} : release'[u] = release[u]
      BY <1>6, BeginsCurrent DEF GoesOn, RelTo, connVars
    <2>3. CASE t # Releaser
      BY <1>t, <1>f, <2>1, <2>2, <2>3
    <2>4. CASE t = Releaser
      <3>1. stop.phase = "release"
        BY <1>6, <2>4 DEF ReleaseSide, GoesOn, Releaser
      <3>2. CASE Closes(t)
        BY <1>t, <1>b, <2>1, <2>4, <3>1, <3>2
      <3>3. CASE /\ release[t].at = "close" /\ RelTo(t, "released", "none")
                 /\ current' = (IF current = release[t].of THEN "none" ELSE current)
        BY <2>1, <2>4, <3>1, <3>3 DEF RelTo
      <3> QED
        BY <1>t, <1>6, <2>4, <3>2, <3>3 DEF GoesOn
    <2> QED
      BY <2>3, <2>4
  <1>7. CASE \E c \in Connections : Fades(c)
    BY <1>f, <1>7 DEF Fades, SamePlan
  <1>8. CASE Exits
    BY <1>8, <1>1 DEF Exits, NoStop, connVars
  <1>9. CASE RollbackBegins
    <2>1. current' \in {current, "none"} /\ release'[Releaser] = release[Releaser] /\ UNCHANGED stop
      BY <1>t, <1>9, BeginsCurrent DEF RollbackBegins
    <2> QED
      BY <1>f, <2>1 DEF SamePlan
  <1>10. CASE RollbackEnds
    BY <1>t, <1>1, <1>10 DEF RollbackEnds, RelTo, connVars
  <1>11. CASE StopPlanned
    <2>1. CASE PlanIs("release", supervisor, TRUE, TRUE) /\ Begins("handler")
      <3>1. Releaser' = "handler" /\ stop'.phase = "release"
        BY <2>1 DEF PlanIs, Releaser
      <3> QED
        BY <1>b, <2>1, <3>1
    <2>2. CASE stop'.phase \in {"stopping", "supervisor"}
      BY <2>2
    <2> QED
      BY <1>11, <2>1, <2>2 DEF StopPlanned, PlanIs
  <1>12. CASE StopMoves
    <2>1. CASE PlanTo("release") /\ Begins(Releaser)
      <3>1. Releaser' = Releaser /\ stop'.phase = "release"
        BY <2>1 DEF PlanTo, PlanIs, Releaser
      <3> QED
        BY <1>t, <1>b, <2>1, <3>1
    <2>2. CASE stop.phase = "release" /\ Released(Releaser) /\ UNCHANGED current /\ stop'.phase # "release"
      <3>1. current = "none"
        BY <1>t, <2>2 DEF Released, ReleaseSide
      <3> QED
        BY <2>2, <3>1
    <2>3. CASE stop.phase \in {"handlers", "telling", "closes", "stopped", "draining"} /\ UNCHANGED current /\ stop'.phase # "release"
      BY <2>3
    <2>4. CASE SamePlan /\ UNCHANGED <<current, release>>
      BY <1>f, <2>4
    <2>5. CASE stop'.phase = "supervisor"
      BY <2>5
    <2> QED
      BY <1>12, <2>1, <2>2, <2>3, <2>4, <2>5 DEF StopMoves, PlanTo, PlanIs, StopsDisp, StopOver, NoStop, connVars, Releaser
  <1> QED
    BY <1>1, <1>2, <1>3, <1>4, <1>5, <1>6, <1>7, <1>8, <1>9, <1>10, <1>11, <1>12 DEF Effect, Steps, Born,
       Discards, Handles, StartGoes, RollsBackTo, NothingElse, connVars


-----------------------------------------------------------------------------
(***************************************************************************)
(* The theorems.                                                            *)
(***************************************************************************)
LEMMA LiveMeansOwned == TypeInv /\ LiveOwned => ConnectionsOwned
  <1> SUFFICES ASSUME TypeInv, LiveOwned, NEW c \in Connections, conn[c].st = "up", current # c
               PROVE  \E s \in Supervisors : /\ sup[s].conn = c
                                             /\ sup[s].pc \in {"opening", "handling", "handoff", "abandoned"}
    BY DEF ConnectionsOwned
  <1>1. PICK s \in Supervisors : sup[s].conn = c /\ sup[s].pc \in Holding
    BY DEF LiveOwned, LiveHeld, Live
  <1>2. sup[s].pc # "closing"
    BY <1>1 DEF LiveOwned, HeldIsOpen
  <1> QED
    BY <1>1, <1>2 DEF Holding

Inv == TypeInv /\ ClientInv

LEMMA InvInit == Init => Inv
  <1> SUFFICES ASSUME Init PROVE Inv
    OBVIOUS
  <1>1. TypeInv
    BY TypeInit
  <1>2. /\ state = "STOPPED" /\ current = "none" /\ hb = "none" /\ beating = {} /\ handler = "none" /\ supervisor = "none"
        /\ start.pc = "idle"
        /\ stop.phase = "none" /\ stop.sup = "none" /\ ~stop.transition /\ ~stop.handler
        /\ \A s \in Supervisors : sup[s].pc = "unborn"
        /\ \A c \in Connections : conn[c].st = "none"
        /\ \A t \in Releasers : release[t].at = "no"
    BY DEF Init, NoStop, NoSup, NewConn, NotReleasing
  <1>3. {"start", "stop", "handler"} \subseteq Releasers /\ Supervisors \subseteq Releasers
    BY DEF Releasers
  <1>4. OneSupervisor /\ StopSide /\ OneLife
    BY <1>2 DEF OneSupervisor, Works, Idling, StopSide, Running, OneLife, StopKnows, SupKnown, Cleared
  <1>5. LiveOwned /\ CurrentSide /\ HeartbeatSide
    BY <1>2 DEF LiveOwned, LiveHeld, LiveAlone, HeldIsOpen, Live, CurrentSide, HeartbeatSide, Holding, Between
  <1>6. ReleaseSide
    BY <1>2, <1>3 DEF ReleaseSide
  <1>7. HeartbeatsOwned /\ HeartbeatOfCurrent
    BY <1>2 DEF HeartbeatsOwned, HeartbeatOfCurrent
  <1> QED
    BY <1>1, <1>4, <1>5, <1>6, <1>7, LiveMeansOwned DEF Inv, ClientInv, EverythingOwned

LEMMA InvStep == Inv /\ [Next]_vars => Inv'
  <1> SUFFICES ASSUME Inv, [Next]_vars PROVE Inv'
    OBVIOUS
  <1>1. TypeInv' /\ Effect
    BY StepEffect DEF Inv
  <1>2. StopSide' /\ ReleaseSide' /\ OneSupervisor'
    BY <1>1, StopSideStep, ReleaseSideStep, OneSupervisorStep DEF Inv, ClientInv
  <1>3. LiveOwned' /\ CurrentSide' /\ HeartbeatSide'
    BY <1>1, LiveOwnedStep, CurrentSideStep, HeartbeatSideStep DEF Inv, ClientInv
  <1>4. OneLife'
    <2>1. setup' = setup
      BY <1>1, SetupFixed
    <2>2. ASSUME ~setup.overlap PROVE StopKnows' /\ SupKnown' /\ Cleared'
      BY <1>1, <2>2, StopKnowsStep, SupKnownStep, ClearedStep DEF Inv, ClientInv, OneLife
    <2> QED
      BY <2>1, <2>2 DEF OneLife
  <1>5. HeartbeatsOwned' /\ HeartbeatOfCurrent'
    BY <1>1, HeartbeatsOwnedStep, HeartbeatOfCurrentStep DEF Inv, ClientInv, EverythingOwned
  <1>6. ConnectionsOwned'
    <2>1. (TypeInv /\ LiveOwned => ConnectionsOwned)'
      BY LiveMeansOwned, PTL
    <2> QED
      BY <1>1, <1>3, <2>1
  <1> QED
    BY <1>1, <1>2, <1>3, <1>4, <1>5, <1>6 DEF Inv, ClientInv, EverythingOwned

LEMMA InvInvariant == Spec => []Inv
  BY InvInit, InvStep, PTL DEF Spec

\* Whatever the interleaving of start(), stop(), the supervisor, peers, failures,
\* handlers and cancellations: no connection is connected that nobody would
\* close, no heartbeat task runs that nobody holds or awaits, and the close of
\* an old connection never takes the heartbeat of the new one.
THEOREM ClientOwnsEverything == Spec => []EverythingOwned
  <1>1. Inv => EverythingOwned
    BY DEF Inv, ClientInv
  <1> QED
    BY <1>1, InvInvariant, PTL


\* A stop() returns at once, when the client is stopped; or the owned stop is over,
\* without an error, by itself or when the worker has ended.
LEMMA HowStopReturns ==
  ASSUME TypeInv, [Next]_vars, NEW k \in Stoppers, Returns(k)
  PROVE  \/ /\ stop.phase = "none" /\ FullyStopped
            /\ UNCHANGED <<state, disp, sup, connVars, hbVars>>
         \/ /\ stop.phase = "draining" /\ disp' = "off" /\ UNCHANGED <<state, connVars, hbVars>>
            /\ \A s \in Supervisors : IF sup[s].pc = "draining" THEN sup'[s].pc = "done" ELSE sup'[s] = sup[s]
         \/ /\ UNCHANGED <<disp, sup, connVars, hbVars>>
            /\ \/ /\ stop.phase = "release" /\ ~stop.handler /\ Released("stop")
                  /\ \/ ~stop.dispatcher /\ UNCHANGED state
                     \/ disp = "off" /\ state' = IF state = "STOPPING" THEN "STOPPED" ELSE state
               \/ disp = "off" /\ UNCHANGED state /\ stop.phase = "closes" /\ SupDone(stop.sup)
               \/ disp = "off" /\ UNCHANGED state /\ stop.phase = "stopped"
  <1>t. pc \in [Stoppers -> CallStates]
    BY Typed
  <1>c. pc' # pc
    BY DEF Returns
  <1>d. ASSUME FinishesWithDispatcher PROVE disp = "off" /\ UNCHANGED disp
    BY <1>c, <1>d DEF FinishesWithDispatcher
  <1>1. ASSUME NEW j \in Stoppers, StopCalled(j)
        PROVE  stop.phase = "none" /\ FullyStopped /\ UNCHANGED <<state, disp, sup, connVars, hbVars>>
    <2>1. CASE stop.phase = "none" /\ FullyStopped
      BY <1>1, <2>1 DEF StopCalled
    <2>2. CASE ~(stop.phase = "none" /\ FullyStopped)
      <3>1. pc' = [pc EXCEPT ![j] = "join"] \/ pc' = [pc EXCEPT ![j] = "own"]
        BY <1>1, <2>2 DEF StopCalled
      <3> QED
        BY <1>t, <3>1 DEF Returns
    <2> QED
      BY <2>1, <2>2
  <1>2. ASSUME NEW j \in Stoppers, StopperCancelled(j) PROVE FALSE
    <2>1. pc' = [pc EXCEPT ![j] = "raised"] \/ UNCHANGED pc \/ pc' = CallsAfter(TRUE)
      BY <1>2 DEF StopperCancelled, Completed
    <2>2. CASE pc' = CallsAfter(TRUE)
      BY <1>t, <2>2 DEF CallsAfter, Returns
    <2>3. CASE pc' = [pc EXCEPT ![j] = "raised"]
      BY <1>t, <2>3 DEF Returns
    <2> QED
      BY <1>c, <2>1, <2>2, <2>3
  <1>3. CASE WorkerExits
    <2>1. Exits
      BY <1>3, ExitsEffect
    <2>2. stop.phase = "draining"
      BY <1>c, <2>1 DEF Exits
    <2> QED
      BY <2>1, <2>2 DEF Exits
  <1>4. CASE ResourcesReleased
    <2>1. stop.phase = "release" /\ ~stop.handler /\ Released("stop") /\ UNCHANGED <<sup, connVars, hbVars>>
      BY <1>4 DEF ResourcesReleased, supVars
    <2>2. CASE ~stop.dispatcher
      BY <1>4, <2>1, <2>2 DEF ResourcesReleased
    <2>3. CASE stop.dispatcher
      <3>1. FinishesWithDispatcher /\ state' = IF state = "STOPPING" THEN "STOPPED" ELSE state
        BY <1>c, <1>4, <2>3 DEF ResourcesReleased
      <3> QED
        BY <1>d, <2>1, <3>1
    <2> QED
      BY <2>2, <2>3
  <1>5. CASE FinisherRuns
    <2>1. UNCHANGED <<state, sup, connVars, hbVars>>
      BY <1>5 DEF FinisherRuns, supVars
    <2>2. stop.phase = "closes" /\ SupDone(stop.sup) /\ FinishesWithDispatcher
      BY <1>c, <1>5 DEF FinisherRuns
    <2> QED
      BY <1>d, <2>1, <2>2
  <1>6. CASE StoppedTold
    <2>1. UNCHANGED <<state, sup, connVars, hbVars>> /\ stop.phase = "stopped" /\ FinishesWithDispatcher
      BY <1>6 DEF StoppedTold, supVars
    <2> QED
      BY <1>d, <2>1
  <1>7. CASE UNCHANGED pc
    BY <1>c, <1>7
  <1>8. CASE \E s \in Supervisors : SupervisorStep(s) \/ Connects(s) \/ ConnectFails(s)
    BY <1>c, <1>8 DEF SupervisorStep, Connects, ConnectFails, SupervisorRuns, OpenedQueued, OpenedHandled,
       DeferredClosePublished, Abandons, ClosesItself, NoticesClose, TearsDownAfterFailure, DecidesRetry,
       Finalizes, EndsSupervision, TerminalTold, ReleaseStep, HeartbeatGone, ConnectionGone
  <1>9. CASE \/ \E c \in Connections : CloseStep(c) \/ ConnectionDies(c) \/ HeartbeatEnds(c)
             \/ \E h \in Connections \cup {"event"} : HandlerBegins(h)
             \/ HandlerStops \/ HandlerReturns
    BY <1>c, <1>9 DEF CloseStep, ClosedCallback, CallbackReturns, ClosedPublished, ConnectionDies,
       HeartbeatEnds, HandlerBegins, HandlerStops, HandlerReturns
  <1>10. CASE StartStep \/ StartCalled \/ StartCancelled
    BY <1>c, <1>10 DEF StartStep, StartCalled, StartCancelled, StartingQueued, StartingHandled,
       RunningTold, StartDoomed, RollbackReleases, RollbackStopsDispatcher, ReleaseStep, HeartbeatGone,
       ConnectionGone
  <1>11. CASE StoppingTold \/ SupervisorGone \/ HandlerStopsDispatcher \/ ReleaseStep("stop") \/ ReleaseStep("handler")
    BY <1>c, <1>11 DEF StoppingTold, SupervisorGone, HandlerStopsDispatcher, ReleaseStep, HeartbeatGone, ConnectionGone
  <1> QED
    BY <1>1, <1>2, <1>3, <1>4, <1>5, <1>6, <1>7, <1>8, <1>9, <1>10, <1>11 DEF Next, vars, StopStep

LEMMA StopReturnsClean ==
  ASSUME Inv, [Next]_vars, NEW k \in Stoppers, Returns(k), ~setup.overlap, ~RollingBack
  PROVE  /\ state' = "STOPPED" /\ disp' = "off" /\ hb' = "none" /\ current' = "none"
         /\ \A s \in Supervisors : sup'[s].pc \in {"unborn", "done"}
         /\ \A c \in Connections : conn'[c].st # "up"
  <1>t. /\ supervisor \in Supervisors \cup {"none"} /\ "none" \notin Supervisors /\ "none" \notin Connections
        /\ state \in {"STOPPED", "STARTING", "RUNNING", "STOPPING"} /\ stop \in StopRec
    BY Typed DEF Inv
  <1>i. TypeInv /\ StopSide /\ StopKnows /\ SupKnown /\ Cleared /\ ReleaseSide /\ HeartbeatSide /\ LiveOwned
    BY DEF Inv, ClientInv, OneLife
  <1>r. start.pc # "rollback"
    BY DEF RollingBack
  <1>f. ASSUME current = "none", SupDone(stop.sup) \/ (supervisor = "none" /\ stop.sup = "none"),
               supervisor \in {"none", stop.sup}
        PROVE  /\ hb = "none" /\ \A s \in Supervisors : sup[s].pc \in {"unborn", "done"}
               /\ \A c \in Connections : conn[c].st # "up"
    <2>1. \A s \in Supervisors : sup[s].pc \in {"unborn", "done"}
      BY <1>t, <1>i, <1>r, <1>f DEF SupKnown, SupDone
    <2>2. hb = "none"
      BY <1>i, <1>f DEF HeartbeatSide
    <2>3. \A c \in Connections : conn[c].st # "up"
      BY <1>t, <1>i, <1>f, <2>1 DEF LiveOwned, LiveHeld, Live, Holding
    <2> QED
      BY <2>1, <2>2, <2>3
  <1>1. CASE stop.phase = "none" /\ FullyStopped /\ UNCHANGED <<state, disp, sup, connVars, hbVars>>
    <2>1. supervisor = "none" /\ stop.sup = "none" /\ state = "STOPPED" /\ disp = "off" /\ current = "none"
      BY <1>1, <1>i DEF FullyStopped, StopSide
    <2> QED
      BY <1>f, <1>1, <2>1 DEF connVars, hbVars
  <1>2. CASE /\ stop.phase = "draining" /\ disp' = "off" /\ UNCHANGED <<state, connVars, hbVars>>
             /\ \A s \in Supervisors : IF sup[s].pc = "draining" THEN sup'[s].pc = "done" ELSE sup'[s] = sup[s]
    <2>1. /\ state = "STOPPED" /\ current = "none" /\ SupDone(stop.sup) /\ supervisor \in {"none", stop.sup}
      BY <1>t, <1>i, <1>2 DEF StopKnows, Running, Cleared, StopSide
    <2> QED
      BY <1>f, <1>2, <2>1 DEF connVars, hbVars
  <1>3. CASE /\ stop.phase = "release" /\ ~stop.handler /\ Released("stop") /\ UNCHANGED <<disp, sup, connVars, hbVars>>
             /\ \/ ~stop.dispatcher /\ UNCHANGED state
                \/ disp = "off" /\ state' = IF state = "STOPPING" THEN "STOPPED" ELSE state
    <2>1. SupDone(stop.sup) /\ supervisor \in {"none", stop.sup}
      BY <1>i, <1>3 DEF StopKnows, StopSide
    <2>2. current = "none"
      BY <1>i, <1>3 DEF Cleared, Releaser, Released, ReleaseSide
    <2>3. state' = "STOPPED" /\ disp = "off"
      BY <1>t, <1>i, <1>3 DEF StopKnows, StopSide, Running
    <2> QED
      BY <1>f, <1>3, <2>1, <2>2, <2>3 DEF connVars, hbVars
  <1>4. CASE /\ UNCHANGED <<state, disp, sup, connVars, hbVars>> /\ disp = "off"
             /\ (stop.phase = "closes" /\ SupDone(stop.sup)) \/ stop.phase = "stopped"
    <2>1. /\ state = "STOPPED" /\ current = "none" /\ SupDone(stop.sup) /\ supervisor \in {"none", stop.sup}
      BY <1>t, <1>i, <1>4 DEF StopKnows, Running, Cleared, StopSide
    <2> QED
      BY <1>f, <1>4, <2>1 DEF connVars, hbVars
  <1> QED
    BY <1>i, <1>1, <1>2, <1>3, <1>4, HowStopReturns

\* When a stop() returns normally the client is STOPPED and has no connection, no
\* heartbeat, no supervisor and no dispatcher: for any number of stoppers, whoever
\* owned the stop and whoever joined it, if start() does not overlap and is not
\* rolling back.
THEOREM StopLeavesNothingBehind == Spec => StopLeavesNothing
  <1>1. Inv /\ [Next]_vars =>
          [\A k \in Stoppers : Returns(k) /\ ~setup.overlap /\ ~RollingBack =>
             /\ state' = "STOPPED" /\ disp' = "off" /\ hb' = "none" /\ current' = "none"
             /\ \A s \in Supervisors : sup'[s].pc \in {"unborn", "done"}
             /\ \A c \in Connections : conn'[c].st # "up"]_vars
    BY StopReturnsClean
  <1> QED
    BY <1>1, InvInvariant, PTL DEF Spec, StopLeavesNothing
=============================================================================
