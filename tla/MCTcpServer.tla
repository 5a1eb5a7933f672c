----------------------------- MODULE MCTcpServer -----------------------------
(* Instances of TcpServer for TLC. *)
EXTENDS TcpServer, TLC

CONSTANTS k1, k2, c1, c2

Plain == [limit |-> 2, heartbeat |-> FALSE, waits |-> FALSE, handlerStops |-> FALSE,
          overlap |-> FALSE, starts |-> 1, cancels |-> 0, stops |-> 1, handled |-> 0,
          casts |-> 0]

\* Two clients for one slot, and a broadcast; heartbeats, with cancellation; a
\* handler that stops a server with heartbeats; restarts that overlap an old life.
AllSetups == {[Plain EXCEPT !.limit = 1, !.casts = 1, !.waits = TRUE, !.starts = 2],
              [Plain EXCEPT !.heartbeat = TRUE, !.waits = TRUE, !.cancels = 1, !.stops = 2],
              [Plain EXCEPT !.heartbeat = TRUE, !.handlerStops = TRUE, !.handled = 1],
              [Plain EXCEPT !.limit = 1, !.handlerStops = TRUE, !.handled = 1, !.overlap = TRUE,
                            !.starts = 2]}
=============================================================================
