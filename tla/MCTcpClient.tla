----------------------------- MODULE MCTcpClient -----------------------------
(* Instances of TcpClient for TLC. *)
EXTENDS TcpClient, TLC

CONSTANTS k1, k2, s1, s2, c1, c2

Plain == [reconnect |-> TRUE, failFast |-> FALSE, heartbeat |-> TRUE, overlap |-> FALSE,
          starts |-> 1, cancels |-> 0, stops |-> 2, handled |-> 0]

\* Cancelled calls, with and without reconnecting; a client that is started again,
\* in order or while its old life ends; and a handler that stops the client.
AllSetups == {[Plain EXCEPT !.heartbeat = FALSE, !.cancels = 1],
              [Plain EXCEPT !.starts = 2],
              [Plain EXCEPT !.reconnect = FALSE, !.cancels = 1],
              [Plain EXCEPT !.heartbeat = FALSE, !.failFast = TRUE, !.overlap = TRUE, !.starts = 2],
              [Plain EXCEPT !.stops = 1, !.handled = 1]}

\* A handler stops a client that does not reconnect.
SelfEnding == {[Plain EXCEPT !.reconnect = FALSE, !.stops = 0, !.handled = 1]}
PlainSetups == {Plain}
=============================================================================
