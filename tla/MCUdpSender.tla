----------------------------- MODULE MCUdpSender -----------------------------
(* Instances of UdpSender for TLC. *)
EXTENDS UdpSender, TLC

CONSTANTS s1, s2, s3, s4, s5, t1, t2, a, b, c

\* Three senders in turn have the address a.
Addresses == s1 :> a @@ s2 :> b @@ s3 :> a @@ s4 :> c @@ s5 :> a
Setup(native, orderly, senders, n, clock) ==
  [native |-> native, orderly |-> orderly, senders |-> senders, address |-> Addresses,
   fills |-> clock = 0, cancels |-> clock = 0, sends |-> n, clock |-> clock]

\* Loops that poll and loops that do not, careless applications and orderly ones;
\* and many short-lived senders that share the limiter.
AllSetups == {Setup(FALSE, FALSE, {s1, s2, s3}, 5, 0), Setup(TRUE, FALSE, {s1, s2, s3}, 5, 0),
              Setup(TRUE, TRUE, {s1, s2, s3}, 5, 0), Setup(FALSE, TRUE, Senders, 5, 3)}
=============================================================================
