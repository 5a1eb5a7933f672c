-------------------------- MODULE MCTcpConnection --------------------------
(* Instances of TcpConnection for TLC. *)
EXTENDS TcpConnection, TLC

CONSTANTS k1, k2

\* Applications with every way to close, fail and cancel.
AllSetups == [mode : {"INLINE"}, outside : {TRUE}, closes : BOOLEAN, raises : {TRUE},
              callbacks : BOOLEAN, cancel : {TRUE}]
             \cup [mode : {"BACKGROUND"}, outside : {TRUE}, closes : BOOLEAN, raises : {FALSE},
                   callbacks : BOOLEAN, cancel : {TRUE}]

\* Those whose close() returns: outside tasks close and a worker delivers, or
\* the handler alone closes and delivery is inline.
ClosingSetups == {[mode |-> "BACKGROUND", outside |-> TRUE, closes |-> FALSE, raises |-> FALSE,
                   callbacks |-> TRUE, cancel |-> FALSE],
                  [mode |-> "INLINE", outside |-> FALSE, closes |-> TRUE, raises |-> FALSE,
                   callbacks |-> TRUE, cancel |-> FALSE]}

\* Outside tasks and the inline handler close.
BothClose == {[mode |-> "INLINE", outside |-> TRUE, closes |-> TRUE, raises |-> FALSE,
               callbacks |-> FALSE, cancel |-> FALSE]}

\* What drop_queued_events_for_resource() leaves, on all short queues.
ASSUME Filters == \A n \in 0 .. 4 : \A q \in [1 .. n -> Events] :
                    WithoutBytes(q) = SelectSeq(q, LAMBDA e : e # "bytes")

CloserSymmetry == Permutations(Closers)
=============================================================================
