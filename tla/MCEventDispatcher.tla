-------------------------- MODULE MCEventDispatcher --------------------------
(* Instances of EventDispatcher for TLC. *)
EXTENDS EventDispatcher, TLC

CONSTANTS p1, p2, c1, w

\* emit() of a payload event; emit_and_wait() with and without
\* drop_on_backpressure.
Payload == [bytes |-> TRUE, wait |-> FALSE, keep |-> FALSE]
Barrier == [bytes |-> FALSE, wait |-> TRUE, keep |-> FALSE]
KeptBarrier == [bytes |-> FALSE, wait |-> TRUE, keep |-> TRUE]

PayloadAndBarrier == {Payload, Barrier}
AllKinds == {Payload, Barrier, KeptBarrier}
PayloadOnly == {Payload}

\* A worker and blocking producers; a failed handler is followed by a control event
\* and the stop callback, the longest of the policies.
Blocking == [mode : {"BACKGROUND"}, backpressure : {"BLOCK"},
             failure : {"STOP_COMPONENT"}, inline : {{}}]

\* The policies that drop, inline delivery, and blocking with nested handlers.
Dropping == [mode : {"BACKGROUND"}, backpressure : {"DROP_OLDEST"},
             failure : {"STOP_COMPONENT", "RAISE_IN_INLINE_MODE"}, inline : {{}}]
            \cup [mode : {"BACKGROUND"}, backpressure : {"DROP_NEWEST"},
                  failure : {"EMIT_ERROR_EVENT"}, inline : {{}, {p1}, {p2}}]
            \cup [mode : {"INLINE", "BACKGROUND"}, backpressure : {"BLOCK"},
                  failure : {"EMIT_ERROR_EVENT"}, inline : {{}}]

Plainest == [mode : {"BACKGROUND"}, backpressure : {"BLOCK"},
             failure : {"LOG_ONLY"}, inline : {{}}]

\* The producers are interchangeable: the sets of settings above are closed
\* under their permutations.
ProducerSymmetry == Permutations(Producers)
=============================================================================
