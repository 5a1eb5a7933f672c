------------------------------ MODULE UdpSender ------------------------------
(***************************************************************************)
(* AsyncioUdpSender (asyncio_udp_sender.py) and the WarningRateLimiter its   *)
(* senders share (runtime_utils.py): send() with its lazily created socket,  *)
(* on a loop with sock_sendto() and on one where it polls, and stop(), which *)
(* closes the socket whoever is sending.                                     *)
(*                                                                          *)
(* A sender creates at most one socket that it keeps, so a socket object is  *)
(* known by its sender; its descriptor may be that of an older socket.  The  *)
(* kernel's buffers and the selector of the loop are external.              *)
(***************************************************************************)
EXTENDS Naturals, Sequences, FiniteSets

CONSTANTS
  Senders,     \* the senders of the process, on one loop
  Callers,     \* the tasks that call send()
  Keys,        \* the local addresses senders bind to
  MaxKeys,     \* limiter: max_keys
  Interval,    \* limiter: interval_seconds
  Setups       \* the loops and applications

None == "none"
Fds == 1 .. Cardinality(Senders)

ASSUME NameAssumption == None \notin Senders \cup Callers
ASSUME SenderAssumption == IsFiniteSet(Senders)
ASSUME LimiterAssumption == MaxKeys \in Nat \ {0} /\ Interval \in Nat \ {0}
ASSUME SetupAssumption ==
  Setups \subseteq [native : BOOLEAN,          \* the loop has sock_sendto()
                   orderly : BOOLEAN,         \* one send() of a sender at a time, and none when it is stopped
                   senders : SUBSET Senders,  \* those it uses
                   address : [Senders -> Keys],
                   fills : BOOLEAN,           \* the kernel's buffers may be full
                   cancels : BOOLEAN,         \* send() may be cancelled
                   sends : Nat,               \* bound: calls of send()
                   clock : Nat]               \* bound: the clock

VARIABLES
  setup,     \* loop and application; fixed
  sender,    \* sender -> _socket (its descriptor), _closed, _sendto_fallback_warning_emitted
  kernel,    \* descriptor -> the sender whose socket it is, and whether its buffer is full
  selector,  \* descriptor -> the call whose writer is registered, and whether it is polled
  call,      \* caller -> where its send() is
  table,     \* _last_logged_at, in dict order
  now,       \* time.monotonic()
  sends,     \* calls of send() so far
  ghost      \* history: when a key was logged, when it entered the table, entries so far

vars == <<setup, sender, kernel, selector, call, table, now, sends, ghost>>

-----------------------------------------------------------------------------
Idle == [pc |-> "idle", of |-> None]
NoWriter == [call |-> None, polled |-> FALSE]
Never == [at |-> 0, born |-> 0]

Init ==
  /\ setup \in Setups
  /\ sender = [s \in Senders |-> [socket |-> 0, closed |-> FALSE, warned |-> FALSE]]
  /\ kernel = [f \in Fds |-> [of |-> None, full |-> FALSE]]
  /\ selector = [f \in Fds |-> NoWriter]
  /\ call = [t \in Callers |-> Idle]
  /\ table = <<>> /\ now = 0 /\ sends = 0
  /\ ghost = [key |-> [k \in Keys |-> Never], count |-> 0]

Address(s) == setup.address[s]
Suspended(t) == call[t].pc \in {"waiting", "polling"}
Busy(s) == \E t \in Callers : Suspended(t) /\ call[t].of = s

-----------------------------------------------------------------------------
(***************************************************************************)
(* WarningRateLimiter.should_log().  An operator whose name has a suffix    *)
(* (X_Suffix) is X with one seeded fault; no action uses it.                *)
(***************************************************************************)
Known(k) == \E i \in DOMAIN table : table[i].key = k
ShouldLog(k) == \A i \in DOMAIN table : table[i].key = k => now - table[i].at >= Interval

\* An entry that is there keeps its place; a new one evicts the first of a full table.
TableAfter_KeepsTime(k) ==
  IF Known(k) THEN table
  ELSE Append(IF Len(table) >= MaxKeys THEN Tail(table) ELSE table, [key |-> k, at |-> now])
TableAfter(k) ==
  IF Known(k)
  THEN [i \in DOMAIN table |-> IF table[i].key = k THEN [table[i] EXCEPT !.at = now] ELSE table[i]]
  ELSE Append(IF Len(table) >= MaxKeys THEN Tail(table) ELSE table, [key |-> k, at |-> now])

\* The warning of the polling fallback, once per sender.
Warns(s) ==
  LET k == Address(s)
      entries == ghost.count + (IF Known(k) THEN 0 ELSE 1)
  IN  IF ~sender[s].warned /\ ShouldLog(k)
      THEN /\ table' = TableAfter(k)
           /\ ghost' = [key |-> [ghost.key EXCEPT ![k] =
                                   [at |-> now + 1, born |-> IF Known(k) THEN @.born ELSE entries]],
                        count |-> entries]
      ELSE UNCHANGED <<table, ghost>>

-----------------------------------------------------------------------------
(***************************************************************************)
(* send().                                                                  *)
(***************************************************************************)
Done(t, outcome) == call' = [call EXCEPT ![t] = [pc |-> outcome, of |-> None]]

\* The datagram is in the kernel, which may have no room for another.
Sent(f) == \E full \in {FALSE, setup.fills} : kernel' = [kernel EXCEPT ![f].full = full]

\* _ensure_socket(): bind() takes the lowest free descriptor, and fails if the
\* address is in use or is not to be had; then nothing is kept.
Lowest(S) == CHOOSE f \in S : \A g \in S : f <= g
Bindable(s) == \A f \in Fds : kernel[f].of # None => Address(kernel[f].of) # Address(s)
NewSocket == Lowest({f \in Fds : kernel[f].of = None})

\* loop.sock_sendto() of a call that finds the buffer full.  A writer registered
\* for the descriptor is replaced; the selector polls a descriptor from its
\* registration on, and a registration outlives the socket.
AddWriter(f, t) ==
  selector' = [selector EXCEPT ![f] =
                 [call |-> t, polled |-> IF @.call = None THEN TRUE ELSE @.polled]]

\* What _send_nonblocking() does before it suspends, with descriptor f of sender s.
FirstTry(t, s, f, full) ==
  /\ sender' = [sender EXCEPT ![s].socket = f, ![s].warned = @ \/ ~setup.native]
  /\ IF setup.native THEN UNCHANGED <<table, ghost>> ELSE Warns(s)
  /\ IF full
     THEN /\ call' = [call EXCEPT ![t] = [pc |-> IF setup.native THEN "waiting" ELSE "polling", of |-> s]]
          /\ IF setup.native THEN AddWriter(f, t) ELSE UNCHANGED selector
          /\ kernel' = [kernel EXCEPT ![f].of = s]
     ELSE /\ Done(t, "sent")
          /\ \E fills \in {FALSE, setup.fills} : kernel' = [kernel EXCEPT ![f] = [of |-> s, full |-> fills]]
          /\ UNCHANGED selector

SendCalled(t, s) ==
  /\ ~Suspended(t) /\ t = CHOOSE u \in Callers : ~Suspended(u)
  /\ s \in setup.senders /\ sends < setup.sends
  /\ setup.orderly => ~Busy(s)
  /\ sends' = sends + 1
  /\ IF sender[s].closed
     THEN Done(t, "raised") /\ UNCHANGED <<sender, kernel, selector, table, ghost>>
     ELSE IF sender[s].socket # 0
     THEN FirstTry(t, s, sender[s].socket, kernel[sender[s].socket].full)
     ELSE \/ /\ Done(t, "raised")
             /\ UNCHANGED <<sender, kernel, selector, table, ghost>>
          \/ Bindable(s) /\ FirstTry(t, s, NewSocket, FALSE)
  /\ UNCHANGED <<setup, now>>

\* The descriptor is writable and its writer runs: it sends, and is removed.
WriterRuns(f) ==
  /\ selector[f].polled /\ kernel[f].of # None /\ ~kernel[f].full
  /\ Done(selector[f].call, "sent")
  /\ Sent(f)
  /\ selector' = [selector EXCEPT ![f] = NoWriter]
  /\ UNCHANGED <<setup, sender, table, now, sends, ghost>>

\* The fallback wakes up and tries again; a closed socket raises OSError.
Polls_Reopens(t) ==
  /\ call[t].pc = "polling"
  /\ LET s == call[t].of
         f == IF sender[s].socket = 0 THEN NewSocket ELSE sender[s].socket
     IN  /\ ~kernel[f].full /\ Done(t, "sent")
         /\ kernel' = [kernel EXCEPT ![f].of = s]
         /\ sender' = [sender EXCEPT ![s].socket = f]
  /\ UNCHANGED <<setup, selector, table, now, sends, ghost>>
Polls_Retries(t) ==
  /\ call[t].pc = "polling"
  /\ LET f == sender[call[t].of].socket
     IN  f # 0 /\ ~kernel[f].full /\ Done(t, "sent") /\ Sent(f)
  /\ UNCHANGED <<setup, sender, selector, table, now, sends, ghost>>
Polls(t) ==
  /\ call[t].pc = "polling"
  /\ LET f == sender[call[t].of].socket
     IN  \/ f = 0 /\ Done(t, "raised") /\ UNCHANGED kernel
         \/ f # 0 /\ ~kernel[f].full /\ Done(t, "sent") /\ Sent(f)
  /\ UNCHANGED <<setup, sender, selector, table, now, sends, ghost>>

\* A cancelled sock_sendto() removes its writer, unless that has been replaced.
SendCancelled(t) ==
  /\ setup.cancels /\ Suspended(t)
  /\ Done(t, "raised")
  /\ selector' = [f \in Fds |-> IF selector[f].call = t THEN NoWriter ELSE selector[f]]
  /\ UNCHANGED <<setup, sender, kernel, table, now, sends, ghost>>

-----------------------------------------------------------------------------
\* stop(), also from __aexit__().  A closed descriptor is polled no more; its
\* registration stays.
Stop(s) ==
  /\ s \in setup.senders /\ ~sender[s].closed
  /\ setup.orderly => ~Busy(s)
  /\ LET f == sender[s].socket
     IN  /\ sender' = [sender EXCEPT ![s].closed = TRUE, ![s].socket = 0]
         /\ IF f = 0 THEN UNCHANGED <<kernel, selector>>
            ELSE /\ kernel' = [kernel EXCEPT ![f] = [of |-> None, full |-> FALSE]]
                 /\ selector' = [selector EXCEPT ![f].polled = FALSE]
  /\ UNCHANGED <<setup, call, table, now, sends, ghost>>

Drains(f) ==
  /\ kernel[f].full
  /\ kernel' = [kernel EXCEPT ![f].full = FALSE]
  /\ UNCHANGED <<setup, sender, selector, call, table, now, sends, ghost>>

Tick ==
  /\ now < setup.clock
  /\ now' = now + 1
  /\ UNCHANGED <<setup, sender, kernel, selector, call, table, sends, ghost>>

Next ==
  \/ \E t \in Callers : Polls(t) \/ SendCancelled(t) \/ \E s \in Senders : SendCalled(t, s)
  \/ \E s \in Senders : Stop(s)
  \/ \E f \in Fds : WriterRuns(f) \/ Drains(f)
  \/ Tick

Spec == Init /\ [][Next]_vars

\* The kernel sends what it has, the loop runs ready writers and due timers.
Fairness ==
  /\ \A f \in Fds : WF_vars(Drains(f)) /\ WF_vars(WriterRuns(f))
  /\ \A t \in Callers : WF_vars(Polls(t))

FairSpec == Spec /\ Fairness

-----------------------------------------------------------------------------
(***************************************************************************)
(* Properties.                                                              *)
(***************************************************************************)
\* Every open socket is the one its sender keeps, and a stopped sender keeps none.
SocketsOwned ==
  /\ \A f \in Fds : kernel[f].of # None => sender[kernel[f].of].socket = f
  /\ \A s \in Senders : sender[s].socket # 0 =>
       ~sender[s].closed /\ kernel[sender[s].socket].of = s

\* stop() is for good: no socket is leaked or created again, and no datagram of
\* the sender leaves after it, although calls of send() may be suspended with the
\* socket or its descriptor, which another sender may get.
StopIsFinal ==
  [][/\ SocketsOwned'
     /\ \A t \in Callers : Suspended(t) /\ call'[t].pc = "sent" => ~sender[call[t].of].closed]_vars

\* send() returns: always where it polls, also when the sender is stopped
\* meanwhile; with sock_sendto(), when the application sends in order.
SendsReturn ==
  ~setup.native \/ setup.orderly => \A t \in Callers : Suspended(t) ~> ~Suspended(t)

\* The limiter is bounded, and lets a key through twice within its interval only
\* when max_keys other keys have entered the table since that key did.
LimiterKeepsPromise ==
  /\ [](Len(table) <= MaxKeys)
  /\ [][\A k \in Keys :
          ghost.key[k] # Never /\ ghost'.key[k] # ghost.key[k] =>
            \/ now + 1 - ghost.key[k].at >= Interval
            \/ ghost.count - ghost.key[k].born >= MaxKeys]_vars
=============================================================================
