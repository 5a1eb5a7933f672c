--------------------------- MODULE UdpSenderProofs ---------------------------
(***************************************************************************)
(* stop() of a UDP sender is final and the limiter its senders share keeps   *)
(* its promise, for every number of senders and callers, every assignment of *)
(* addresses, every loop and every bound.                                    *)
(***************************************************************************)
EXTENDS UdpSender, FiniteSetTheorems, WellFoundedInduction, SequenceTheorems, TLAPS

Sockets == [socket : Fds \cup {0}, closed : BOOLEAN, warned : BOOLEAN]
Descriptors == [of : Senders \cup {None}, full : BOOLEAN]
Writers == [call : Callers \cup {None}, polled : BOOLEAN]
Calls == [pc : {"idle", "waiting", "polling", "sent", "raised"}, of : Senders \cup {None}]
Entry == [key : Keys, at : Nat]
Logged == [at : Nat, born : Nat]

\* The types of the variables; a suspended call belongs to a sender.
TypeOK ==
  /\ setup \in Setups
  /\ sender \in [Senders -> Sockets]
  /\ kernel \in [Fds -> Descriptors]
  /\ selector \in [Fds -> Writers]
  /\ call \in [Callers -> Calls]
  /\ \A t \in Callers : Suspended(t) => call[t].of \in Senders
  /\ table \in Seq(Entry) /\ now \in Nat /\ sends \in Nat
  /\ ghost \in [key : [Keys -> Logged], count : Nat]

\* A descriptor the selector polls is open, and its writer is that of a call
\* suspended for the sender that owns it.
PolledByOwner ==
  \A f \in Fds : selector[f].polled =>
    /\ selector[f].call \in Callers
    /\ call[selector[f].call].pc = "waiting"
    /\ call[selector[f].call].of = kernel[f].of
    /\ kernel[f].of # None

\* What the table and its history have to do with each other: a key is in the
\* table at most once and with the time it was last logged, keys stand in the
\* order in which they entered, and one that has left saw max_keys others enter.
TableTellsHistory ==
  /\ Len(table) <= MaxKeys
  /\ \A i, j \in DOMAIN table : table[i].key = table[j].key => i = j
  /\ \A i \in DOMAIN table : /\ ghost.key[table[i].key].at = table[i].at + 1
                             /\ ghost.key[table[i].key].born + Len(table) = ghost.count + i
  /\ \A k \in Keys : ~Known(k) /\ ghost.key[k] # Never =>
                       ghost.count - ghost.key[k].born >= MaxKeys

SenderInv == TypeOK /\ SocketsOwned /\ PolledByOwner
LimiterInv == TypeOK /\ TableTellsHistory

-----------------------------------------------------------------------------
(***************************************************************************)
(* Descriptors.                                                             *)
(***************************************************************************)
\* Lowest() of a set of descriptors is one of them.  The least number is the
\* one below which the fewest members of the set lie.
LEMMA LowestIsOne ==
  ASSUME NEW S \in SUBSET Nat, S # {}
  PROVE  Lowest(S) \in S
  <1> DEFINE Below(x) == {y \in S : y <= x}
             belows == {Below(x) : x \in S}
  <1>1. \A x \in S : IsFiniteSet(Below(x))
    <2> TAKE x \in S
    <2>1. Below(x) \in SUBSET Nat /\ \A y \in Below(x) : y <= x
      OBVIOUS
    <2> QED
      BY <2>1, FS_BoundedSetOfNaturals
  <1>2. belows \subseteq FiniteSubsetsOf(S)
    BY <1>1 DEF FiniteSubsetsOf
  <1>3. PICK B \in belows : \A C \in belows : ~(<<C, B>> \in StrictSubsetOrdering(S))
    <2>1. belows # {}
      OBVIOUS
    <2>2. IsWellFoundedOn(StrictSubsetOrdering(S), FiniteSubsetsOf(S))
      BY FS_StrictSubsetOrderingWellFounded
    <2> HIDE DEF belows
    <2> QED
      BY <1>2, <2>1, <2>2, WFMin
  <1>4. PICK x \in S : B = Below(x)
    OBVIOUS
  <1>5. ASSUME NEW y \in S PROVE x <= y
    <2> SUFFICES ASSUME y < x PROVE FALSE
      OBVIOUS
    <2>0. S \subseteq Nat /\ x \in Nat /\ y \in Nat
      OBVIOUS
    <2>1. Below(y) \subseteq Below(x) /\ x \in Below(x) /\ x \notin Below(y)
      <3>1. \A z \in Nat : z <= y => z <= x
        BY <2>0
      <3>2. x <= x /\ ~(x <= y)
        BY <2>0
      <3> QED
        BY <2>0, <3>1, <3>2
    <2>2. <<Below(y), Below(x)>> \in StrictSubsetOrdering(S)
      BY <2>1 DEF StrictSubsetOrdering
    <2> QED
      BY <1>3, <1>4, <2>2
  <1> QED
    BY <1>5 DEF Lowest

\* A sender without a socket finds a free descriptor: there are as many as senders,
\* and every open one is the socket of another sender.
LEMMA FreeDescriptor ==
  ASSUME TypeOK, SocketsOwned, NEW s \in Senders, sender[s].socket = 0
  PROVE  NewSocket \in Fds /\ kernel[NewSocket].of = None
  <1> DEFINE free == {f \in Fds : kernel[f].of = None}
             others == Senders \ {s}
             owner == [f \in Fds |-> kernel[f].of]
  <1>1. Cardinality(Senders) \in Nat /\ IsFiniteSet(Fds) /\ Cardinality(Fds) = Cardinality(Senders)
    BY SenderAssumption, FS_CardinalityType, FS_Interval DEF Fds
  <1>2. IsFiniteSet(others) /\ Cardinality(others) < Cardinality(Fds)
    <2>1. IsFiniteSet(others) /\ Cardinality(others) = Cardinality(Senders) - 1
      BY SenderAssumption, FS_RemoveElement
    <2> QED
      BY <1>1, <2>1
  <1>3. free # {}
    <2> SUFFICES ASSUME free = {} PROVE FALSE
      OBVIOUS
    <2>1. \A f \in Fds : kernel[f].of \in Senders /\ sender[kernel[f].of].socket = f
      BY DEF TypeOK, Descriptors, SocketsOwned
    <2>2. owner \in [Fds -> others]
      BY <2>1 DEF Fds
    <2>3. \E f, g \in Fds : f # g /\ owner[f] = owner[g]
      <3> HIDE DEF owner, others
      <3> QED
        BY <1>1, <1>2, <2>2, FS_PigeonHole
    <2> QED
      BY <2>1, <2>3
  <1>4. free \in SUBSET Nat
    BY DEF Fds
  <1>5. NewSocket \in free
    BY <1>3, <1>4, LowestIsOne DEF NewSocket
  <1> QED
    BY <1>5

-----------------------------------------------------------------------------
(***************************************************************************)
(* Types.                                                                   *)
(***************************************************************************)
\* The limiter after a call: the same sort of table and history.
LEMMA TableType ==
  ASSUME TypeOK, NEW k \in Keys
  PROVE  TableAfter(k) \in Seq(Entry)
  <1>1. CASE Known(k)
    <2>1. /\ DOMAIN table = 1 .. Len(table) /\ Len(table) \in Nat
          /\ \A i \in 1 .. Len(table) : table[i] \in Entry
      BY LenProperties, ElementOfSeq DEF TypeOK
    <2>2. TableAfter(k) \in [1 .. Len(table) -> Entry]
      BY <1>1, <2>1 DEF TableAfter, Entry, TypeOK
    <2> QED
      BY <2>1, <2>2
  <1>2. CASE ~Known(k)
    <2>1. [key |-> k, at |-> now] \in Entry
      BY DEF Entry, TypeOK
    <2>2. table \in Seq(Entry)
      BY DEF TypeOK
    <2>3. Len(table) >= MaxKeys => Tail(table) \in Seq(Entry)
      BY <2>2, LimiterAssumption, HeadTailProperties, EmptySeq
    <2> QED
      BY <1>2, <2>1, <2>2, <2>3, AppendProperties DEF TableAfter
  <1> QED
    BY <1>1, <1>2

\* The warning of the fallback leaves a table and a history.
LEMMA WarnsType ==
  ASSUME TypeOK, NEW s \in Senders, Warns(s)
  PROVE  table' \in Seq(Entry) /\ ghost' \in [key : [Keys -> Logged], count : Nat]
  <1>1. Address(s) \in Keys
    BY SetupAssumption DEF Address, TypeOK
  <1>2. table' \in Seq(Entry)
    BY <1>1, TableType DEF Warns, TypeOK
  <1>3. ghost' \in [key : [Keys -> Logged], count : Nat]
    <2>1. CASE ~sender[s].warned /\ ShouldLog(Address(s))
      <3> DEFINE entries == ghost.count + (IF Known(Address(s)) THEN 0 ELSE 1)
                 old == ghost.key[Address(s)]
      <3>1. entries \in Nat /\ old \in Logged /\ now + 1 \in Nat
        BY <1>1 DEF TypeOK
      <3>2. [at |-> now + 1, born |-> IF Known(Address(s)) THEN old.born ELSE entries] \in Logged
        BY <3>1 DEF Logged
      <3> QED
        BY <1>1, <2>1, <3>1, <3>2 DEF Warns, TypeOK
    <2>2. CASE ~(~sender[s].warned /\ ShouldLog(Address(s)))
      BY <2>2 DEF Warns, TypeOK
    <2> QED
      BY <2>1, <2>2
  <1> QED
    BY <1>2, <1>3

\* What a step writes into the record of a sender keeps its type.
LEMMA SocketUpdates ==
  ASSUME NEW m \in [Senders -> Sockets], NEW s \in Senders, NEW f \in Fds \cup {0}, NEW b \in BOOLEAN
  PROVE  /\ [m EXCEPT ![s].socket = f, ![s].warned = b] \in [Senders -> Sockets]
         /\ [m EXCEPT ![s].closed = b, ![s].socket = f] \in [Senders -> Sockets]
  BY DEF Sockets

\* The same for a descriptor of the kernel ...
LEMMA DescriptorUpdates ==
  ASSUME NEW m \in [Fds -> Descriptors], NEW f \in Fds, NEW b \in BOOLEAN, NEW s \in Senders \cup {None}
  PROVE  /\ [m EXCEPT ![f].full = b] \in [Fds -> Descriptors]
         /\ [m EXCEPT ![f] = [of |-> s, full |-> b]] \in [Fds -> Descriptors]
  BY DEF Descriptors

\* ... and for one of the selector.
LEMMA WriterUpdates ==
  ASSUME NEW m \in [Fds -> Writers], NEW f \in Fds, NEW b \in BOOLEAN, NEW t \in Callers \cup {None}
  PROVE  [m EXCEPT ![f] = [call |-> t, polled |-> b]] \in [Fds -> Writers]
  BY DEF Writers

\* send() raises and changes nothing, or tries with the socket its sender has or
\* with a new one.
LEMMA SendTries ==
  ASSUME SenderInv, NEW t \in Callers, NEW s \in Senders, SendCalled(t, s)
  PROVE  \/ Done(t, "raised") /\ UNCHANGED <<sender, kernel, selector, table, ghost>>
         \/ \E f \in Fds, full \in BOOLEAN :
              /\ FirstTry(t, s, f, full) /\ ~sender[s].closed
              /\ \/ sender[s].socket = f /\ kernel[f].of = s
                 \/ sender[s].socket = 0 /\ kernel[f].of = None /\ ~full
  <1>1. CASE sender[s].closed
    BY <1>1 DEF SendCalled
  <1>2. CASE ~sender[s].closed /\ sender[s].socket # 0
    <2>1. sender[s].socket \in Fds
      BY <1>2 DEF SenderInv, TypeOK, Sockets
    <2>2. kernel[sender[s].socket].full \in BOOLEAN /\ kernel[sender[s].socket].of = s
      BY <1>2, <2>1 DEF SenderInv, TypeOK, Descriptors, SocketsOwned
    <2>3. FirstTry(t, s, sender[s].socket, kernel[sender[s].socket].full)
      BY <1>2 DEF SendCalled
    <2> QED
      BY <1>2, <2>1, <2>2, <2>3
  <1>3. CASE ~sender[s].closed /\ sender[s].socket = 0
    <2>1. NewSocket \in Fds /\ kernel[NewSocket].of = None
      BY <1>3, FreeDescriptor DEF SenderInv
    <2>2. \/ Done(t, "raised") /\ UNCHANGED <<sender, kernel, selector, table, ghost>>
          \/ FirstTry(t, s, NewSocket, FALSE)
      BY <1>3 DEF SendCalled
    <2> QED
      BY <1>3, <2>1, <2>2
  <1> QED
    BY <1>1, <1>2, <1>3

\* Every action keeps the types.
LEMMA TypeStep == SenderInv /\ [Next]_vars => TypeOK'
  <1> SUFFICES ASSUME SenderInv, [Next]_vars PROVE TypeOK'
    OBVIOUS
  <1>t. /\ sender \in [Senders -> Sockets]
        /\ kernel \in [Fds -> Descriptors]
        /\ selector \in [Fds -> Writers]
        /\ call \in [Callers -> Calls]
        /\ \A t \in Callers : Suspended(t) => call[t].of \in Senders
        /\ setup \in Setups /\ setup.native \in BOOLEAN /\ setup.fills \in BOOLEAN
    BY SetupAssumption DEF SenderInv, TypeOK
  <1>b. \A b \in {FALSE, setup.fills} : b \in BOOLEAN
    BY <1>t
  <1>s. ASSUME NEW f \in Fds, Sent(f) PROVE kernel' \in [Fds -> Descriptors]
    <2>1. PICK b \in BOOLEAN : kernel' = [kernel EXCEPT ![f].full = b]
      BY <1>b, <1>s DEF Sent
    <2> QED
      BY <1>t, <2>1, DescriptorUpdates
  <1>d. ASSUME NEW t \in Callers, NEW o \in {"sent", "raised"}, Done(t, o)
        PROVE  /\ call' \in [Callers -> Calls]
               /\ \A u \in Callers : Suspended(u)' => call'[u].of \in Senders
    BY <1>t, <1>d DEF Done, Suspended, Calls
  <1>1. ASSUME NEW t \in Callers, NEW s \in Senders, SendCalled(t, s) PROVE TypeOK'
    <2>1. setup' = setup /\ now' = now /\ sends' = sends + 1
      BY <1>1 DEF SendCalled
    <2>2. CASE Done(t, "raised") /\ UNCHANGED <<sender, kernel, selector, table, ghost>>
      BY <1>d, <2>1, <2>2 DEF SenderInv, TypeOK
    <2>3. ASSUME NEW f \in Fds, NEW full \in BOOLEAN, FirstTry(t, s, f, full) PROVE TypeOK'
      <3>1. sender' \in [Senders -> Sockets]
        <4>1. sender[s].warned \in BOOLEAN
          BY <1>t DEF Sockets
        <4>2. PICK b \in BOOLEAN : sender' = [sender EXCEPT ![s].socket = f, ![s].warned = b]
          BY <1>t, <2>3, <4>1 DEF FirstTry
        <4> QED
          BY <1>t, <4>2, SocketUpdates
      <3>2. table' \in Seq(Entry) /\ ghost' \in [key : [Keys -> Logged], count : Nat]
        BY <2>3, WarnsType DEF FirstTry, SenderInv, TypeOK
      <3>3. kernel' \in [Fds -> Descriptors]
        <4>1. CASE full
          <5>1. kernel' = [kernel EXCEPT ![f].of = s]
            BY <2>3, <4>1 DEF FirstTry
          <5> QED
            BY <1>t, <5>1 DEF Descriptors
        <4>2. CASE ~full
          <5>1. PICK b \in BOOLEAN : kernel' = [kernel EXCEPT ![f] = [of |-> s, full |-> b]]
            BY <1>b, <2>3, <4>2 DEF FirstTry
          <5> QED
            BY <1>t, <5>1, DescriptorUpdates
        <4> QED
          BY <4>1, <4>2
      <3>w. selector' \in [Fds -> Writers]
        <4>1. selector[f].polled \in BOOLEAN
          BY <1>t DEF Writers
        <4>2. \/ UNCHANGED selector
              \/ \E b \in BOOLEAN : selector' = [selector EXCEPT ![f] = [call |-> t, polled |-> b]]
          BY <1>t, <2>3, <4>1 DEF FirstTry, AddWriter
        <4>3. ASSUME NEW b \in BOOLEAN, selector' = [selector EXCEPT ![f] = [call |-> t, polled |-> b]]
              PROVE  selector' \in [Fds -> Writers]
          BY <1>t, <4>3, WriterUpdates
        <4> QED
          BY <1>t, <4>2, <4>3
      <3>4. /\ call' \in [Callers -> Calls]
            /\ \A u \in Callers : Suspended(u)' => call'[u].of \in Senders
        <4>1. CASE full
          BY <1>t, <2>3, <4>1 DEF FirstTry, Suspended, Calls
        <4> QED
          BY <1>d, <2>3, <4>1 DEF FirstTry
      <3> QED
        BY <2>1, <3>1, <3>2, <3>3, <3>w, <3>4 DEF SenderInv, TypeOK
    <2> QED
      BY <1>1, <2>2, <2>3, SendTries
  <1>2. ASSUME NEW f \in Fds, WriterRuns(f) PROVE TypeOK'
    <2>1. selector[f].call \in Callers
      BY <1>2 DEF WriterRuns, SenderInv, PolledByOwner
    <2>2. kernel' \in [Fds -> Descriptors]
      BY <1>s, <1>2 DEF WriterRuns
    <2>3. selector' \in [Fds -> Writers]
      BY <1>t, <1>2, WriterUpdates DEF WriterRuns, NoWriter
    <2> QED
      BY <1>d, <1>2, <2>1, <2>2, <2>3 DEF WriterRuns, SenderInv, TypeOK
  <1>3. ASSUME NEW t \in Callers, Polls(t) PROVE TypeOK'
    <2>1. kernel' \in [Fds -> Descriptors]
      <3>1. Suspended(t) /\ call[t].of \in Senders
        BY <1>t, <1>3 DEF Polls, Suspended
      <3>2. sender[call[t].of].socket \in Fds \cup {0}
        BY <1>t, <3>1 DEF Sockets
      <3> QED
        BY <1>t, <1>s, <1>3, <3>2 DEF Polls
    <2> QED
      BY <1>d, <1>3, <2>1 DEF Polls, SenderInv, TypeOK
  <1>4. ASSUME NEW t \in Callers, SendCancelled(t) PROVE TypeOK'
    <2>1. selector' \in [Fds -> Writers]
      BY <1>t, <1>4 DEF SendCancelled, NoWriter, Writers
    <2> QED
      BY <1>d, <1>4, <2>1 DEF SendCancelled, SenderInv, TypeOK
  <1>5. ASSUME NEW s \in Senders, Stop(s) PROVE TypeOK'
    <2>1. /\ sender' \in [Senders -> Sockets]
          /\ kernel' \in [Fds -> Descriptors]
          /\ selector' \in [Fds -> Writers]
      <3>1. sender[s].socket \in Fds \cup {0}
        BY <1>t DEF Sockets
      <3>2. sender' \in [Senders -> Sockets]
        BY <1>t, <1>5, SocketUpdates DEF Stop
      <3>3. CASE sender[s].socket = 0
        BY <1>t, <1>5, <3>2, <3>3 DEF Stop
      <3>4. CASE sender[s].socket \in Fds /\ sender[s].socket # 0
        <4>1. kernel' \in [Fds -> Descriptors]
          <5>1. PICK f \in Fds : kernel' = [kernel EXCEPT ![f] = [of |-> None, full |-> FALSE]]
            BY <1>5, <3>4 DEF Stop
          <5> QED
            BY <1>t, <5>1, DescriptorUpdates
        <4>2. selector' \in [Fds -> Writers]
          <5>1. PICK f \in Fds : selector' = [selector EXCEPT ![f].polled = FALSE]
            BY <1>5, <3>4 DEF Stop
          <5> QED
            BY <1>t, <5>1 DEF Writers
        <4> QED
          BY <3>2, <4>1, <4>2
      <3> QED
        BY <3>1, <3>3, <3>4
    <2> QED
      BY <1>5, <2>1 DEF Stop, Suspended, SenderInv, TypeOK
  <1>6. ASSUME NEW f \in Fds, Drains(f) PROVE TypeOK'
    BY <1>t, <1>6, DescriptorUpdates DEF Drains, Suspended, SenderInv, TypeOK
  <1>7. CASE Tick
    BY <1>7 DEF Tick, Suspended, SenderInv, TypeOK
  <1>8. CASE UNCHANGED vars
    BY <1>8 DEF vars, Suspended, SenderInv, TypeOK
  <1> QED
    BY <1>1, <1>2, <1>3, <1>4, <1>5, <1>6, <1>7, <1>8 DEF Next

-----------------------------------------------------------------------------
(***************************************************************************)
(* stop() is final.                                                         *)
(***************************************************************************)
\* A call that is not suspended is not behind a descriptor that is polled, and
\* no two polled descriptors have the same call behind them.
LEMMA PolledCalls ==
  ASSUME SenderInv
  PROVE  /\ \A f \in Fds : selector[f].polled => Suspended(selector[f].call)
         /\ \A f, g \in Fds : /\ selector[f].polled /\ selector[g].polled
                              /\ selector[f].call = selector[g].call
                              => f = g
  BY DEF SenderInv, PolledByOwner, SocketsOwned, Suspended

\* Every action keeps sockets with their senders, and writers with the calls of
\* the owner.
LEMMA OwnedStep == SenderInv /\ [Next]_vars => SocketsOwned' /\ PolledByOwner'
  <1> SUFFICES ASSUME SenderInv, [Next]_vars PROVE SocketsOwned' /\ PolledByOwner'
    OBVIOUS
  <1> USE DEF SocketsOwned, PolledByOwner
  <1>t. /\ SocketsOwned /\ PolledByOwner
        /\ sender \in [Senders -> Sockets] /\ kernel \in [Fds -> Descriptors]
        /\ selector \in [Fds -> Writers] /\ call \in [Callers -> Calls]
        /\ None \notin Senders /\ None \notin Callers /\ 0 \notin Fds
        /\ \A f \in Fds : kernel[f].of # None => kernel[f].of \in Senders
        /\ \A s \in Senders : sender[s].socket # 0 => sender[s].socket \in Fds
    BY NameAssumption DEF SenderInv, TypeOK, Descriptors, Sockets, Fds
  <1>1. ASSUME NEW t \in Callers, NEW s \in Senders, SendCalled(t, s)
        PROVE  SocketsOwned' /\ PolledByOwner'
    <2>1. \A f \in Fds : selector[f].polled => selector[f].call # t
      BY <1>1, PolledCalls DEF SendCalled
    <2>2. CASE Done(t, "raised") /\ UNCHANGED <<sender, kernel, selector, table, ghost>>
      BY <1>t, <2>1, <2>2 DEF Done
    <2>3. ASSUME NEW f \in Fds, NEW full \in BOOLEAN, FirstTry(t, s, f, full), ~sender[s].closed,
                 \/ sender[s].socket = f /\ kernel[f].of = s
                 \/ sender[s].socket = 0 /\ kernel[f].of = None /\ ~full
          PROVE  SocketsOwned' /\ PolledByOwner'
      <3>1. /\ \A g \in Fds : kernel'[g].of = IF g = f THEN s ELSE kernel[g].of
            /\ \A u \in Senders : /\ sender'[u].socket = IF u = s THEN f ELSE sender[u].socket
                                  /\ sender'[u].closed = sender[u].closed
        <4>1. \A g \in Fds : kernel'[g].of = IF g = f THEN s ELSE kernel[g].of
          BY <1>t, <2>3 DEF FirstTry, Descriptors
        <4>2. \A u \in Senders : sender'[u].socket = IF u = s THEN f ELSE sender[u].socket
          BY <1>t, <2>3 DEF FirstTry, Sockets
        <4>3. \A u \in Senders : sender'[u].closed = sender[u].closed
          BY <1>t, <2>3 DEF FirstTry, Sockets
        <4> QED
          BY <4>1, <4>2, <4>3
      <3>2. SocketsOwned'
        BY <1>t, <2>3, <3>1
      <3>3. CASE UNCHANGED selector
        <4>1. \A u \in Callers : u # t => call'[u] = call[u]
          BY <1>t, <2>3 DEF FirstTry, Done
        <4> QED
          BY <1>t, <2>1, <2>3, <3>1, <3>2, <3>3, <4>1
      <3>4. CASE full /\ AddWriter(f, t) /\ setup.native
        <4>1. call' = [call EXCEPT ![t] = [pc |-> "waiting", of |-> s]]
          BY <2>3, <3>4 DEF FirstTry
        <4>2. \A g \in Fds : /\ g # f => selector'[g] = selector[g]
                             /\ g = f => selector'[g].call = t
          BY <1>t, <3>4 DEF AddWriter
        <4> QED
          BY <1>t, <2>1, <2>3, <3>1, <3>2, <4>1, <4>2
      <3> QED
        BY <2>3, <3>3, <3>4 DEF FirstTry
    <2> QED
      BY <1>1, <2>2, <2>3, SendTries
  <1>2. ASSUME NEW f \in Fds, WriterRuns(f) PROVE SocketsOwned' /\ PolledByOwner'
    <2>1. /\ \A g \in Fds : kernel'[g].of = kernel[g].of
          /\ UNCHANGED sender
      BY <1>t, <1>2 DEF WriterRuns, Sent, Descriptors
    <2>2. \A g \in Fds : selector'[g].polled => g # f /\ selector'[g] = selector[g]
      BY <1>t, <1>2 DEF WriterRuns, NoWriter
    <2>3. \A g \in Fds : selector'[g].polled => call'[selector[g].call] = call[selector[g].call]
      BY <1>t, <1>2, <2>2, PolledCalls DEF WriterRuns, Done
    <2> QED
      BY <1>t, <2>1, <2>2, <2>3
  <1>3. ASSUME NEW t \in Callers, Polls(t) PROVE SocketsOwned' /\ PolledByOwner'
    <2>1. (\A g \in Fds : kernel'[g].of = kernel[g].of) /\ UNCHANGED <<sender, selector>>
      <3>1. UNCHANGED kernel \/ Sent(sender[call[t].of].socket)
        BY <1>3 DEF Polls
      <3>2. \A g \in Fds : kernel'[g].of = kernel[g].of
        <4>1. CASE Sent(sender[call[t].of].socket)
          <5>1. PICK b : kernel' = [kernel EXCEPT ![sender[call[t].of].socket].full = b]
            BY <4>1 DEF Sent
          <5>2. \A g \in Fds : kernel'[g] = kernel[g] \/ kernel'[g] = [kernel[g] EXCEPT !.full = b]
            BY <1>t, <5>1
          <5>3. \A d \in Descriptors : [d EXCEPT !.full = b].of = d.of
            BY DEF Descriptors
          <5>4. \A g \in Fds : kernel[g] \in Descriptors
            BY <1>t
          <5> HIDE DEF SocketsOwned, PolledByOwner
          <5> QED
            BY <5>2, <5>3, <5>4
        <4> QED
          BY <3>1, <4>1
      <3> QED
        BY <1>3, <3>2 DEF Polls
    <2>2. \A u \in Callers : call[u].pc = "waiting" => call'[u] = call[u]
      BY <1>t, <1>3 DEF Polls, Done
    <2> QED
      BY <1>t, <2>1, <2>2
  <1>4. ASSUME NEW t \in Callers, SendCancelled(t) PROVE SocketsOwned' /\ PolledByOwner'
    <2>1. \A u \in Callers : u # t => call'[u] = call[u]
      BY <1>t, <1>4 DEF SendCancelled, Done
    <2>2. \A g \in Fds : selector'[g].polled => selector[g].call # t /\ selector'[g] = selector[g]
      BY <1>t, <1>4 DEF SendCancelled, NoWriter
    <2> QED
      BY <1>t, <1>4, <2>1, <2>2 DEF SendCancelled
  <1>5. ASSUME NEW s \in Senders, Stop(s) PROVE SocketsOwned' /\ PolledByOwner'
    <2>1. /\ sender'[s].socket = 0
          /\ \A u \in Senders : u # s => sender'[u] = sender[u]
          /\ UNCHANGED call
      BY <1>t, <1>5 DEF Stop, Sockets
    <2>2. CASE sender[s].socket = 0
      BY <1>t, <1>5, <2>1, <2>2 DEF Stop
    <2>3. CASE sender[s].socket # 0
      <3>1. PICK f \in Fds : f = sender[s].socket
        BY <1>t, <2>3
      <3>2. /\ \A g \in Fds : g # f => kernel'[g] = kernel[g] /\ selector'[g] = selector[g]
            /\ kernel'[f].of = None
        BY <1>t, <1>5, <2>3, <3>1 DEF Stop
      <3>3. ~selector'[f].polled
        BY <1>t, <1>5, <2>3, <3>1 DEF Stop, Writers
      <3> QED
        BY <1>t, <2>1, <2>3, <3>1, <3>2, <3>3
    <2> QED
      BY <2>2, <2>3
  <1>6. ASSUME NEW f \in Fds, Drains(f) PROVE SocketsOwned' /\ PolledByOwner'
    <2>1. (\A g \in Fds : kernel'[g].of = kernel[g].of) /\ UNCHANGED <<sender, selector, call>>
      BY <1>t, <1>6 DEF Drains, Descriptors
    <2> QED
      BY <1>t, <2>1
  <1>7. CASE UNCHANGED <<sender, kernel, selector, call>>
    BY <1>t, <1>7
  <1>8. CASE Tick \/ UNCHANGED vars
    BY <1>7, <1>8 DEF Tick, vars
  <1> QED
    BY <1>1, <1>2, <1>3, <1>4, <1>5, <1>6, <1>8 DEF Next

\* A datagram of a suspended call leaves only while its sender is open.
LEMMA SentWhileOpen ==
  ASSUME SenderInv, [Next]_vars, NEW t \in Callers, Suspended(t), call'[t].pc = "sent"
  PROVE  ~sender[call[t].of].closed
  <1>t. /\ SocketsOwned /\ PolledByOwner /\ call \in [Callers -> Calls]
        /\ call[t].of \in Senders /\ call[t].pc # "sent" /\ 0 \notin Fds /\ None \notin Senders
        /\ kernel \in [Fds -> Descriptors]
    BY NameAssumption DEF SenderInv, TypeOK, Suspended, Fds
  <1>1. ASSUME NEW u \in Callers, NEW s \in Senders, SendCalled(u, s) PROVE FALSE
    <2>1. u # t
      BY <1>1 DEF SendCalled
    <2>2. call'[t] = call[t]
      <3>1. CASE Done(u, "raised")
        BY <1>t, <2>1, <3>1 DEF Done
      <3>2. ASSUME NEW f, NEW full, FirstTry(u, s, f, full) PROVE call'[t] = call[t]
        BY <1>t, <2>1, <3>2 DEF FirstTry, Done
      <3> QED
        BY <1>1, <3>1, <3>2, SendTries
    <2> QED
      BY <1>t, <2>2
  <1>2. ASSUME NEW f \in Fds, WriterRuns(f) PROVE ~sender[call[t].of].closed
    <2>1. selector[f].call = t
      BY <1>t, <1>2 DEF WriterRuns, Done
    <2>2. kernel[f].of = call[t].of
      BY <1>t, <1>2, <2>1 DEF WriterRuns, PolledByOwner
    <2> QED
      BY <1>t, <2>2 DEF SocketsOwned
  <1>3. ASSUME NEW u \in Callers, Polls(u) PROVE ~sender[call[t].of].closed
    <2>1. u = t /\ sender[call[t].of].socket # 0
      BY <1>t, <1>3 DEF Polls, Done
    <2> QED
      BY <1>t, <2>1 DEF SocketsOwned
  <1>4. ASSUME NEW u \in Callers, SendCancelled(u) PROVE FALSE
    BY <1>t, <1>4 DEF SendCancelled, Done
  <1>5. CASE UNCHANGED call
    BY <1>t, <1>5
  <1>6. ASSUME NEW s \in Senders, Stop(s) PROVE FALSE
    BY <1>5, <1>6, <1>t DEF Stop
  <1>7. ASSUME NEW f \in Fds, Drains(f) PROVE FALSE
    BY <1>5, <1>7, <1>t DEF Drains
  <1>8. CASE Tick \/ UNCHANGED vars
    BY <1>5, <1>8 DEF Tick, vars
  <1> QED
    BY <1>1, <1>2, <1>3, <1>4, <1>6, <1>7, <1>8 DEF Next

\* No socket is open at the start.
LEMMA SenderInit == Init => SenderInv
  <1> SUFFICES ASSUME Init PROVE SenderInv
    OBVIOUS
  <1>1. TypeOK
    <2>1. sender \in [Senders -> Sockets] /\ kernel \in [Fds -> Descriptors]
      BY DEF Init, Sockets, Descriptors
    <2>2. selector \in [Fds -> Writers] /\ call \in [Callers -> Calls]
      BY DEF Init, NoWriter, Idle, Writers, Calls
    <2>3. \A t \in Callers : ~Suspended(t)
      BY DEF Init, Idle, Suspended
    <2>4. ghost \in [key : [Keys -> Logged], count : Nat] /\ table \in Seq(Entry)
      BY DEF Init, Never, Logged
    <2> QED
      BY <2>1, <2>2, <2>3, <2>4 DEF Init, TypeOK
  <1>2. SocketsOwned /\ PolledByOwner
    BY DEF Init, SocketsOwned, PolledByOwner, NoWriter
  <1> QED
    BY <1>1, <1>2 DEF SenderInv

\* The invariant of the senders, their sockets and the selector.
THEOREM SendersOwnTheirSockets == Spec => []SenderInv
  <1>1. SenderInv /\ [Next]_vars => SenderInv'
    BY TypeStep, OwnedStep DEF SenderInv
  <1> QED
    BY <1>1, SenderInit, PTL DEF Spec

\* stop() is for good: whatever calls of send() are suspended when it closes the
\* socket, and whoever gets its descriptor next, no socket is leaked or created
\* again, and no datagram of the sender leaves after it.
THEOREM StopIsForGood == Spec => StopIsFinal
  <1>1. SenderInv /\ [Next]_vars =>
          [/\ SocketsOwned'
           /\ \A t \in Callers : Suspended(t) /\ call'[t].pc = "sent" => ~sender[call[t].of].closed]_vars
    BY OwnedStep, SentWhileOpen
  <1> QED
    BY <1>1, SendersOwnTheirSockets, PTL DEF Spec, StopIsFinal

-----------------------------------------------------------------------------
(***************************************************************************)
(* The limiter.                                                             *)
(***************************************************************************)
\* Only should_log(), called by send(), changes the table and its history.
LEMMA OnlyWarningsLog ==
  ASSUME [Next]_vars
  PROVE  UNCHANGED <<table, ghost>> \/ \E s \in Senders : Warns(s) /\ ~UNCHANGED <<table, ghost>>
  <1>1. ASSUME NEW t \in Callers, NEW s \in Senders, SendCalled(t, s)
        PROVE  UNCHANGED <<table, ghost>> \/ Warns(s)
    BY <1>1 DEF SendCalled, FirstTry
  <1>2. ASSUME NEW t \in Callers, Polls(t) \/ SendCancelled(t) PROVE UNCHANGED <<table, ghost>>
    BY <1>2 DEF Polls, SendCancelled
  <1>3. ASSUME NEW s \in Senders, Stop(s) PROVE UNCHANGED <<table, ghost>>
    BY <1>3 DEF Stop
  <1>4. ASSUME NEW f \in Fds, WriterRuns(f) \/ Drains(f) PROVE UNCHANGED <<table, ghost>>
    BY <1>4 DEF WriterRuns, Drains
  <1>5. CASE Tick \/ UNCHANGED vars
    BY <1>5 DEF Tick, vars
  <1> QED
    BY <1>1, <1>2, <1>3, <1>4, <1>5 DEF Next

\* A key that is in the table keeps its place and gets a new time.
LEMMA KnownKeyLogged ==
  ASSUME LimiterInv, NEW s \in Senders, Known(Address(s)),
         table' = TableAfter(Address(s)),
         ghost' = [key |-> [ghost.key EXCEPT ![Address(s)] = [at |-> now + 1, born |-> @.born]],
                   count |-> ghost.count]
  PROVE  TableTellsHistory'
  <1> DEFINE k == Address(s)
  <1>1. /\ k \in Keys /\ now \in Nat /\ Len(table) \in Nat
        /\ DOMAIN table = 1 .. Len(table) /\ \A i \in DOMAIN table : table[i] \in Entry
        /\ ghost.key \in [Keys -> Logged]
    BY SetupAssumption, LenProperties, ElementOfSeq DEF Address, LimiterInv, TypeOK
  <1>2. /\ DOMAIN table' = DOMAIN table
        /\ \A i \in DOMAIN table : table'[i] = IF table[i].key = k THEN [table[i] EXCEPT !.at = now] ELSE table[i]
    BY DEF TableAfter
  <1>3. Len(table') = Len(table)
    BY <1>1, <1>2
  <1>4. \A i \in DOMAIN table : /\ table'[i].key = table[i].key
                                 /\ table'[i].at = IF table[i].key = k THEN now ELSE table[i].at
    BY <1>1, <1>2 DEF Entry
  <1>5. /\ ghost'.count = ghost.count /\ ghost'.key[k].at = now + 1
        /\ \A q \in Keys : ghost'.key[q].born = ghost.key[q].born
        /\ \A q \in Keys : q # k => ghost'.key[q] = ghost.key[q]
    BY <1>1 DEF Logged
  <1>6. \A q : Known(q)' <=> Known(q)
    BY <1>2, <1>4 DEF Known
  <1>7. \A i \in DOMAIN table : table[i].key \in Keys
    BY <1>1 DEF Entry
  <1> HIDE DEF k
  <1>8. \A i \in DOMAIN table : /\ ghost'.key[table[i].key].at = table'[i].at + 1
                                 /\ ghost'.key[table[i].key].born + Len(table) = ghost.count + i
    BY <1>4, <1>5, <1>7 DEF LimiterInv, TableTellsHistory
  <1>9. \A i, j \in DOMAIN table : table[i].key = table[j].key => i = j
    BY DEF LimiterInv, TableTellsHistory
  <1>10. ASSUME NEW q \in Keys, ~Known(q), ghost'.key[q] # Never
         PROVE  ghost'.count - ghost'.key[q].born >= MaxKeys
    BY <1>5, <1>10 DEF k, LimiterInv, TableTellsHistory
  <1>11. Len(table') <= MaxKeys
    BY <1>3 DEF LimiterInv, TableTellsHistory
  <1> QED
    BY <1>2, <1>3, <1>4, <1>5, <1>6, <1>8, <1>9, <1>10, <1>11 DEF TableTellsHistory

\* A key that is new goes behind the others; a full table loses its first.
LEMMA NewKeyLogged ==
  ASSUME LimiterInv, NEW s \in Senders, ~Known(Address(s)),
         table' = TableAfter(Address(s)),
         ghost' = [key |-> [ghost.key EXCEPT ![Address(s)] = [at |-> now + 1, born |-> ghost.count + 1]],
                   count |-> ghost.count + 1]
  PROVE  TableTellsHistory'
  <1> DEFINE k == Address(s)
             n == Len(table)
             kept == IF n >= MaxKeys THEN Tail(table) ELSE table
             d == IF n >= MaxKeys THEN 1 ELSE 0
  <1>1. /\ k \in Keys /\ now \in Nat /\ n \in Nat /\ table \in Seq(Entry) /\ MaxKeys \in Nat \ {0}
        /\ DOMAIN table = 1 .. n /\ \A i \in 1 .. n : table[i] \in Entry
        /\ ghost.key \in [Keys -> Logged] /\ ghost.count \in Nat
    BY SetupAssumption, LimiterAssumption, LenProperties, ElementOfSeq DEF Address, LimiterInv, TypeOK
  <1>2. /\ n <= MaxKeys /\ \A q \in Keys : ghost.key[q].born \in Nat
        /\ \A i \in 1 .. n : table[i].key \in Keys
    BY <1>1 DEF LimiterInv, TableTellsHistory, Logged, Entry
  <1>3. kept \in Seq(Entry) /\ Len(kept) = n - d /\ \A i \in 1 .. n - d : kept[i] = table[i + d]
    <2>1. CASE n >= MaxKeys
      <3>1. table # <<>>
        BY <1>1, <2>1, EmptySeq
      <3> QED
        BY <1>1, <2>1, <3>1, HeadTailProperties
    <2>2. CASE ~(n >= MaxKeys)
      BY <1>1, <2>2
    <2> QED
      BY <2>1, <2>2
  <1>4. table' = Append(kept, [key |-> k, at |-> now]) /\ [key |-> k, at |-> now] \in Entry
    BY <1>1 DEF TableAfter, Entry
  <1> HIDE DEF kept
  <1>5. /\ table' \in Seq(Entry) /\ Len(table') = n - d + 1
        /\ \A i \in 1 .. n - d : table'[i] = table[i + d]
        /\ table'[n - d + 1] = [key |-> k, at |-> now]
    BY <1>3, <1>4, AppendProperties
  <1>6. DOMAIN table' = 1 .. n - d + 1
    BY <1>5, LenProperties
  <1>7. /\ ghost'.count = ghost.count + 1
        /\ ghost'.key[k].at = now + 1 /\ ghost'.key[k].born = ghost.count + 1
        /\ \A q \in Keys : q # k => ghost'.key[q] = ghost.key[q]
    BY <1>1 DEF Logged
  <1>8. \A i \in 1 .. n : /\ table[i].key # k
                          /\ ghost.key[table[i].key].at = table[i].at + 1
                          /\ ghost.key[table[i].key].born + n = ghost.count + i
                          /\ \A j \in 1 .. n : table[i].key = table[j].key => i = j
    BY <1>1 DEF Known, LimiterInv, TableTellsHistory
  <1>9. d \in {0, 1} /\ (d = 1 <=> n >= MaxKeys)
    OBVIOUS
  <1> HIDE DEF k, d
  <1>10. \A i \in 1 .. n - d : i + d \in 1 .. n
    BY <1>1, <1>9
  <1>11. ASSUME NEW i \in DOMAIN table', NEW j \in DOMAIN table', table'[i].key = table'[j].key
         PROVE  i = j
    <2>1. CASE i \in 1 .. n - d /\ j \in 1 .. n - d
      <3>1. i + d = j + d
        BY <1>5, <1>8, <1>10, <1>11, <2>1
      <3> QED
        BY <1>1, <1>9, <2>1, <3>1
    <2>2. \A h \in 1 .. n - d : table'[h].key # k
      BY <1>5, <1>8, <1>10
    <2>3. table'[n - d + 1].key = k
      BY <1>5
    <2>4. \A h \in DOMAIN table' : h \in 1 .. n - d \/ h = n - d + 1
      BY <1>1, <1>6, <1>9
    <2> QED
      BY <1>11, <2>1, <2>2, <2>3, <2>4
  <1>12. ASSUME NEW i \in DOMAIN table'
         PROVE  /\ ghost'.key[table'[i].key].at = table'[i].at + 1
                /\ ghost'.key[table'[i].key].born + Len(table') = ghost'.count + i
    <2>1. CASE i \in 1 .. n - d
      <3>1. table'[i] = table[i + d] /\ table[i + d].key # k /\ table[i + d].key \in Keys
        BY <1>2, <1>5, <1>8, <1>10, <2>1
      <3>2. ghost'.key[table'[i].key] = ghost.key[table[i + d].key]
        BY <1>7, <3>1
      <3>3. ghost.key[table[i + d].key].born \in Nat
        BY <1>2, <3>1
      <3>4. ghost.key[table[i + d].key].born + n = ghost.count + (i + d)
        BY <1>8, <1>10, <2>1
      <3>5. ghost.key[table[i + d].key].at = table[i + d].at + 1
        BY <1>8, <1>10, <2>1
      <3>6. ghost'.key[table'[i].key].at = table'[i].at + 1
        BY <3>1, <3>2, <3>5
      <3>7. ghost.key[table[i + d].key].born + (n - d + 1) = (ghost.count + 1) + i
        <4>1. \A b, c, m \in Nat : \A h \in Int : b + m = c + (h + d) => b + (m - d + 1) = (c + 1) + h
          BY <1>9
        <4>2. n \in Nat /\ ghost.count \in Nat /\ i \in Int
          BY <1>1, <1>9, <2>1
        <4> HIDE DEF n
        <4> QED
          BY <3>3, <3>4, <4>1, <4>2
      <3> QED
        BY <1>5, <1>7, <3>2, <3>6, <3>7
    <2>2. CASE i = n - d + 1
      BY <1>1, <1>5, <1>7, <1>9, <2>2
    <2> QED
      BY <1>1, <1>6, <1>9, <2>1, <2>2
  <1>13. ASSUME NEW q \in Keys, ~Known(q)', ghost'.key[q] # Never
         PROVE  ghost'.count - ghost'.key[q].born >= MaxKeys
    <2>1. q # k /\ ghost'.key[q] = ghost.key[q] /\ ghost.key[q].born \in Nat
      <3>1. n - d + 1 \in DOMAIN table' /\ table'[n - d + 1].key = k
        BY <1>1, <1>5, <1>6, <1>9
      <3>2. q # k
        BY <1>13, <3>1 DEF Known
      <3> QED
        BY <1>2, <1>7, <3>2
    <2>2. CASE ~Known(q)
      <3>1. ghost.count - ghost.key[q].born >= MaxKeys
        BY <1>13, <2>1, <2>2 DEF LimiterInv, TableTellsHistory
      <3> QED
        BY <1>1, <1>7, <2>1, <3>1
    <2>3. CASE Known(q)
      <3>1. PICK i \in 1 .. n : table[i].key = q
        BY <1>1, <2>3 DEF Known
      <3>2. i = 1 /\ d = 1
        <4>1. \A h \in 1 .. n - d : table[h + d].key # q
          <5>1. \A h \in 1 .. n - d : h \in DOMAIN table'
            BY <1>1, <1>6, <1>9
          <5> QED
            BY <1>5, <1>13, <5>1 DEF Known
        <4> QED
          <5>1. i - d \in 1 .. n - d => table[(i - d) + d].key # q
            BY <4>1
          <5>2. (i - d) + d = i
            BY <1>1, <1>9
          <5> QED
            BY <1>1, <1>9, <3>1, <5>1, <5>2
      <3>3. ghost.key[q].born + n = ghost.count + 1
        BY <1>8, <3>1, <3>2
      <3> QED
        BY <1>1, <1>2, <1>7, <1>9, <2>1, <3>2, <3>3
    <2> QED
      BY <2>2, <2>3
  <1>14. Len(table') <= MaxKeys
    BY <1>1, <1>2, <1>5, <1>9
  <1> QED
    BY <1>11, <1>12, <1>13, <1>14 DEF TableTellsHistory

\* Every action keeps the table and its history together.
LEMMA LimiterStep == LimiterInv /\ [Next]_vars => TableTellsHistory'
  <1> SUFFICES ASSUME LimiterInv, [Next]_vars PROVE TableTellsHistory'
    OBVIOUS
  <1>1. CASE UNCHANGED <<table, ghost>>
    BY <1>1 DEF LimiterInv, TableTellsHistory, Known
  <1>2. ASSUME NEW s \in Senders, Warns(s), ~UNCHANGED <<table, ghost>> PROVE TableTellsHistory'
    <2>1. Known(Address(s)) => TableTellsHistory'
      <3> SUFFICES ASSUME Known(Address(s)) PROVE TableTellsHistory'
        OBVIOUS
      <3>1. /\ table' = TableAfter(Address(s))
            /\ ghost' = [key |-> [ghost.key EXCEPT ![Address(s)] = [at |-> now + 1, born |-> @.born]],
                         count |-> ghost.count]
        BY <1>2 DEF Warns, LimiterInv, TypeOK
      <3> QED
        BY <3>1, KnownKeyLogged
    <2>2. ~Known(Address(s)) => TableTellsHistory'
      <3> SUFFICES ASSUME ~Known(Address(s)) PROVE TableTellsHistory'
        OBVIOUS
      <3>1. /\ table' = TableAfter(Address(s))
            /\ ghost' = [key |-> [ghost.key EXCEPT ![Address(s)] = [at |-> now + 1, born |-> ghost.count + 1]],
                         count |-> ghost.count + 1]
        BY <1>2 DEF Warns, LimiterInv, TypeOK
      <3> QED
        BY <3>1, NewKeyLogged
    <2> QED
      BY <2>1, <2>2
  <1> QED
    BY <1>1, <1>2, OnlyWarningsLog

\* A key that is logged again was due, or had been pushed out.
LEMMA LoggedAgain ==
  ASSUME LimiterInv, [Next]_vars, NEW k \in Keys, ghost.key[k] # Never, ghost'.key[k] # ghost.key[k]
  PROVE  \/ now + 1 - ghost.key[k].at >= Interval
         \/ ghost.count - ghost.key[k].born >= MaxKeys
  <1>1. PICK s \in Senders : Warns(s)
    BY OnlyWarningsLog
  <1>2. k = Address(s) /\ ShouldLog(k)
    BY <1>1 DEF Warns, LimiterInv, TypeOK
  <1>3. CASE Known(k)
    <2>1. PICK i \in DOMAIN table : table[i].key = k
      BY <1>3 DEF Known
    <2>2. now - table[i].at >= Interval /\ ghost.key[k].at = table[i].at + 1
      BY <1>2, <2>1 DEF ShouldLog, LimiterInv, TableTellsHistory
    <2>3. table[i] \in Entry
      BY <2>1, LenProperties, ElementOfSeq DEF LimiterInv, TypeOK
    <2>4. table[i].at \in Nat /\ now \in Nat /\ Interval \in Nat
      BY <2>3, LimiterAssumption DEF Entry, LimiterInv, TypeOK
    <2> QED
      BY <2>2, <2>4
  <1>4. CASE ~Known(k)
    BY <1>4 DEF LimiterInv, TableTellsHistory
  <1> QED
    BY <1>3, <1>4

\* The limiter the senders share is bounded, and lets a key through twice within
\* its interval only when max_keys others have entered its table since.
THEOREM LimiterHolds == Spec => LimiterKeepsPromise
  <1>1. Init => TableTellsHistory
    BY LimiterAssumption DEF Init, TableTellsHistory
  <1>2. /\ TypeOK /\ TableTellsHistory /\ [Next]_vars => TableTellsHistory'
        /\ TypeOK /\ TableTellsHistory => Len(table) <= MaxKeys
    BY LimiterStep DEF LimiterInv, TableTellsHistory
  <1>3. TypeOK /\ TableTellsHistory /\ [Next]_vars =>
          [\A k \in Keys :
             ghost.key[k] # Never /\ ghost'.key[k] # ghost.key[k] =>
               \/ now + 1 - ghost.key[k].at >= Interval
               \/ ghost.count - ghost.key[k].born >= MaxKeys]_vars
    BY LoggedAgain DEF LimiterInv
  <1>4. SenderInv => TypeOK
    BY DEF SenderInv
  <1> QED
    BY <1>1, <1>2, <1>3, <1>4, SendersOwnTheirSockets, PTL DEF Spec, LimiterKeepsPromise
=============================================================================
