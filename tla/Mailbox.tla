------------------------------- MODULE Mailbox -------------------------------
(***************************************************************************)
(* What the dispatcher's background queue promises, without tasks,          *)
(* conditions, handlers or counters: a bounded mailbox that is served one   *)
(* message at a time, oldest first.  Messages are records with a ticket     *)
(* (their place in the order of arrival), a keep flag (exempt from          *)
(* overload) and the pair bytes/res that names the payload of a resource.   *)
(***************************************************************************)
EXTENDS Integers, FiniteSets

CONSTANTS Message, None, Capacity

VARIABLES box, serving, open

mailboxVars == <<box, serving, open>>

MailboxInit == box = {} /\ serving = None /\ open = TRUE

\* A message arrives behind all others, while there is room.
Put(m) ==
  /\ open
  /\ Cardinality(box) < Capacity
  /\ \A n \in box : n.ticket < m.ticket
  /\ box' = box \cup {m}
  /\ UNCHANGED <<serving, open>>

\* Overload: a newcomer takes the place of the oldest message that is not
\* exempt.
Replace(v, m) ==
  /\ open
  /\ v \in box /\ ~v.keep
  /\ \A n \in box : ~n.keep => v.ticket <= n.ticket
  /\ \A n \in box : n.ticket < m.ticket
  /\ box' = (box \ {v}) \cup {m}
  /\ UNCHANGED <<serving, open>>

\* Service takes the oldest message, and only when the previous one is done.
Serve ==
  /\ serving = None
  /\ \E m \in box : /\ \A n \in box : m.ticket <= n.ticket
                    /\ serving' = m
                    /\ box' = box \ {m}
  /\ UNCHANGED open

Done == serving' = None /\ UNCHANGED <<box, open>>

\* The payload messages of one resource are withdrawn.
Withdraw(r) ==
  /\ box' = {m \in box : ~(m.bytes /\ m.res = r)}
  /\ UNCHANGED <<serving, open>>

\* Closing lets the mailbox drain, or empties it.
Close ==
  /\ open' = FALSE
  /\ box' \in {box, {}}
  /\ UNCHANGED serving

Open == open' = TRUE /\ UNCHANGED <<box, serving>>

\* The service breaks down and takes the mailbox with it.
Fail == box' = {} /\ serving' = None /\ UNCHANGED open

MailboxNext ==
  \/ \E m \in box' \ box : m \in Message /\ (Put(m) \/ \E v \in box : Replace(v, m))
  \/ Serve \/ Done \/ Close \/ Open \/ Fail
  \/ \E r \in {m.res : m \in box} : Withdraw(r)

MailboxSpec == MailboxInit /\ [][MailboxNext]_mailboxVars
=============================================================================
