---------------------------- MODULE BoundedQueue ----------------------------
(***************************************************************************)
(* What kernel/ipc.h promises of its message queues: every queue is a      *)
(* bounded FIFO.  A message is put at the end, taken from the front, and   *)
(* nothing else changes a queue but its creation, which empties it.        *)
(***************************************************************************)
EXTENDS Naturals, Sequences

CONSTANTS Queues, Messages, Capacity

VARIABLES
  open,      \* the queues that exist
  content    \* content[q]: the messages in q, oldest first

Init ==
  /\ open = {}
  /\ content = [q \in Queues |-> <<>>]

Create(q) ==
  /\ q \notin open
  /\ open' = open \cup {q}
  /\ content' = [content EXCEPT ![q] = <<>>]

Destroy(q) ==
  /\ q \in open
  /\ open' = open \ {q}
  /\ UNCHANGED content

Put(q, m) ==
  /\ q \in open
  /\ Len(content[q]) < Capacity
  /\ content' = [content EXCEPT ![q] = Append(@, m)]
  /\ UNCHANGED open

Take(q) ==
  /\ q \in open
  /\ content[q] # <<>>
  /\ content' = [content EXCEPT ![q] = Tail(@)]
  /\ UNCHANGED open

Next ==
  \E q \in Queues :
    \/ Create(q) \/ Destroy(q) \/ Take(q)
    \/ \E m \in Messages : Put(q, m)

Spec == Init /\ [][Next]_<<open, content>>

=============================================================================
