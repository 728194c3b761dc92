--------------------------------- MODULE Ipc ---------------------------------
(***************************************************************************)
(* Kernel message queues: kernel/ipc.c, on top of sched_block and           *)
(* sched_unblock of kernel/sched.c.                                         *)
(*                                                                          *)
(* One CPU.  A call is cut into steps at the points where another task may  *)
(* come in between: always while the caller is blocked, and at the points   *)
(* of Windows, where the timer is let in.  A READY task may run whenever    *)
(* every other one stands at such a point (Running); which READY task the   *)
(* scheduler prefers is left open.  The idle task, which is always READY,   *)
(* is not shown: sched_block therefore never returns at once.               *)
(***************************************************************************)
EXTENDS Integers, Sequences, FiniteSets, SequencesExt

CONSTANTS
  Tasks,        \* the tasks that call the functions below
  MaxQueues,    \* IPC_MAX_QUEUES
  Capacity,     \* IPC_QUEUE_CAPACITY
  MaxWaiters,   \* SCHED_MAX_TASKS, the length of a list of blocked tasks
  Names,        \* the names that queues are created with
  Messages,     \* what an IpcMessage holds: sender, type, length, payload
  NoMsg,        \* a ring slot that was never written
  Ops,          \* the operations that an instance explores
  Windows       \* the points at which the timer lands

\* The points of a call:
\*   sendTest, recvTest     at the head of the while loop
\*   sendFull, recvEmpty    found full (empty), not yet in the list of waiters
\*   sendListed, recvListed in the list, sched_block not yet called
\*   sendWoken, recvWoken   in sched_block; on return `active' is tested
\*   sendRoom, recvFound    about to call _enqueue (_dequeue)
\*   filled, copied         message copied, indices not yet moved
\*   published, advanced    indices moved, waiter not yet woken
\*   destroying             ipc_destroy: waiters woken, queue still active
Rest    == {"user", "sendWoken", "recvWoken"}
Sending == {"sendTest", "sendFull", "sendListed", "sendWoken", "sendRoom",
            "filled", "published"}
Receiving == {"recvTest", "recvEmpty", "recvListed", "recvWoken", "recvFound",
              "copied", "advanced"}
Points  == {"user", "destroying"} \cup Sending \cup Receiving

ASSUME IpcAssumption ==
  /\ MaxQueues \in Nat \ {0}
  /\ Capacity \in Nat \ {0}
  /\ MaxWaiters \in Nat \ {0}
  /\ NoMsg \notin Messages
  /\ Windows \subseteq Points

Queues == 0 .. MaxQueues - 1
NoQ    == -1

VARIABLES
  active,     \* queues[q].active
  name,       \* queues[q].name
  ring,       \* queues[q].ring
  head, tail, count,
  senders,    \* queues[q].blocked_senders, the last one is woken first
  receivers,  \* queues[q].blocked_receivers
  state,      \* the task's state in the scheduler
  pc,         \* the point t stands at
  queue,      \* the handle t's call was made with
  msg,        \* the message t sends, or the one copied to its `out'
  orphan      \* history: t's call was made on a queue that was destroyed since

queueVars == <<active, name, ring, head, tail, count>>
listVars  == <<senders, receivers>>
callVars  == <<pc, queue, msg, orphan>>
vars      == <<queueVars, listVars, state, callVars>>

(* ipc_init *)
Init ==
  /\ active    = [q \in Queues |-> FALSE]
  /\ name      \in [Queues -> Names] /\ \A q, r \in Queues : name[q] = name[r]
  /\ ring      = [q \in Queues |-> [i \in 0 .. Capacity - 1 |-> NoMsg]]
  /\ head      = [q \in Queues |-> 0]
  /\ tail      = [q \in Queues |-> 0]
  /\ count     = [q \in Queues |-> 0]
  /\ senders   = [q \in Queues |-> <<>>]
  /\ receivers = [q \in Queues |-> <<>>]
  /\ state     = [t \in Tasks |-> "READY"]
  /\ pc        = [t \in Tasks |-> "user"]
  /\ queue     = [t \in Tasks |-> NoQ]
  /\ msg       = [t \in Tasks |-> NoMsg]
  /\ orphan    = [t \in Tasks |-> FALSE]

----------------------------------------------------------------------------
\* t has the CPU: nobody else stands at a point where it cannot be interrupted.
Running(t) ==
  /\ state[t] = "READY"
  /\ \A u \in Tasks \ {t} : pc[u] \in Rest \cup Windows

Calls(t, op) == Running(t) /\ pc[t] = "user" /\ op \in Ops

At(t, p) == Running(t) /\ pc[t] = p

Goto(t, p) == pc' = [pc EXCEPT ![t] = p] /\ UNCHANGED <<queue, msg, orphan>>

Return(t) ==
  /\ pc'     = [pc EXCEPT ![t] = "user"]
  /\ queue'  = [queue EXCEPT ![t] = NoQ]
  /\ msg'    = [msg EXCEPT ![t] = NoMsg]
  /\ orphan' = [orphan EXCEPT ![t] = FALSE]

\* t enters a call on q, with message m, at point p.
Enter(t, q, m, p) ==
  /\ pc'    = [pc EXCEPT ![t] = p]
  /\ queue' = [queue EXCEPT ![t] = q]
  /\ msg'   = [msg EXCEPT ![t] = m]
  /\ UNCHANGED orphan

\* sched_unblock of each task of S.
Unblocked(S) ==
  [u \in Tasks |-> IF u \in S /\ state[u] = "BLOCKED" THEN "READY" ELSE state[u]]

\* The list of waiters has a bound; a task that does not fit in is left out.
Listed(list, t) == IF Len(list) < MaxWaiters THEN Append(list, t) ELSE list

\* One blocked task is woken, the one that was listed last.
WakesOne(q, list) == IF list # <<>> THEN Unblocked({Last(list)}) ELSE state
Popped(list)      == IF list # <<>> THEN Front(list) ELSE list

----------------------------------------------------------------------------
(* ipc_create: a queue of that name is found, or the first free slot is     *)
(* taken.                                                                   *)
Create(t, n) ==
  /\ Calls(t, "create")
  /\ \A q \in Queues : ~(active[q] /\ name[q] = n)
  /\ \E q \in Queues :
       /\ ~active[q]
       /\ \A r \in Queues : r < q => active[r]
       /\ active' = [active EXCEPT ![q] = TRUE]
       /\ name'   = [name EXCEPT ![q] = n]
       /\ head'   = [head EXCEPT ![q] = 0]
       /\ tail'   = [tail EXCEPT ![q] = 0]
       /\ count'  = [count EXCEPT ![q] = 0]
       /\ senders'   = [senders EXCEPT ![q] = <<>>]
       /\ receivers' = [receivers EXCEPT ![q] = <<>>]
  /\ UNCHANGED <<ring, state, callVars>>

\* mutant: the receivers are not woken
DestroyWakesSenders(t, q) ==
  /\ Calls(t, "destroy") /\ active[q]
  /\ state' = Unblocked(ToSet(senders[q]))
  /\ Enter(t, q, NoMsg, "destroying")
  /\ UNCHANGED <<queueVars, listVars>>

(* ipc_destroy: wake everybody, then clear `active'; the lists stay.        *)
DestroyBegin(t, q) ==
  /\ Calls(t, "destroy") /\ active[q]
  /\ state' = Unblocked(ToSet(senders[q]) \cup ToSet(receivers[q]))
  /\ Enter(t, q, NoMsg, "destroying")
  /\ UNCHANGED <<queueVars, listVars>>

DestroyEnd(t) ==
  LET q == queue[t] IN
  /\ At(t, "destroying")
  /\ active' = [active EXCEPT ![q] = FALSE]
  /\ pc'     = [pc EXCEPT ![t] = "user"]
  /\ queue'  = [queue EXCEPT ![t] = NoQ]
  /\ orphan' = [u \in Tasks |-> u # t /\ (orphan[u] \/ queue[u] = q)]
  /\ UNCHANGED <<name, ring, head, tail, count, listVars, state, msg>>

----------------------------------------------------------------------------
(* ipc_send, ipc_try_send *)
Send(t, q, m) ==
  /\ Calls(t, "send") /\ active[q]
  /\ Enter(t, q, m, "sendTest")
  /\ UNCHANGED <<queueVars, listVars, state>>

TrySend(t, q, m) ==
  /\ Calls(t, "trySend") /\ active[q] /\ count[q] < Capacity
  /\ Enter(t, q, m, "sendRoom")
  /\ UNCHANGED <<queueVars, listVars, state>>

SendTest(t) ==
  /\ At(t, "sendTest")
  /\ Goto(t, IF count[queue[t]] >= Capacity THEN "sendFull" ELSE "sendRoom")
  /\ UNCHANGED <<queueVars, listVars, state>>

SendList(t) ==
  /\ At(t, "sendFull")
  /\ senders' = [senders EXCEPT ![queue[t]] = Listed(@, t)]
  /\ Goto(t, "sendListed")
  /\ UNCHANGED <<queueVars, receivers, state>>

SendBlock(t) ==
  /\ At(t, "sendListed")
  /\ state' = [state EXCEPT ![t] = "BLOCKED"]
  /\ Goto(t, "sendWoken")
  /\ UNCHANGED <<queueVars, listVars>>

SendWake(t) ==
  /\ At(t, "sendWoken")
  /\ IF active[queue[t]] THEN Goto(t, "sendTest") ELSE Return(t)
  /\ UNCHANGED <<queueVars, listVars, state>>

(* _enqueue *)
Fill(t) ==
  LET q == queue[t] IN
  /\ At(t, "sendRoom")
  /\ IF count[q] >= Capacity
     THEN Return(t) /\ UNCHANGED ring
     ELSE /\ ring' = [ring EXCEPT ![q][tail[q]] = msg[t]]
          /\ Goto(t, "filled")
  /\ UNCHANGED <<active, name, head, tail, count, listVars, state>>

\* mutant: the tail does not wrap round
PublishNoWrap(t) ==
  LET q == queue[t] IN
  /\ At(t, "filled")
  /\ tail'  = [tail EXCEPT ![q] = @ + 1]
  /\ count' = [count EXCEPT ![q] = @ + 1]
  /\ Goto(t, "published")
  /\ UNCHANGED <<active, name, ring, head, listVars, state>>

Publish(t) ==
  LET q == queue[t] IN
  /\ At(t, "filled")
  /\ tail'  = [tail EXCEPT ![q] = (@ + 1) % Capacity]
  /\ count' = [count EXCEPT ![q] = @ + 1]
  /\ Goto(t, "published")
  /\ UNCHANGED <<active, name, ring, head, listVars, state>>

WakeReceiver(t) ==
  LET q == queue[t] IN
  /\ At(t, "published")
  /\ state' = WakesOne(q, receivers[q])
  /\ receivers' = [receivers EXCEPT ![q] = Popped(@)]
  /\ Return(t)
  /\ UNCHANGED <<queueVars, senders>>

----------------------------------------------------------------------------
(* ipc_recv, ipc_try_recv *)
Recv(t, q) ==
  /\ Calls(t, "recv") /\ active[q]
  /\ Enter(t, q, NoMsg, "recvTest")
  /\ UNCHANGED <<queueVars, listVars, state>>

TryRecv(t, q) ==
  /\ Calls(t, "tryRecv") /\ active[q] /\ count[q] > 0
  /\ Enter(t, q, NoMsg, "recvFound")
  /\ UNCHANGED <<queueVars, listVars, state>>

RecvTest(t) ==
  /\ At(t, "recvTest")
  /\ Goto(t, IF count[queue[t]] = 0 THEN "recvEmpty" ELSE "recvFound")
  /\ UNCHANGED <<queueVars, listVars, state>>

RecvList(t) ==
  /\ At(t, "recvEmpty")
  /\ receivers' = [receivers EXCEPT ![queue[t]] = Listed(@, t)]
  /\ Goto(t, "recvListed")
  /\ UNCHANGED <<queueVars, senders, state>>

RecvBlock(t) ==
  /\ At(t, "recvListed")
  /\ state' = [state EXCEPT ![t] = "BLOCKED"]
  /\ Goto(t, "recvWoken")
  /\ UNCHANGED <<queueVars, listVars>>

\* mutant: a woken receiver blocks again without looking at the queue
RecvWakeBlind(t) ==
  /\ At(t, "recvWoken")
  /\ IF active[queue[t]] THEN Goto(t, "recvEmpty") ELSE Return(t)
  /\ UNCHANGED <<queueVars, listVars, state>>

RecvWake(t) ==
  /\ At(t, "recvWoken")
  /\ IF active[queue[t]] THEN Goto(t, "recvTest") ELSE Return(t)
  /\ UNCHANGED <<queueVars, listVars, state>>

(* _dequeue *)
Copy(t) ==
  LET q == queue[t] IN
  /\ At(t, "recvFound")
  /\ IF count[q] = 0
     THEN Return(t)
     ELSE /\ msg' = [msg EXCEPT ![t] = ring[q][head[q]]]
          /\ pc'  = [pc EXCEPT ![t] = "copied"]
          /\ UNCHANGED <<queue, orphan>>
  /\ UNCHANGED <<queueVars, listVars, state>>

\* mutant: the newest message is dropped instead of the oldest
AdvanceTail(t) ==
  LET q == queue[t] IN
  /\ At(t, "copied")
  /\ tail'  = [tail EXCEPT ![q] = (@ + Capacity - 1) % Capacity]
  /\ count' = [count EXCEPT ![q] = @ - 1]
  /\ Goto(t, "advanced")
  /\ UNCHANGED <<active, name, ring, head, listVars, state>>

Advance(t) ==
  LET q == queue[t] IN
  /\ At(t, "copied")
  /\ head'  = [head EXCEPT ![q] = (@ + 1) % Capacity]
  /\ count' = [count EXCEPT ![q] = @ - 1]
  /\ Goto(t, "advanced")
  /\ UNCHANGED <<active, name, ring, tail, listVars, state>>

\* mutant: the head of the wrong list is woken
WakeReceiverInstead(t) ==
  LET q == queue[t] IN
  /\ At(t, "advanced")
  /\ state' = WakesOne(q, receivers[q])
  /\ receivers' = [receivers EXCEPT ![q] = Popped(@)]
  /\ Return(t)
  /\ UNCHANGED <<queueVars, senders>>

WakeSender(t) ==
  LET q == queue[t] IN
  /\ At(t, "advanced")
  /\ state' = WakesOne(q, senders[q])
  /\ senders' = [senders EXCEPT ![q] = Popped(@)]
  /\ Return(t)
  /\ UNCHANGED <<queueVars, receivers>>

----------------------------------------------------------------------------
\* The next step of the call that t is in.
Step(t) ==
  \/ DestroyEnd(t)
  \/ SendTest(t) \/ SendList(t) \/ SendBlock(t) \/ SendWake(t)
  \/ Fill(t) \/ Publish(t) \/ WakeReceiver(t)
  \/ RecvTest(t) \/ RecvList(t) \/ RecvBlock(t) \/ RecvWake(t)
  \/ Copy(t) \/ Advance(t) \/ WakeSender(t)

Begin(t) ==
  \/ \E n \in Names : Create(t, n)
  \/ \E q \in Queues : \/ DestroyBegin(t, q) \/ Recv(t, q) \/ TryRecv(t, q)
                       \/ \E m \in Messages : Send(t, q, m) \/ TrySend(t, q, m)

Next == \E t \in Tasks : Step(t) \/ Begin(t)

Spec == Init /\ [][Next]_vars

(* What the rest of the kernel does to a task that is inside a call:        *)
(* sched_signal(u, SIG_CONT) makes a BLOCKED task READY, sched_kill(u) ends *)
(* it where it stands.  Neither knows of the lists of waiters.              *)
Continued(u) ==
  /\ \E t \in Tasks : Calls(t, "cont")
  /\ state[u] = "BLOCKED"
  /\ state' = Unblocked({u})
  /\ UNCHANGED <<queueVars, listVars, callVars>>

Kill(u) ==
  /\ \E t \in Tasks \ {u} : Calls(t, "kill")
  /\ state[u] # "DEAD"
  /\ state' = [state EXCEPT ![u] = "DEAD"]
  /\ UNCHANGED <<queueVars, listVars, callVars>>

DisturbedNext == Next \/ \E u \in Tasks : Continued(u) \/ Kill(u)

\* The queues with a kernel that also kills and continues their users.
DisturbedSpec == Init /\ [][DisturbedNext]_vars

\* The scheduler is round robin: a READY task gets on with the call it is in.
FairSpec == Spec /\ \A t \in Tasks : WF_vars(Step(t))

----------------------------------------------------------------------------
(* Properties *)

TypeOK ==
  /\ active    \in [Queues -> BOOLEAN]
  /\ name      \in [Queues -> Names]
  /\ ring      \in [Queues -> [0 .. Capacity - 1 -> Messages \cup {NoMsg}]]
  /\ head      \in [Queues -> 0 .. Capacity - 1]
  /\ tail      \in [Queues -> 0 .. Capacity - 1]
  /\ count     \in [Queues -> 0 .. Capacity]
  /\ senders   \in [Queues -> Seq(Tasks)]
  /\ receivers \in [Queues -> Seq(Tasks)]
  /\ state     \in [Tasks -> {"READY", "BLOCKED", "DEAD"}]
  /\ pc        \in [Tasks -> Points]
  /\ queue     \in [Tasks -> Queues \cup {NoQ}]
  /\ msg       \in [Tasks -> Messages \cup {NoMsg}]
  /\ orphan    \in [Tasks -> BOOLEAN]

\* The ring index i places behind the head.
Slot(q, i) ==
  IF head[q] + i < Capacity THEN head[q] + i ELSE head[q] + i - Capacity

Content(q) == [i \in 1 .. count[q] |-> ring[q][Slot(q, i - 1)]]

\* Every queue is a bounded FIFO: no message is lost, duplicated, reordered or
\* overwritten, whichever way senders and receivers interleave.
Fifo == INSTANCE BoundedQueue WITH
          open <- {q \in Queues : active[q]}, content <- [q \in Queues |-> Content(q)]
FifoSpec == Fifo!Spec

\* The message a receiver has copied is still the oldest one of its queue when
\* the head moves past it: no two receivers return the same message.
CopiedIsHead ==
  \A t \in Tasks : pc[t] = "copied" => /\ count[queue[t]] > 0
                                       /\ msg[t] = ring[queue[t]][head[queue[t]]]

InCall(t, q, P) == queue[t] = q /\ pc[t] \in P
Asleep(t, q, p) == queue[t] = q /\ pc[t] = p /\ state[t] = "BLOCKED"

\* No wakeup is lost: while a receiver is asleep on q, each message in q has
\* somebody who is about to take it, or a sender who is about to wake somebody.
ReceiversWoken ==
  \A q \in Queues :
    (active[q] /\ \E t \in Tasks : Asleep(t, q, "recvWoken"))
    => count[q] <= Cardinality({t \in Tasks :
         /\ state[t] = "READY"
         /\ InCall(t, q, {"published"} \cup (Receiving \ {"advanced"}))})

\* The same of a sender asleep on q and the free places in q.
SendersWoken ==
  \A q \in Queues :
    (active[q] /\ \E t \in Tasks : Asleep(t, q, "sendWoken"))
    => Capacity - count[q] <= Cardinality({t \in Tasks :
         /\ state[t] = "READY"
         /\ InCall(t, q, {"advanced"} \cup (Sending \ {"published"}))})

\* On neither side is a wakeup lost.
NoWakeupLost == ReceiversWoken /\ SendersWoken

\* Nobody sleeps on a queue that is gone: ipc_destroy wakes every blocked task.
NobodySleepsOnDestroyed ==
  \A t \in Tasks, q \in Queues :
    Asleep(t, q, "sendWoken") \/ Asleep(t, q, "recvWoken") => active[q]

\* A call that was made on a queue since destroyed fails: it touches no message
\* of the queue that has the slot now.
OrphansFail == \A t \in Tasks : orphan[t] => pc[t] \notin {"filled", "copied"}

\* A sleeping receiver is woken, or the messages are taken by others.
ReceiversServed ==
  \A t \in Tasks, q \in Queues :
    (Asleep(t, q, "recvWoken") /\ count[q] > 0)
    ~> (~Asleep(t, q, "recvWoken") \/ count[q] = 0)

============================================================================
