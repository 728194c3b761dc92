------------------------------ MODULE IpcProofs ------------------------------
(***************************************************************************)
(* Every queue of kernel/ipc.c is a bounded FIFO, for any number of tasks, *)
(* queues, messages and any capacity, whoever is killed or continued, as   *)
(* long as no timer interrupt lands where Cut says.                        *)
(***************************************************************************)
EXTENDS Ipc, SequenceTheorems, TLAPS

\* The points at which a caller relies on what it has read: that the queue is
\* active, has room or has a message, and where head and tail are.
Cut == {"sendTest", "sendRoom", "filled", "recvTest", "recvFound", "copied"}

NoCut == Windows \cap Cut = {}

\* At most one task stands at such a point.
Exclusive ==
  \A t, u \in Tasks : t # u /\ pc[t] \in Cut => pc[u] \notin Cut

\* A call knows its queue, and a sender its message.
CallKnown ==
  \A t \in Tasks :
    /\ pc[t] # "user" => queue[t] \in Queues
    /\ pc[t] \in Sending => msg[t] \in Messages
    /\ pc[t] \in Cut => active[queue[t]]

\* head, tail and count agree.
RingAgrees == \A q \in Queues : tail[q] = Slot(q, count[q])

\* A message being sent is in place, and has room.
FilledIsTail ==
  \A t \in Tasks : pc[t] = "filled" => /\ count[queue[t]] < Capacity
                                       /\ ring[queue[t]][tail[queue[t]]] = msg[t]

IpcInv ==
  TypeOK /\ Exclusive /\ CallKnown /\ RingAgrees /\ FilledIsTail /\ CopiedIsHead

----------------------------------------------------------------------------
\* The ring index moves as `(i + 1) % IPC_QUEUE_CAPACITY' does.
LEMMA Wrap ==
  ASSUME NEW i \in 0 .. Capacity - 1
  PROVE  (i + 1) % Capacity = IF i + 1 = Capacity THEN 0 ELSE i + 1
BY IpcAssumption

\* Taking the last task off a list of waiters leaves a list of tasks.
LEMMA PoppedType ==
  ASSUME NEW list \in Seq(Tasks)
  PROVE  Popped(list) \in Seq(Tasks)
BY DEF Popped, Front

\* So does adding one.
LEMMA ListedType ==
  ASSUME NEW list \in Seq(Tasks), NEW t \in Tasks
  PROVE  Listed(list, t) \in Seq(Tasks)
BY DEF Listed

\* sched_unblock leaves every task in a state of the scheduler.
LEMMA UnblockedType ==
  ASSUME TypeOK, NEW S
  PROVE  Unblocked(S) \in [Tasks -> {"READY", "BLOCKED", "DEAD"}]
BY DEF TypeOK, Unblocked

\* While t runs nobody else stands at a point of Cut.
LEMMA Alone ==
  ASSUME NoCut, NEW t \in Tasks, Running(t)
  PROVE  \A u \in Tasks \ {t} : pc[u] \notin Cut
BY DEF NoCut, Running, Rest, Cut

\* ipc_init establishes the invariant.
LEMMA InitInv == Init => IpcInv
<1> SUFFICES ASSUME Init PROVE IpcInv
  OBVIOUS
<1>1. TypeOK
  BY IpcAssumption DEF Init, TypeOK, Queues, Points
<1>2. Exclusive /\ CallKnown /\ FilledIsTail /\ CopiedIsHead
  BY DEF Init, Exclusive, CallKnown, FilledIsTail, CopiedIsHead, Cut, Sending
<1>3. RingAgrees
  BY IpcAssumption DEF Init, RingAgrees, Slot
<1> QED BY <1>1, <1>2, <1>3 DEF IpcInv

\* A call that returns and leaves the queues alone.
LEMMA ReturnInv ==
  ASSUME IpcInv, NEW t \in Tasks, Return(t), UNCHANGED <<queueVars, listVars, state>>
  PROVE  IpcInv'
<1> USE DEF IpcInv, Return, queueVars, listVars
<1>1. TypeOK'
  BY DEF TypeOK, Points, Queues, NoQ
<1>2. Exclusive'
  BY DEF Exclusive, TypeOK, Cut
<1>3. CallKnown'
  BY DEF CallKnown, TypeOK, Cut, Sending
<1>4. RingAgrees'
  BY DEF RingAgrees, Slot
<1>5. FilledIsTail' /\ CopiedIsHead'
  BY DEF FilledIsTail, CopiedIsHead, TypeOK
<1> QED BY <1>1, <1>2, <1>3, <1>4, <1>5

\* A step of t that leaves the queues alone, and is not the copy of a message.
LEMMA MoveInv ==
  ASSUME IpcInv, NoCut, NEW t \in Tasks, Running(t), UNCHANGED queueVars, TypeOK',
         \A u \in Tasks \ {t} :
           pc'[u] = pc[u] /\ queue'[u] = queue[u] /\ msg'[u] = msg[u],
         pc'[t] \notin {"filled", "copied"},
         pc'[t] # "user" => queue'[t] \in Queues,
         pc'[t] \in Sending => msg'[t] \in Messages,
         pc'[t] \in Cut => active[queue'[t]]
  PROVE  IpcInv'
<1>1. \A u \in Tasks \ {t} : pc[u] \notin Cut
  BY Alone
<1>2. Exclusive'
  BY <1>1 DEF Exclusive
<1>3. CallKnown'
  BY DEF IpcInv, CallKnown, queueVars
<1>4. RingAgrees'
  BY DEF IpcInv, RingAgrees, Slot, queueVars
<1>5. FilledIsTail' /\ CopiedIsHead'
  BY <1>1 DEF FilledIsTail, CopiedIsHead, Cut
<1> QED BY <1>2, <1>3, <1>4, <1>5 DEF IpcInv

\* ipc_create resets the slot it takes: no call in Cut is on it.
LEMMA CreateInv ==
  ASSUME IpcInv, NoCut, NEW t \in Tasks, NEW n \in Names, Create(t, n)
  PROVE  IpcInv'
<1> USE DEF IpcInv, Running, Calls, At, Goto, Return, Enter, queueVars, listVars, callVars
<1>0. \A u \in Tasks \ {t} : pc[u] \notin Cut
  BY Alone DEF Create
<1>p. PICK q \in Queues :
       /\ ~active[q]
       /\ active' = [active EXCEPT ![q] = TRUE]
       /\ name'   = [name EXCEPT ![q] = n]
       /\ head'   = [head EXCEPT ![q] = 0]
       /\ tail'   = [tail EXCEPT ![q] = 0]
       /\ count'  = [count EXCEPT ![q] = 0]
       /\ senders'   = [senders EXCEPT ![q] = <<>>]
       /\ receivers' = [receivers EXCEPT ![q] = <<>>]
  BY DEF Create
<1>u. UNCHANGED <<ring, state, callVars>>
  BY DEF Create
<1>1. TypeOK'
  BY <1>p, <1>u, IpcAssumption DEF TypeOK
<1>2. Exclusive' /\ CallKnown'
  BY <1>p, <1>u DEF Exclusive, CallKnown, TypeOK
<1>3. RingAgrees'
  BY <1>p, <1>u, IpcAssumption DEF RingAgrees, Slot, TypeOK
<1>4. FilledIsTail' /\ CopiedIsHead'
  BY <1>0, <1>p, <1>u DEF Create, FilledIsTail, CopiedIsHead, TypeOK, Cut
<1> QED BY <1>1, <1>2, <1>3, <1>4

\* ipc_destroy finds an active queue.
LEMMA DestroyBeginInv ==
  ASSUME IpcInv, NoCut, NEW t \in Tasks, NEW q \in Queues, DestroyBegin(t, q)
  PROVE  IpcInv'
<1> USE DEF Calls, At, Goto, Return, Enter
<1>1. queue[t] \in Queues \/ pc[t] = "user"
  BY DEF IpcInv, CallKnown
<1>2. TypeOK'
  BY <1>1, UnblockedType, ListedType
     DEF DestroyBegin, IpcInv, TypeOK, queueVars, listVars, callVars, Queues, Points, Rest, Sending, Receiving
<1> QED BY <1>1, <1>2, MoveInv
     DEF DestroyBegin, IpcInv, CallKnown, TypeOK, queueVars, Sending, Cut, Queues

\* ipc_destroy clears active: no other call is in Cut.
LEMMA DestroyEndInv ==
  ASSUME IpcInv, NoCut, NEW t \in Tasks, DestroyEnd(t)
  PROVE  IpcInv'
<1> USE DEF IpcInv, Running, Calls, At, Goto, Return, Enter, queueVars, listVars, callVars
<1>0. \A u \in Tasks \ {t} : pc[u] \notin Cut
  BY Alone DEF DestroyEnd
<1>1. TypeOK'
  BY IpcAssumption, UnblockedType, ListedType, PoppedType
     DEF DestroyEnd, TypeOK, Queues, Points, Rest, Sending, Receiving, WakesOne
<1>2. Exclusive' /\ CallKnown'
  BY <1>0 DEF DestroyEnd, Exclusive, CallKnown, TypeOK, Cut, Sending, Queues
<1>3. RingAgrees'
  BY DEF DestroyEnd, RingAgrees, Slot, TypeOK
<1>4. FilledIsTail' /\ CopiedIsHead'
  BY <1>0 DEF DestroyEnd, FilledIsTail, CopiedIsHead, CallKnown, TypeOK, Cut
<1> QED BY <1>1, <1>2, <1>3, <1>4

\* ipc_send is called on an active queue.
LEMMA SendInv ==
  ASSUME IpcInv, NoCut, NEW t \in Tasks, NEW q \in Queues, NEW m \in Messages,
         Send(t, q, m)
  PROVE  IpcInv'
<1> USE DEF Calls, At, Goto, Return, Enter
<1>1. queue[t] \in Queues \/ pc[t] = "user"
  BY DEF IpcInv, CallKnown
<1>2. TypeOK'
  BY <1>1, UnblockedType, ListedType
     DEF Send, IpcInv, TypeOK, queueVars, listVars, callVars, Queues, Points, Rest, Sending, Receiving
<1> QED BY <1>1, <1>2, MoveInv
     DEF Send, IpcInv, CallKnown, TypeOK, queueVars, Sending, Cut, Queues

\* ipc_try_send is called on an active queue with room.
LEMMA TrySendInv ==
  ASSUME IpcInv, NoCut, NEW t \in Tasks, NEW q \in Queues, NEW m \in Messages,
         TrySend(t, q, m)
  PROVE  IpcInv'
<1> USE DEF Calls, At, Goto, Return, Enter
<1>1. queue[t] \in Queues \/ pc[t] = "user"
  BY DEF IpcInv, CallKnown
<1>2. TypeOK'
  BY <1>1, UnblockedType, ListedType
     DEF TrySend, IpcInv, TypeOK, queueVars, listVars, callVars, Queues, Points, Rest, Sending, Receiving
<1> QED BY <1>1, <1>2, MoveInv
     DEF TrySend, IpcInv, CallKnown, TypeOK, queueVars, Sending, Cut, Queues

\* A sender looks at count: full or not.
LEMMA SendTestInv ==
  ASSUME IpcInv, NoCut, NEW t \in Tasks, SendTest(t)
  PROVE  IpcInv'
<1> USE DEF Calls, At, Goto, Return, Enter
<1>1. queue[t] \in Queues \/ pc[t] = "user"
  BY DEF IpcInv, CallKnown
<1>2. TypeOK'
  BY <1>1, UnblockedType, ListedType
     DEF SendTest, IpcInv, TypeOK, queueVars, listVars, callVars, Queues, Points, Rest, Sending, Receiving
<1> QED BY <1>1, <1>2, MoveInv
     DEF SendTest, IpcInv, CallKnown, TypeOK, queueVars, Sending, Cut, Queues

\* A sender enters the list of the blocked.
LEMMA SendListInv ==
  ASSUME IpcInv, NoCut, NEW t \in Tasks, SendList(t)
  PROVE  IpcInv'
<1> USE DEF Calls, At, Goto, Return, Enter
<1>1. queue[t] \in Queues \/ pc[t] = "user"
  BY DEF IpcInv, CallKnown
<1>2. TypeOK'
  BY <1>1, UnblockedType, ListedType
     DEF SendList, IpcInv, TypeOK, queueVars, listVars, callVars, Queues, Points, Rest, Sending, Receiving
<1> QED BY <1>1, <1>2, MoveInv
     DEF SendList, IpcInv, CallKnown, TypeOK, queueVars, Sending, Cut, Queues

\* A sender blocks.
LEMMA SendBlockInv ==
  ASSUME IpcInv, NoCut, NEW t \in Tasks, SendBlock(t)
  PROVE  IpcInv'
<1> USE DEF Calls, At, Goto, Return, Enter
<1>1. queue[t] \in Queues \/ pc[t] = "user"
  BY DEF IpcInv, CallKnown
<1>2. TypeOK'
  BY <1>1, UnblockedType, ListedType
     DEF SendBlock, IpcInv, TypeOK, queueVars, listVars, callVars, Queues, Points, Rest, Sending, Receiving
<1> QED BY <1>1, <1>2, MoveInv
     DEF SendBlock, IpcInv, CallKnown, TypeOK, queueVars, Sending, Cut, Queues

\* A sender is back, and only goes on with an active queue.
LEMMA SendWakeInv ==
  ASSUME IpcInv, NoCut, NEW t \in Tasks, SendWake(t)
  PROVE  IpcInv'
<1>0. /\ Running(t) /\ queue[t] \in Queues
      /\ UNCHANGED <<queueVars, listVars, state>>
  BY DEF SendWake, At, IpcInv, CallKnown
<1>1. CASE active[queue[t]]
  <2>0. /\ pc' = [pc EXCEPT ![t] = "sendTest"]
        /\ UNCHANGED <<queue, msg, orphan>>
        /\ pc[t] \in {"sendWoken", "recvWoken"}
    BY <1>1 DEF SendWake, At, Goto
  <2>1. TypeOK'
    BY <1>0, <2>0 DEF IpcInv, TypeOK, queueVars, listVars, Points, Sending, Receiving
  <2>2. pc'[t] = "sendTest" /\ \A u \in Tasks \ {t} : pc'[u] = pc[u]
    BY <2>0 DEF IpcInv, TypeOK
  <2>3. pc'[t] \in Sending => msg'[t] \in Messages
    BY <2>0, <2>2 DEF SendWake, At, IpcInv, CallKnown, Sending
  <2> QED BY <1>0, <1>1, <2>0, <2>1, <2>2, <2>3, MoveInv
<1>2. CASE ~active[queue[t]]
  BY <1>0, <1>2, ReturnInv DEF SendWake
<1> QED BY <1>1, <1>2

\* _enqueue writes the message to the slot at tail.
LEMMA FillInv ==
  ASSUME IpcInv, NoCut, NEW t \in Tasks, Fill(t)
  PROVE  IpcInv'
<1> USE DEF IpcInv, Running, Calls, At, Goto, Return, Enter, queueVars, listVars, callVars
<1>0. \A u \in Tasks \ {t} : pc[u] \notin Cut
  BY Alone DEF Fill
<1>a. queue[t] \in Queues /\ msg[t] \in Messages /\ active[queue[t]]
  BY DEF Fill, CallKnown, Sending, Cut
<1>b. /\ tail[queue[t]] \in 0 .. Capacity - 1
      /\ count[queue[t]] \in 0 .. Capacity
  BY <1>a DEF TypeOK
<1>1. CASE count[queue[t]] >= Capacity
  <2>1. Return(t) /\ UNCHANGED <<queueVars, listVars, state>>
    BY <1>1 DEF Fill
  <2> QED BY <2>1, ReturnInv
<1>2. CASE ~(count[queue[t]] >= Capacity)
  <2>0. /\ ring' = [ring EXCEPT ![queue[t]][tail[queue[t]]] = msg[t]]
        /\ pc' = [pc EXCEPT ![t] = "filled"] /\ UNCHANGED <<queue, msg, orphan>>
        /\ UNCHANGED <<active, name, head, tail, count, listVars, state>>
    BY <1>2 DEF Fill
  <2>r. /\ ring' \in [Queues -> [0 .. Capacity - 1 -> Messages \cup {NoMsg}]]
        /\ ring'[queue[t]][tail[queue[t]]] = msg[t]
    BY <1>a, <1>b, <2>0 DEF TypeOK
  <2>1. TypeOK'
    BY <2>0, <2>r DEF TypeOK, Points, Sending
  <2>2. Exclusive'
    BY <1>0, <2>0 DEF Exclusive, TypeOK, Cut
  <2>3. CallKnown'
    BY <1>a, <2>0 DEF CallKnown, TypeOK, Cut, Sending
  <2>4. RingAgrees'
    BY <2>0 DEF RingAgrees, Slot
  <2>5. FilledIsTail' /\ CopiedIsHead'
    BY <1>0, <1>2, <1>b, <2>0, <2>r, IpcAssumption
       DEF FilledIsTail, CopiedIsHead, TypeOK, Cut
  <2> QED BY <2>1, <2>2, <2>3, <2>4, <2>5
<1> QED BY <1>1, <1>2

\* _enqueue moves tail and count together.
LEMMA PublishInv ==
  ASSUME IpcInv, NoCut, NEW t \in Tasks, Publish(t)
  PROVE  IpcInv'
<1> USE DEF IpcInv, Running, Calls, At, Goto, Return, Enter, queueVars, listVars, callVars
<1>0. \A u \in Tasks \ {t} : pc[u] \notin Cut
  BY Alone DEF Publish
<1>a. /\ queue[t] \in Queues /\ active[queue[t]]
      /\ count[queue[t]] < Capacity
  BY DEF Publish, CallKnown, Cut, FilledIsTail
<1>b. /\ count[queue[t]] \in 0 .. Capacity - 1
      /\ head[queue[t]] \in 0 .. Capacity - 1
      /\ tail[queue[t]] \in 0 .. Capacity - 1
      /\ tail[queue[t]] = Slot(queue[t], count[queue[t]])
  BY <1>a, IpcAssumption DEF TypeOK, RingAgrees
<1>c. (tail[queue[t]] + 1) % Capacity =
        IF tail[queue[t]] + 1 = Capacity THEN 0 ELSE tail[queue[t]] + 1
  BY <1>b, Wrap
<1>1. TypeOK'
  <2>1. tail' \in [Queues -> 0 .. Capacity - 1]
    <3>1. PICK c \in 0 .. Capacity - 1 : c = (tail[queue[t]] + 1) % Capacity
      BY <1>b, <1>c, IpcAssumption
    <3>2. tail' = [tail EXCEPT ![queue[t]] = c]
      BY <3>1 DEF Publish
    <3>3. tail \in [Queues -> 0 .. Capacity - 1]
      BY DEF TypeOK
    <3> HIDE DEF IpcInv
    <3> QED BY <3>2, <3>3
  <2>2. count' \in [Queues -> 0 .. Capacity]
    <3>1. PICK c \in 0 .. Capacity : c = count[queue[t]] + 1
      BY <1>b, IpcAssumption
    <3>2. count' = [count EXCEPT ![queue[t]] = c]
      BY <3>1 DEF Publish
    <3>3. count \in [Queues -> 0 .. Capacity]
      BY DEF TypeOK
    <3> HIDE DEF IpcInv
    <3> QED BY <3>2, <3>3
  <2>3. pc' \in [Tasks -> Points]
    BY DEF Publish, TypeOK, Points, Sending
  <2>4. UNCHANGED <<active, name, ring, head, senders, receivers, state, queue, msg, orphan>>
    BY DEF Publish
  <2> QED BY <2>1, <2>2, <2>3, <2>4 DEF TypeOK
<1>2. Exclusive' /\ CallKnown'
  BY <1>0 DEF Publish, Exclusive, CallKnown, TypeOK, Cut, Sending
<1>3. RingAgrees'
  <2>1. ASSUME NEW q \in Queues, q # queue[t] PROVE tail'[q] = Slot(q, count[q])'
    BY <1>a, <2>1 DEF Publish, RingAgrees, Slot, TypeOK
  <2>2. /\ tail'[queue[t]] = (tail[queue[t]] + 1) % Capacity
        /\ count'[queue[t]] = count[queue[t]] + 1
        /\ head'[queue[t]] = head[queue[t]]
    BY <1>a DEF Publish, TypeOK
  <2>3. tail'[queue[t]] = IF head'[queue[t]] + count'[queue[t]] < Capacity
                          THEN head'[queue[t]] + count'[queue[t]]
                          ELSE head'[queue[t]] + count'[queue[t]] - Capacity
    BY <2>2, <1>b, <1>c, IpcAssumption DEF Slot
  <2> QED BY <2>1, <2>3, <1>1 DEF RingAgrees, Slot
<1>4. FilledIsTail' /\ CopiedIsHead'
  BY <1>0 DEF Publish, FilledIsTail, CopiedIsHead, TypeOK, Cut
<1> QED BY <1>1, <1>2, <1>3, <1>4

\* A sender wakes a receiver and returns.
LEMMA WakeReceiverInv ==
  ASSUME IpcInv, NoCut, NEW t \in Tasks, WakeReceiver(t)
  PROVE  IpcInv'
<1> USE DEF Calls, At, Goto, Return, Enter
<1>1. /\ queue[t] \in Queues
      /\ state' \in [Tasks -> {"READY", "BLOCKED", "DEAD"}]
      /\ Popped(receivers[queue[t]]) \in Seq(Tasks)
  BY UnblockedType, PoppedType DEF WakeReceiver, IpcInv, CallKnown, TypeOK, WakesOne
<1>2. TypeOK'
  BY <1>1 DEF WakeReceiver, IpcInv, TypeOK, queueVars, Queues, Points
<1> QED BY <1>2, MoveInv DEF WakeReceiver, IpcInv, TypeOK, Sending, Cut

\* ipc_recv is called on an active queue.
LEMMA RecvInv ==
  ASSUME IpcInv, NoCut, NEW t \in Tasks, NEW q \in Queues, Recv(t, q)
  PROVE  IpcInv'
<1> USE DEF Calls, At, Goto, Return, Enter
<1>1. queue[t] \in Queues \/ pc[t] = "user"
  BY DEF IpcInv, CallKnown
<1>2. TypeOK'
  BY <1>1, UnblockedType, ListedType
     DEF Recv, IpcInv, TypeOK, queueVars, listVars, callVars, Queues, Points, Rest, Sending, Receiving
<1> QED BY <1>1, <1>2, MoveInv
     DEF Recv, IpcInv, CallKnown, TypeOK, queueVars, Sending, Cut, Queues

\* ipc_try_recv is called on an active queue with a message.
LEMMA TryRecvInv ==
  ASSUME IpcInv, NoCut, NEW t \in Tasks, NEW q \in Queues, TryRecv(t, q)
  PROVE  IpcInv'
<1> USE DEF Calls, At, Goto, Return, Enter
<1>1. queue[t] \in Queues \/ pc[t] = "user"
  BY DEF IpcInv, CallKnown
<1>2. TypeOK'
  BY <1>1, UnblockedType, ListedType
     DEF TryRecv, IpcInv, TypeOK, queueVars, listVars, callVars, Queues, Points, Rest, Sending, Receiving
<1> QED BY <1>1, <1>2, MoveInv
     DEF TryRecv, IpcInv, CallKnown, TypeOK, queueVars, Sending, Cut, Queues

\* A receiver looks at count: empty or not.
LEMMA RecvTestInv ==
  ASSUME IpcInv, NoCut, NEW t \in Tasks, RecvTest(t)
  PROVE  IpcInv'
<1> USE DEF Calls, At, Goto, Return, Enter
<1>1. queue[t] \in Queues \/ pc[t] = "user"
  BY DEF IpcInv, CallKnown
<1>2. TypeOK'
  BY <1>1, UnblockedType, ListedType
     DEF RecvTest, IpcInv, TypeOK, queueVars, listVars, callVars, Queues, Points, Rest, Sending, Receiving
<1> QED BY <1>1, <1>2, MoveInv
     DEF RecvTest, IpcInv, CallKnown, TypeOK, queueVars, Sending, Cut, Queues

\* A receiver enters the list of the blocked.
LEMMA RecvListInv ==
  ASSUME IpcInv, NoCut, NEW t \in Tasks, RecvList(t)
  PROVE  IpcInv'
<1> USE DEF Calls, At, Goto, Return, Enter
<1>1. queue[t] \in Queues \/ pc[t] = "user"
  BY DEF IpcInv, CallKnown
<1>2. TypeOK'
  BY <1>1, UnblockedType, ListedType
     DEF RecvList, IpcInv, TypeOK, queueVars, listVars, callVars, Queues, Points, Rest, Sending, Receiving
<1> QED BY <1>1, <1>2, MoveInv
     DEF RecvList, IpcInv, CallKnown, TypeOK, queueVars, Sending, Cut, Queues

\* A receiver blocks.
LEMMA RecvBlockInv ==
  ASSUME IpcInv, NoCut, NEW t \in Tasks, RecvBlock(t)
  PROVE  IpcInv'
<1> USE DEF Calls, At, Goto, Return, Enter
<1>1. queue[t] \in Queues \/ pc[t] = "user"
  BY DEF IpcInv, CallKnown
<1>2. TypeOK'
  BY <1>1, UnblockedType, ListedType
     DEF RecvBlock, IpcInv, TypeOK, queueVars, listVars, callVars, Queues, Points, Rest, Sending, Receiving
<1> QED BY <1>1, <1>2, MoveInv
     DEF RecvBlock, IpcInv, CallKnown, TypeOK, queueVars, Sending, Cut, Queues

\* A receiver is back, and only goes on with an active queue.
LEMMA RecvWakeInv ==
  ASSUME IpcInv, NoCut, NEW t \in Tasks, RecvWake(t)
  PROVE  IpcInv'
<1>0. /\ Running(t) /\ queue[t] \in Queues
      /\ UNCHANGED <<queueVars, listVars, state>>
  BY DEF RecvWake, At, IpcInv, CallKnown
<1>1. CASE active[queue[t]]
  <2>0. /\ pc' = [pc EXCEPT ![t] = "recvTest"]
        /\ UNCHANGED <<queue, msg, orphan>>
        /\ pc[t] \in {"sendWoken", "recvWoken"}
    BY <1>1 DEF RecvWake, At, Goto
  <2>1. TypeOK'
    BY <1>0, <2>0 DEF IpcInv, TypeOK, queueVars, listVars, Points, Sending, Receiving
  <2>2. pc'[t] = "recvTest" /\ \A u \in Tasks \ {t} : pc'[u] = pc[u]
    BY <2>0 DEF IpcInv, TypeOK
  <2>3. pc'[t] \in Sending => msg'[t] \in Messages
    BY <2>2 DEF Sending
  <2> QED BY <1>0, <1>1, <2>0, <2>1, <2>2, <2>3, MoveInv
<1>2. CASE ~active[queue[t]]
  BY <1>0, <1>2, ReturnInv DEF RecvWake
<1> QED BY <1>1, <1>2

\* _dequeue copies the message at head.
LEMMA CopyInv ==
  ASSUME IpcInv, NoCut, NEW t \in Tasks, Copy(t)
  PROVE  IpcInv'
<1> USE DEF IpcInv, Running, Calls, At, Goto, Return, Enter, queueVars, listVars, callVars
<1>0. \A u \in Tasks \ {t} : pc[u] \notin Cut
  BY Alone DEF Copy
<1>a. queue[t] \in Queues /\ active[queue[t]]
  BY DEF Copy, CallKnown, Cut
<1>b. /\ head[queue[t]] \in 0 .. Capacity - 1
      /\ count[queue[t]] \in 0 .. Capacity
      /\ ring[queue[t]][head[queue[t]]] \in Messages \cup {NoMsg}
  <2>1. /\ head[queue[t]] \in 0 .. Capacity - 1
        /\ count[queue[t]] \in 0 .. Capacity
        /\ ring[queue[t]] \in [0 .. Capacity - 1 -> Messages \cup {NoMsg}]
    BY <1>a DEF TypeOK
  <2> QED BY <2>1
<1>1. CASE count[queue[t]] = 0
  <2>1. Return(t) /\ UNCHANGED <<queueVars, listVars, state>>
    BY <1>1 DEF Copy
  <2> QED BY <2>1, ReturnInv
<1>2. CASE count[queue[t]] # 0
  <2>0. /\ msg' = [msg EXCEPT ![t] = ring[queue[t]][head[queue[t]]]]
        /\ pc' = [pc EXCEPT ![t] = "copied"] /\ UNCHANGED <<queue, orphan>>
        /\ UNCHANGED <<queueVars, listVars, state>>
    BY <1>2 DEF Copy
  <2>1. TypeOK'
    BY <1>b, <2>0 DEF TypeOK, Points, Receiving
  <2>2. Exclusive'
    BY <1>0, <2>0 DEF Exclusive, TypeOK, Cut
  <2>3. CallKnown'
    BY <1>a, <2>0 DEF CallKnown, TypeOK, Cut, Sending
  <2>4. RingAgrees'
    BY <2>0 DEF RingAgrees, Slot
  <2>5. FilledIsTail' /\ CopiedIsHead'
    BY <1>0, <1>2, <1>b, <2>0, IpcAssumption
       DEF FilledIsTail, CopiedIsHead, TypeOK, Cut
  <2> QED BY <2>1, <2>2, <2>3, <2>4, <2>5
<1> QED BY <1>1, <1>2

\* _dequeue moves head and count together.
LEMMA AdvanceInv ==
  ASSUME IpcInv, NoCut, NEW t \in Tasks, Advance(t)
  PROVE  IpcInv'
<1> USE DEF IpcInv, Running, Calls, At, Goto, Return, Enter, queueVars, listVars, callVars
<1>0. \A u \in Tasks \ {t} : pc[u] \notin Cut
  BY Alone DEF Advance
<1>a. /\ queue[t] \in Queues /\ active[queue[t]]
      /\ count[queue[t]] > 0
  BY DEF Advance, CallKnown, Cut, CopiedIsHead
<1>b. /\ count[queue[t]] \in 1 .. Capacity
      /\ head[queue[t]] \in 0 .. Capacity - 1
      /\ tail[queue[t]] = Slot(queue[t], count[queue[t]])
  BY <1>a, IpcAssumption DEF TypeOK, RingAgrees
<1>c. (head[queue[t]] + 1) % Capacity =
        IF head[queue[t]] + 1 = Capacity THEN 0 ELSE head[queue[t]] + 1
  BY <1>b, Wrap
<1>1. TypeOK'
  <2>1. head' \in [Queues -> 0 .. Capacity - 1]
    <3>1. PICK c \in 0 .. Capacity - 1 : c = (head[queue[t]] + 1) % Capacity
      BY <1>b, <1>c, IpcAssumption
    <3>2. head' = [head EXCEPT ![queue[t]] = c]
      BY <3>1 DEF Advance
    <3>3. head \in [Queues -> 0 .. Capacity - 1]
      BY DEF TypeOK
    <3> HIDE DEF IpcInv
    <3> QED BY <3>2, <3>3
  <2>2. count' \in [Queues -> 0 .. Capacity]
    <3>1. PICK c \in 0 .. Capacity : c = count[queue[t]] - 1
      BY <1>b, IpcAssumption
    <3>2. count' = [count EXCEPT ![queue[t]] = c]
      BY <3>1 DEF Advance
    <3>3. count \in [Queues -> 0 .. Capacity]
      BY DEF TypeOK
    <3> HIDE DEF IpcInv
    <3> QED BY <3>2, <3>3
  <2>3. pc' \in [Tasks -> Points]
    BY DEF Advance, TypeOK, Points, Receiving
  <2>4. UNCHANGED <<active, name, ring, tail, senders, receivers, state, queue, msg, orphan>>
    BY DEF Advance
  <2> QED BY <2>1, <2>2, <2>3, <2>4 DEF TypeOK
<1>2. Exclusive' /\ CallKnown'
  BY <1>0 DEF Advance, Exclusive, CallKnown, TypeOK, Cut, Sending
<1>3. RingAgrees'
  <2>1. ASSUME NEW q \in Queues, q # queue[t] PROVE tail'[q] = Slot(q, count[q])'
    BY <1>a, <2>1 DEF Advance, RingAgrees, Slot, TypeOK
  <2>2. /\ tail'[queue[t]] = tail[queue[t]]
        /\ count'[queue[t]] = count[queue[t]] - 1
        /\ head'[queue[t]] = (head[queue[t]] + 1) % Capacity
    BY <1>a DEF Advance, TypeOK
  <2>3. tail'[queue[t]] = IF head'[queue[t]] + count'[queue[t]] < Capacity
                          THEN head'[queue[t]] + count'[queue[t]]
                          ELSE head'[queue[t]] + count'[queue[t]] - Capacity
    BY <2>2, <1>b, <1>c, IpcAssumption DEF Slot
  <2> QED BY <2>1, <2>3, <1>1 DEF RingAgrees, Slot
<1>4. FilledIsTail' /\ CopiedIsHead'
  BY <1>0 DEF Advance, FilledIsTail, CopiedIsHead, TypeOK, Cut
<1> QED BY <1>1, <1>2, <1>3, <1>4

\* A receiver wakes a sender and returns.
LEMMA WakeSenderInv ==
  ASSUME IpcInv, NoCut, NEW t \in Tasks, WakeSender(t)
  PROVE  IpcInv'
<1> USE DEF Calls, At, Goto, Return, Enter
<1>1. /\ queue[t] \in Queues
      /\ state' \in [Tasks -> {"READY", "BLOCKED", "DEAD"}]
      /\ Popped(senders[queue[t]]) \in Seq(Tasks)
  BY UnblockedType, PoppedType DEF WakeSender, IpcInv, CallKnown, TypeOK, WakesOne
<1>2. TypeOK'
  BY <1>1 DEF WakeSender, IpcInv, TypeOK, queueVars, Queues, Points
<1> QED BY <1>2, MoveInv DEF WakeSender, IpcInv, TypeOK, Sending, Cut

\* Tasks that are continued or killed where they stand.
LEMMA DisturbedInv ==
  ASSUME IpcInv, NEW u \in Tasks, Continued(u) \/ Kill(u)
  PROVE  IpcInv'
<1> USE DEF IpcInv, queueVars, listVars, callVars
<1>0. UNCHANGED <<queueVars, listVars, callVars>>
  BY DEF Continued, Kill
<1>1. TypeOK'
  <2>1. CASE Continued(u)
    BY <1>0, <2>1, UnblockedType DEF Continued, TypeOK
  <2>2. CASE Kill(u)
    <3>1. state' \in [Tasks -> {"READY", "BLOCKED", "DEAD"}]
      BY <2>2 DEF Kill, TypeOK
    <3> QED BY <1>0, <3>1 DEF TypeOK
  <2> QED BY <2>1, <2>2
<1>2. Exclusive' /\ CallKnown'
  BY <1>0 DEF Exclusive, CallKnown
<1>3. RingAgrees' /\ FilledIsTail' /\ CopiedIsHead'
  BY <1>0 DEF RingAgrees, Slot, FilledIsTail, CopiedIsHead
<1> QED BY <1>1, <1>2, <1>3

\* Every step of a call, and every disturbance, keeps the invariant.
LEMMA NextInv ==
  ASSUME IpcInv, NoCut, [DisturbedNext]_vars
  PROVE  IpcInv'
<1>1. CASE UNCHANGED vars
  BY <1>1 DEF IpcInv, TypeOK, Exclusive, CallKnown, RingAgrees, FilledIsTail,
     CopiedIsHead, Slot, vars, queueVars, listVars, callVars
<1>2. CASE \E u \in Tasks : Continued(u) \/ Kill(u)
  BY <1>2, DisturbedInv
<1>3. ASSUME NEW t \in Tasks, Step(t) PROVE IpcInv'
  BY <1>3, DestroyEndInv, SendTestInv, SendListInv, SendBlockInv, SendWakeInv,
     FillInv, PublishInv, WakeReceiverInv, RecvTestInv, RecvListInv,
     RecvBlockInv, RecvWakeInv, CopyInv, AdvanceInv, WakeSenderInv DEF Step
<1>4. ASSUME NEW t \in Tasks, Begin(t) PROVE IpcInv'
  BY <1>4, CreateInv, DestroyBeginInv, SendInv, TrySendInv, RecvInv, TryRecvInv
     DEF Begin
<1> QED BY <1>1, <1>2, <1>3, <1>4 DEF DisturbedNext, Next

\* The inductive invariant holds of the queues, disturbed or not.
THEOREM IpcInvariant ==
  ASSUME NoCut
  PROVE  DisturbedSpec => []IpcInv
<1>1. Init => IpcInv
  BY InitInv
<1>2. IpcInv /\ [DisturbedNext]_vars => IpcInv'
  BY NextInv
<1> QED BY <1>1, <1>2, PTL DEF DisturbedSpec

\* Undisturbed use of the queues is a special case.
LEMMA SpecIsDisturbed == Spec => DisturbedSpec
<1>1. [Next]_vars => [DisturbedNext]_vars
  BY DEF DisturbedNext
<1> QED BY <1>1, PTL DEF Spec, DisturbedSpec

\* Every variable of kernel/ipc.c keeps to its range: in particular no queue
\* holds more than IPC_QUEUE_CAPACITY messages and count never goes below 0.
THEOREM TypeCorrect ==
  ASSUME NoCut
  PROVE  DisturbedSpec => []TypeOK
<1>1. IpcInv => TypeOK
  BY DEF IpcInv
<1> QED BY <1>1, IpcInvariant, PTL

\* A message that _dequeue has copied is still the oldest one when the head
\* moves past it.
THEOREM NoMessageTwice ==
  ASSUME NoCut
  PROVE  DisturbedSpec => []CopiedIsHead
<1>1. IpcInv => CopiedIsHead
  BY DEF IpcInv
<1> QED BY <1>1, IpcInvariant, PTL

----------------------------------------------------------------------------
(* The queues implement BoundedQueue *)

Open     == {q \in Queues : active[q]}
Contents == [q \in Queues |-> Content(q)]

\* ipc_init: no queue exists.
LEMMA InitRefines == Init => Fifo!Init
BY IpcAssumption DEF Init, Fifo!Init, Content

\* The content of a queue is a sequence of `count' messages.
ContentOK ==
  \A q \in Queues :
    /\ Content(q) \in Seq(Messages \cup {NoMsg})
    /\ Len(Content(q)) = count[q]
    /\ \A i \in 1 .. count[q] : /\ Slot(q, i - 1) \in 0 .. Capacity - 1
                                /\ Content(q)[i] = ring[q][Slot(q, i - 1)]

\* Slots are ring indices, so that the content is a sequence.
LEMMA ContentIsSeq == TypeOK => ContentOK
<1> SUFFICES ASSUME TypeOK, NEW q \in Queues
    PROVE  /\ Content(q) \in Seq(Messages \cup {NoMsg})
           /\ Len(Content(q)) = count[q]
           /\ \A i \in 1 .. count[q] : /\ Slot(q, i - 1) \in 0 .. Capacity - 1
                                       /\ Content(q)[i] = ring[q][Slot(q, i - 1)]
  BY DEF ContentOK
<1>1. /\ count[q] \in 0 .. Capacity
      /\ head[q] \in 0 .. Capacity - 1
      /\ ring[q] \in [0 .. Capacity - 1 -> Messages \cup {NoMsg}]
  BY DEF TypeOK
<1>2. \A i \in 1 .. count[q] : Slot(q, i - 1) \in 0 .. Capacity - 1
  BY <1>1, IpcAssumption DEF Slot
<1>3. Content(q) \in [1 .. count[q] -> Messages \cup {NoMsg}]
  BY <1>1, <1>2 DEF Content
<1>4. Content(q) \in Seq(Messages \cup {NoMsg}) /\ Len(Content(q)) = count[q]
  BY <1>1, <1>3
<1> QED BY <1>2, <1>4 DEF Content

\* The same after a step.
LEMMA ContentIsSeqPrime == TypeOK' => ContentOK'
BY ContentIsSeq, PTL

\* A queue whose indices stay, and whose slots in use stay, has the same content.
LEMMA ContentStays ==
  ASSUME NEW q \in Queues, head'[q] = head[q], count'[q] = count[q],
         \A i \in 1 .. count[q] : ring'[q][Slot(q, i - 1)] = ring[q][Slot(q, i - 1)]
  PROVE  Content(q)' = Content(q)
<1>1. \A i : Slot(q, i)' = Slot(q, i)
  BY DEF Slot
<1> QED BY <1>1 DEF Content

\* What does not touch a queue is a stuttering step.
LEMMA QuietRefines ==
  ASSUME UNCHANGED <<active, ring, head, count>>
  PROVE  UNCHANGED <<Open, Contents>>
BY DEF Open, Contents, Content, Slot

\* The slot that _enqueue writes is not one of those that hold a message.
LEMMA FillRefines ==
  ASSUME IpcInv, NEW t \in Tasks, Fill(t)
  PROVE  UNCHANGED <<Open, Contents>>
<1>0. UNCHANGED <<active, head, count>>
  BY DEF Fill
<1>1. CASE count[queue[t]] >= Capacity
  BY <1>0, <1>1, QuietRefines DEF Fill
<1>2. CASE ~(count[queue[t]] >= Capacity)
  <2>0. PICK q \in Queues : q = queue[t]
    BY DEF IpcInv, CallKnown, Fill, At
  <2>1. /\ count[q] \in 0 .. Capacity - 1
        /\ head[q] \in 0 .. Capacity - 1
        /\ tail[q] = Slot(q, count[q])
    BY <1>2, <2>0, IpcAssumption DEF IpcInv, TypeOK, RingAgrees
  <2>2. ring' = [ring EXCEPT ![q][tail[q]] = msg[t]]
    BY <1>2, <2>0 DEF Fill
  <2>3. \A i \in 1 .. count[q] : Slot(q, i - 1) # tail[q]
    BY <2>1, IpcAssumption DEF Slot
  <2>4. ring \in [Queues -> [0 .. Capacity - 1 -> Messages \cup {NoMsg}]]
    BY DEF IpcInv, TypeOK
  <2>5. \A i \in 1 .. count[q] : ring'[q][Slot(q, i - 1)] = ring[q][Slot(q, i - 1)]
    BY <2>2, <2>3, <2>4, ContentIsSeq DEF ContentOK, IpcInv
  <2>6. \A r \in Queues \ {q} : ring'[r] = ring[r]
    BY <2>2, <2>4
  <2>7. \A r \in Queues : Content(r)' = Content(r)
    BY <1>0, <2>5, <2>6, ContentStays
  <2> QED BY <1>0, <2>7 DEF Open, Contents
<1> QED BY <1>1, <1>2

\* _enqueue appends the message when it moves the tail.
LEMMA PublishRefines ==
  ASSUME IpcInv, IpcInv', NEW t \in Tasks, Publish(t)
  PROVE  \E q \in Queues, m \in Messages : Fifo!Put(q, m)
<1>0. PICK q \in Queues : q = queue[t]
  BY DEF IpcInv, CallKnown, Publish, At
<1>1. /\ active[q] /\ msg[t] \in Messages /\ count[q] < Capacity
      /\ ring[q][tail[q]] = msg[t]
  BY <1>0 DEF IpcInv, CallKnown, FilledIsTail, Publish, At, Cut, Sending
<1>2. /\ count[q] \in Nat
      /\ tail[q] = Slot(q, count[q])
      /\ count' = [count EXCEPT ![q] = @ + 1]
      /\ UNCHANGED <<active, head, ring>>
      /\ count \in [Queues -> 0 .. Capacity]
  BY <1>0, IpcAssumption DEF IpcInv, TypeOK, RingAgrees, Publish
<1>3. \A i : \A r \in Queues : Slot(r, i)' = Slot(r, i)
  BY <1>2 DEF Slot
<1>4. Content(q)' = Append(Content(q), msg[t])
  <2>1. /\ Content(q) \in Seq(Messages \cup {NoMsg})
        /\ Len(Content(q)) = count[q]
        /\ \A i \in 1 .. count[q] : Content(q)[i] = ring[q][Slot(q, i - 1)]
    BY ContentIsSeq DEF ContentOK, IpcInv
  <2>2. /\ Content(q)' \in Seq(Messages \cup {NoMsg})
        /\ Len(Content(q)') = count[q] + 1
        /\ \A i \in 1 .. count[q] + 1 : Content(q)'[i] = ring[q][Slot(q, i - 1)]
    <3>1. ContentOK'
      BY ContentIsSeqPrime DEF IpcInv
    <3>2. /\ Content(q)' \in Seq(Messages \cup {NoMsg})
          /\ Len(Content(q)') = count'[q]
          /\ \A i \in 1 .. count'[q] : Content(q)'[i] = ring'[q][Slot(q, i - 1)']
      BY <3>1 DEF ContentOK
    <3> QED BY <1>2, <1>3, <3>2
  <2>3. Append(Content(q), msg[t]) \in Seq(Messages \cup {NoMsg})
    BY <1>1, <2>1
  <2>4. \A i \in 1 .. count[q] + 1 : Content(q)'[i] = Append(Content(q), msg[t])[i]
    BY <1>1, <1>2, <2>1, <2>2
  <2> QED BY <2>1, <2>2, <2>3, <2>4, SeqEqual
<1>5. \A r \in Queues \ {q} : Content(r)' = Content(r)
  BY <1>2, ContentStays
<1>6. Len(Content(q)) < Capacity
  BY <1>1, ContentIsSeq DEF ContentOK, IpcInv
<1>7. Contents' = [Contents EXCEPT ![q] = Append(@, msg[t])]
  BY <1>4, <1>5 DEF Contents
<1> QED BY <1>1, <1>2, <1>6, <1>7 DEF Fifo!Put, Contents

\* _dequeue takes the oldest message when it moves the head.
LEMMA AdvanceRefines ==
  ASSUME IpcInv, IpcInv', NEW t \in Tasks, Advance(t)
  PROVE  \E q \in Queues : Fifo!Take(q)
<1>0. PICK q \in Queues : q = queue[t]
  BY DEF IpcInv, CallKnown, Advance, At
<1>1. active[q] /\ count[q] > 0
  BY <1>0 DEF IpcInv, CallKnown, CopiedIsHead, Advance, At, Cut
<1>2. /\ count[q] \in 1 .. Capacity
      /\ head[q] \in 0 .. Capacity - 1
      /\ head' = [head EXCEPT ![q] = (@ + 1) % Capacity]
      /\ count' = [count EXCEPT ![q] = @ - 1]
      /\ UNCHANGED <<active, ring>>
      /\ count \in [Queues -> 0 .. Capacity]
      /\ head \in [Queues -> 0 .. Capacity - 1]
  BY <1>0, <1>1, IpcAssumption DEF IpcInv, TypeOK, Advance
<1>3. \A i \in 1 .. count[q] - 1 : Slot(q, i - 1)' = Slot(q, i)
  <2>1. head'[q] = IF head[q] + 1 = Capacity THEN 0 ELSE head[q] + 1
    BY <1>2, Wrap
  <2> QED BY <1>2, <2>1, IpcAssumption DEF Slot
<1>4. Content(q)' = Tail(Content(q))
  <2>1. /\ Content(q) \in Seq(Messages \cup {NoMsg})
        /\ Len(Content(q)) = count[q]
        /\ \A i \in 1 .. count[q] : Content(q)[i] = ring[q][Slot(q, i - 1)]
    BY ContentIsSeq DEF ContentOK, IpcInv
  <2>2. /\ Content(q)' \in Seq(Messages \cup {NoMsg})
        /\ Len(Content(q)') = count[q] - 1
        /\ \A i \in 1 .. count[q] - 1 : Content(q)'[i] = ring[q][Slot(q, i)]
    <3>1. ContentOK'
      BY ContentIsSeqPrime DEF IpcInv
    <3>2. /\ Content(q)' \in Seq(Messages \cup {NoMsg})
          /\ Len(Content(q)') = count'[q]
          /\ \A i \in 1 .. count'[q] : Content(q)'[i] = ring'[q][Slot(q, i - 1)']
      BY <3>1 DEF ContentOK
    <3> QED BY <1>2, <1>3, <3>2
  <2>3. /\ Tail(Content(q)) \in Seq(Messages \cup {NoMsg})
        /\ Len(Tail(Content(q))) = count[q] - 1
        /\ \A i \in 1 .. count[q] - 1 : Tail(Content(q))[i] = Content(q)[i + 1]
    BY <1>2, <2>1
  <2>4. \A i \in 1 .. count[q] - 1 : Content(q)'[i] = Tail(Content(q))[i]
    <3> TAKE i \in 1 .. count[q] - 1
    <3>1. i + 1 \in 1 .. count[q] /\ (i + 1) - 1 = i
      BY <1>2
    <3> QED BY <2>1, <2>2, <2>3, <3>1
  <2> QED BY <2>2, <2>3, <2>4, SeqEqual
<1>5. \A r \in Queues \ {q} : Content(r)' = Content(r)
  BY <1>2, ContentStays
<1>6. Content(q) # <<>>
  BY <1>1, ContentIsSeq DEF ContentOK, IpcInv
<1>7. Contents' = [Contents EXCEPT ![q] = Tail(@)]
  BY <1>4, <1>5 DEF Contents
<1> QED BY <1>1, <1>2, <1>6, <1>7 DEF Fifo!Take, Contents

\* ipc_create opens a queue that was not open, and empties it.
LEMMA CreateRefines ==
  ASSUME IpcInv, NEW t \in Tasks, NEW n \in Names, Create(t, n)
  PROVE  \E q \in Queues : Fifo!Create(q)
<1>1. PICK q \in Queues :
       /\ ~active[q]
       /\ active' = [active EXCEPT ![q] = TRUE]
       /\ head'   = [head EXCEPT ![q] = 0]
       /\ count'  = [count EXCEPT ![q] = 0]
  BY DEF Create
<1>2. UNCHANGED ring
  BY DEF Create
<1>3. /\ active \in [Queues -> BOOLEAN]
      /\ head \in [Queues -> 0 .. Capacity - 1]
      /\ count \in [Queues -> 0 .. Capacity]
  BY DEF IpcInv, TypeOK
<1>4. Content(q)' = <<>>
  <2>1. count'[q] = 0
    BY <1>1, <1>3
  <2> QED BY <2>1 DEF Content
<1>5. \A r \in Queues \ {q} : Content(r)' = Content(r)
  BY <1>1, <1>2, <1>3, ContentStays
<1>6. Contents' = [Contents EXCEPT ![q] = <<>>]
  BY <1>4, <1>5 DEF Contents
<1>7. q \notin Open /\ Open' = Open \cup {q}
  BY <1>1, <1>3 DEF Open
<1> QED BY <1>6, <1>7 DEF Fifo!Create, Open, Contents

\* ipc_destroy closes a queue, unless somebody else has.
LEMMA DestroyEndRefines ==
  ASSUME IpcInv, NEW t \in Tasks, DestroyEnd(t)
  PROVE  (\E q \in Queues : Fifo!Destroy(q)) \/ UNCHANGED <<Open, Contents>>
<1>0. PICK q \in Queues : q = queue[t]
  BY DEF IpcInv, CallKnown, DestroyEnd, At
<1>1. /\ active' = [active EXCEPT ![q] = FALSE]
      /\ UNCHANGED <<ring, head, count>>
      /\ active \in [Queues -> BOOLEAN]
  BY <1>0 DEF DestroyEnd, IpcInv, TypeOK
<1>2. Contents' = Contents
  BY <1>1 DEF Contents, Content, Slot
<1>3. CASE active[q]
  <2>1. q \in Open /\ Open' = Open \ {q}
    BY <1>1, <1>3 DEF Open
  <2> QED BY <1>2, <2>1 DEF Fifo!Destroy, Open, Contents
<1>4. CASE ~active[q]
  BY <1>1, <1>2, <1>4 DEF Open
<1> QED BY <1>3, <1>4

\* Every step of the queues is a step of BoundedQueue or leaves it alone.
LEMMA NextRefines ==
  ASSUME IpcInv, IpcInv', [DisturbedNext]_vars
  PROVE  [Fifo!Next]_<<Open, Contents>>
<1>1. CASE UNCHANGED vars
  BY <1>1, QuietRefines DEF vars, queueVars
<1>2. CASE \E u \in Tasks : Continued(u) \/ Kill(u)
  BY <1>2, QuietRefines DEF Continued, Kill, queueVars
<1>3. ASSUME NEW t \in Tasks, Step(t) PROVE [Fifo!Next]_<<Open, Contents>>
  <2>1. CASE DestroyEnd(t)
    BY <2>1, DestroyEndRefines DEF Fifo!Next
  <2>2. CASE Fill(t)
    BY <2>2, FillRefines
  <2>3. CASE Publish(t)
    BY <2>3, PublishRefines DEF Fifo!Next
  <2>4. CASE Advance(t)
    BY <2>4, AdvanceRefines DEF Fifo!Next
  <2>5. CASE \/ SendTest(t) \/ SendList(t) \/ SendBlock(t) \/ SendWake(t)
             \/ WakeReceiver(t) \/ WakeSender(t) \/ Copy(t)
             \/ RecvTest(t) \/ RecvList(t) \/ RecvBlock(t) \/ RecvWake(t)
    <3>1. UNCHANGED queueVars
      BY <2>5 DEF SendTest, SendList, SendBlock, SendWake, WakeReceiver,
         WakeSender, Copy, RecvTest, RecvList, RecvBlock, RecvWake, queueVars
    <3> QED BY <3>1, QuietRefines DEF queueVars
  <2> QED BY <1>3, <2>1, <2>2, <2>3, <2>4, <2>5 DEF Step
<1>4. ASSUME NEW t \in Tasks, Begin(t) PROVE [Fifo!Next]_<<Open, Contents>>
  <2>1. CASE \E n \in Names : Create(t, n)
    BY <2>1, CreateRefines DEF Fifo!Next
  <2>2. CASE \E q \in Queues : \/ DestroyBegin(t, q) \/ Recv(t, q) \/ TryRecv(t, q)
                               \/ \E m \in Messages : Send(t, q, m) \/ TrySend(t, q, m)
    <3>1. UNCHANGED queueVars
      BY <2>2 DEF DestroyBegin, Recv, TryRecv, Send, TrySend
    <3> QED BY <3>1, QuietRefines DEF queueVars
  <2> QED BY <1>4, <2>1, <2>2 DEF Begin
<1> QED BY <1>1, <1>2, <1>3, <1>4 DEF DisturbedNext, Next

\* kernel/ipc.c implements BoundedQueue: whichever way calls interleave, and
\* whoever is killed or continued in them, no message of a queue is lost,
\* duplicated, reordered or overwritten, provided no timer lands in Cut.
THEOREM FifoImplemented ==
  ASSUME NoCut
  PROVE  DisturbedSpec => FifoSpec
<1>1. Init => Fifo!Init
  BY InitRefines
<1>2. IpcInv /\ IpcInv' /\ [DisturbedNext]_vars => [Fifo!Next]_<<Open, Contents>>
  BY NextRefines
<1>3. DisturbedSpec => []IpcInv
  BY IpcInvariant
<1> QED BY <1>1, <1>2, <1>3, PTL DEF DisturbedSpec, FifoSpec, Fifo!Spec, Open, Contents

\* In particular the specification that the runs check implements it.
THEOREM SpecImplementsFifo ==
  ASSUME NoCut
  PROVE  Spec => FifoSpec
BY SpecIsDisturbed, FifoImplemented, PTL

=============================================================================
