----------------------------- MODULE IpcWakeProofs -----------------------------
(***************************************************************************)
(* No wakeup of kernel/ipc.c is lost and nobody sleeps on a queue that is  *)
(* gone, for any number of tasks and queues and any capacity: the lists of *)
(* blocked tasks hold exactly those who sleep, each of them once.          *)
(***************************************************************************)
EXTENDS IpcProofs, FiniteSetTheorems

\* The points at which others may stand while a task runs.
Quiet == Rest \cup {"published", "advanced"}

\* A call is interrupted while its caller sleeps, or between the move of the ring
\* and the wakeup.  The second only when there is one queue: the list of a queue
\* that is gone may name a task that sleeps on another one by now.
Settled == Windows \subseteq Quiet /\ (Windows \subseteq Rest \/ MaxQueues = 1)

\* The list of blocked tasks, of SCHED_MAX_TASKS, has room for all of them.
EveryoneFits == IsFiniteSet(Tasks) /\ Cardinality(Tasks) <= MaxWaiters

\* ipc_destroy has woken everybody, and not yet closed q.
Ending(q) == \E d \in Tasks : pc[d] = "destroying" /\ queue[d] = q

\* No task is in the list twice.
Once(list) == \A i, j \in DOMAIN list : list[i] = list[j] => i = j

\* t is in its call on q from the time it is listed until it is woken.
Awaits(t, q, listed, woken) ==
  queue[t] = q /\ \/ pc[t] = listed /\ state[t] = "READY"
                  \/ pc[t] = woken  /\ state[t] = "BLOCKED"

WaitList(list, q, listed, woken) ==
  Once(list) /\ \A i \in DOMAIN list : Awaits(list[i], q, listed, woken)

\* Who is in a list sleeps on that queue, or is about to.
ListsSound ==
  \A q \in Queues : active[q] /\ ~Ending(q) =>
    /\ WaitList(senders[q], q, "sendListed", "sendWoken")
    /\ WaitList(receivers[q], q, "recvListed", "recvWoken")

\* Who sleeps is in the list, and the queue is there.
SleepersListed ==
  \A t \in Tasks :
    /\ state[t] # "DEAD"
    /\ state[t] = "BLOCKED" =>
         /\ active[queue[t]] /\ ~Ending(queue[t])
         /\ \/ pc[t] = "sendWoken" /\ t \in ToSet(senders[queue[t]])
            \/ pc[t] = "recvWoken" /\ t \in ToSet(receivers[queue[t]])
    /\ pc[t] = "sendListed" => t \in ToSet(senders[queue[t]])
    /\ pc[t] = "recvListed" => t \in ToSet(receivers[queue[t]])

\* What a call has found out about its queue still holds.
CallsSound ==
  \A t \in Tasks :
    /\ pc[t] \in {"sendFull", "sendListed"} => count[queue[t]] = Capacity
    /\ pc[t] \in {"recvEmpty", "recvListed"} => count[queue[t]] = 0
    /\ pc[t] \in {"sendFull", "sendListed", "recvEmpty", "recvListed", "destroying"}
         => active[queue[t]]
    /\ pc[t] \in {"published", "advanced"} => active[queue[t]] \/ MaxQueues = 1

\* The inductive invariant.
WakeInv == ListsSound /\ SleepersListed /\ CallsSound /\ NoWakeupLost

\* The queues are FIFO under the same condition.
LEMMA SettledNoCut == Settled => NoCut
BY DEF Settled, NoCut, Quiet, Rest, Cut

\* While t runs the others stand at quiet points.
LEMMA OthersQuiet ==
  ASSUME Settled, NEW t \in Tasks, Running(t)
  PROVE  /\ state[t] = "READY"
         /\ \A u \in Tasks \ {t} : pc[u] \in Quiet
BY DEF Settled, Running, Quiet

\* A list that holds each of its tasks once has room for one that is not in it.
LEMMA RoomInList ==
  ASSUME EveryoneFits, NEW list \in Seq(Tasks), Once(list),
         NEW t \in Tasks, t \notin ToSet(list)
  PROVE  /\ Listed(list, t) = Append(list, t)
         /\ Once(Append(list, t))
         /\ ToSet(Append(list, t)) = ToSet(list) \cup {t}
<1> DEFINE T == Tasks \ {t}
<1>1. IsFiniteSet(T) /\ Cardinality(T) = Cardinality(Tasks) - 1 /\ Cardinality(Tasks) \in Nat
  BY FS_RemoveElement, FS_CardinalityType DEF EveryoneFits
<1>2. list \in [1 .. Len(list) -> T]
  BY DEF ToSet
<1>3. Len(list) \in Nat /\ IsFiniteSet(1 .. Len(list)) /\ Cardinality(1 .. Len(list)) = Len(list)
  <2>1. Len(list) \in Nat
    OBVIOUS
  <2>2. IsFiniteSet(1 .. Len(list)) /\ Cardinality(1 .. Len(list)) = IF 1 > Len(list) THEN 0 ELSE Len(list) - 1 + 1
    BY <2>1, FS_Interval
  <2> QED BY <2>1, <2>2
<1> HIDE DEF T
<1>4. Len(list) <= Cardinality(T)
  <2> SUFFICES ASSUME ~(Len(list) <= Cardinality(T)) PROVE FALSE
    OBVIOUS
  <2>1. Cardinality(T) < Cardinality(1 .. Len(list))
    BY <1>1, <1>3
  <2>2. \E x, y \in 1 .. Len(list) : x # y /\ list[x] = list[y]
    BY <1>1, <1>2, <1>3, <2>1, FS_PigeonHole
  <2> QED BY <2>2 DEF Once
<1>5. Len(list) < MaxWaiters
  BY <1>1, <1>3, <1>4, IpcAssumption DEF EveryoneFits
<1>6. Listed(list, t) = Append(list, t)
  BY <1>5 DEF Listed
<1>7. Once(Append(list, t)) /\ ToSet(Append(list, t)) = ToSet(list) \cup {t}
  <2>1. /\ DOMAIN list = 1 .. Len(list)
        /\ DOMAIN Append(list, t) = 1 .. Len(list) + 1
        /\ \A i \in 1 .. Len(list) : Append(list, t)[i] = list[i]
        /\ Append(list, t)[Len(list) + 1] = t
    BY <1>3
  <2>2. \A i \in 1 .. Len(list) : list[i] # t
    BY <2>1 DEF ToSet
  <2>3. Once(Append(list, t))
    BY <1>3, <2>1, <2>2 DEF Once
  <2>4. ToSet(Append(list, t)) = ToSet(list) \cup {t}
    BY <1>3, <2>1 DEF ToSet
  <2> QED BY <2>3, <2>4
<1> QED BY <1>6, <1>7

\* The last task of such a list is out of it when it is taken off.
LEMMA LastLeaves ==
  ASSUME NEW list \in Seq(Tasks), Once(list), list # <<>>
  PROVE  /\ Last(list) \in Tasks /\ Last(list) \in ToSet(list)
         /\ Once(Popped(list))
         /\ ToSet(Popped(list)) = ToSet(list) \ {Last(list)}
<1>1. /\ Len(list) \in Nat \ {0} /\ DOMAIN list = 1 .. Len(list)
      /\ DOMAIN Popped(list) = 1 .. Len(list) - 1
      /\ \A i \in 1 .. Len(list) - 1 : Popped(list)[i] = list[i]
  BY DEF Popped, Front
<1>2. Last(list) = list[Len(list)]
  BY DEF Last
<1> QED BY <1>1, <1>2 DEF Once, ToSet

\* How a count follows the number of tasks that answer for it.
LEMMA Counted ==
  ASSUME EveryoneFits, NEW S \in SUBSET Tasks, NEW T \in SUBSET Tasks, NEW t,
         NEW c \in Nat, NEW d \in Nat, c <= Cardinality(S),
         \/ d = 0
         \/ S \subseteq T /\ d <= c
         \/ S \ {t} \subseteq T /\ d < c
         \/ S \subseteq T /\ t \in T \ S /\ d <= c + 1
         \/ \E u \in T \ S : S \ {t} \subseteq T /\ d <= c
  PROVE  d <= Cardinality(T)
<1>1. IsFiniteSet(Tasks)
  BY DEF EveryoneFits
<1>2. IsFiniteSet(S) /\ IsFiniteSet(T) /\ Cardinality(S) \in Nat /\ Cardinality(T) \in Nat
  BY <1>1, FS_Subset, FS_CardinalityType
<1>3. CASE S \subseteq T /\ d <= c
  BY <1>2, <1>3, FS_Subset
<1>4. CASE S \ {t} \subseteq T /\ d < c
  <2>1. Cardinality(S \ {t}) >= Cardinality(S) - 1
    <3>1. Cardinality(S \ {t}) = IF t \in S THEN Cardinality(S) - 1 ELSE Cardinality(S)
      BY <1>2, FS_RemoveElement
    <3> QED BY <1>2, <3>1
  <2>2. Cardinality(S \ {t}) <= Cardinality(T) /\ Cardinality(S \ {t}) \in Nat
    BY <1>2, <1>4, FS_Subset, FS_CardinalityType
  <2> QED BY <1>2, <1>4, <2>1, <2>2
<1>5. CASE S \subseteq T /\ t \in T \ S /\ d <= c + 1
  <2>1. Cardinality(S \cup {t}) = Cardinality(S) + 1
    BY <1>2, <1>5, FS_AddElement
  <2>2. Cardinality(S \cup {t}) <= Cardinality(T)
    BY <1>2, <1>5, FS_Subset
  <2> QED BY <1>2, <1>5, <2>1, <2>2
<1>6. ASSUME NEW u \in T \ S, S \ {t} \subseteq T, d <= c PROVE d <= Cardinality(T)
  <2>0. IsFiniteSet(S \ {t}) /\ Cardinality(S \ {t}) \in Nat /\ Cardinality(S \ {t}) >= Cardinality(S) - 1
    <3>1. /\ IsFiniteSet(S \ {t})
          /\ Cardinality(S \ {t}) = IF t \in S THEN Cardinality(S) - 1 ELSE Cardinality(S)
      BY <1>2, FS_RemoveElement
    <3>2. Cardinality(S \ {t}) \in Nat
      BY <3>1, FS_CardinalityType
    <3> QED BY <1>2, <3>1, <3>2
  <2>1. Cardinality((S \ {t}) \cup {u}) = Cardinality(S \ {t}) + 1
    BY <2>0, <1>6, FS_AddElement
  <2>2. Cardinality((S \ {t}) \cup {u}) <= Cardinality(T)
    BY <1>2, <1>6, FS_Subset
  <2> QED BY <1>2, <1>6, <2>0, <2>1, <2>2
<1>7. CASE d = 0
  BY <1>2, <1>7
<1> QED BY <1>3, <1>4, <1>5, <1>6, <1>7

\* Those who are about to take a message of q, or to wake somebody who will.
Takers(q) == {t \in Tasks : state[t] = "READY"
                /\ InCall(t, q, {"published"} \cup (Receiving \ {"advanced"}))}

\* The same for the free places of q.
Givers(q) == {t \in Tasks : state[t] = "READY"
                /\ InCall(t, q, {"advanced"} \cup (Sending \ {"published"}))}

\* Only t moves.
Others(t) == \A u \in Tasks \ {t} : pc'[u] = pc[u] /\ queue'[u] = queue[u]

\* What a step of t may do to the count of q.
Balanced(t, q) ==
  \/ /\ count'[q] = count[q]
     /\ t \in Takers(q) => t \in Takers(q)' \/ count'[q] = 0
     /\ t \in Givers(q) => t \in Givers(q)' \/ count'[q] = Capacity
  \/ count'[q] = count[q] + 1 /\ t \in Takers(q)' \ Takers(q)
  \/ count'[q] = count[q] - 1 /\ t \in Givers(q)' \ Givers(q)

\* A step that blocks and wakes nobody.
LEMMA MoveCounts ==
  ASSUME TypeOK, TypeOK', NoWakeupLost, EveryoneFits, NEW t \in Tasks, state[t] = "READY",
         Others(t), UNCHANGED <<active, state>>, \A q \in Queues : active[q] => Balanced(t, q)
  PROVE  NoWakeupLost'
<1>1. ReceiversWoken'
  <2> SUFFICES ASSUME NEW q \in Queues, active[q], NEW u \in Tasks, Asleep(u, q, "recvWoken")'
               PROVE  count'[q] <= Cardinality(Takers(q)')
    BY DEF ReceiversWoken, Takers
  <2>1. Asleep(u, q, "recvWoken")
    BY DEF Asleep, Others
  <2>2. count[q] <= Cardinality(Takers(q))
    BY <2>1 DEF NoWakeupLost, ReceiversWoken, Takers
  <2>3. Takers(q) \ {t} \subseteq Takers(q)'
    BY DEF Takers, Others, InCall
  <2>4. Takers(q) \in SUBSET Tasks /\ Takers(q)' \in SUBSET Tasks
    BY DEF Takers
  <2>5. count[q] \in Nat /\ count'[q] \in Nat /\ Balanced(t, q)
    BY IpcAssumption DEF TypeOK
  <2>6. \/ count'[q] = 0
        \/ Takers(q) \subseteq Takers(q)' /\ count'[q] <= count[q]
        \/ Takers(q) \ {t} \subseteq Takers(q)' /\ count'[q] < count[q]
        \/ Takers(q) \subseteq Takers(q)' /\ t \in Takers(q)' \ Takers(q) /\ count'[q] <= count[q] + 1
    BY <2>3, <2>5 DEF Balanced
  <2> QED BY <2>2, <2>4, <2>5, <2>6, Counted
<1>2. SendersWoken'
  <2> SUFFICES ASSUME NEW q \in Queues, active[q], NEW u \in Tasks, Asleep(u, q, "sendWoken")'
               PROVE  Capacity - count'[q] <= Cardinality(Givers(q)')
    BY DEF SendersWoken, Givers
  <2>1. Asleep(u, q, "sendWoken")
    BY DEF Asleep, Others
  <2>2. Capacity - count[q] <= Cardinality(Givers(q))
    BY <2>1 DEF NoWakeupLost, SendersWoken, Givers
  <2>3. Givers(q) \ {t} \subseteq Givers(q)'
    BY DEF Givers, Others, InCall
  <2>4. Givers(q) \in SUBSET Tasks /\ Givers(q)' \in SUBSET Tasks
    BY DEF Givers
  <2> DEFINE c == Capacity - count[q]
             d == Capacity - count'[q]
  <2>5. c \in Nat /\ d \in Nat /\ Balanced(t, q) /\ count[q] \in Nat /\ count'[q] \in Nat
    BY IpcAssumption DEF TypeOK
  <2>6. \/ d = 0
        \/ Givers(q) \subseteq Givers(q)' /\ d <= c
        \/ Givers(q) \ {t} \subseteq Givers(q)' /\ d < c
        \/ Givers(q) \subseteq Givers(q)' /\ t \in Givers(q)' \ Givers(q) /\ d <= c + 1
    BY <2>3, <2>5, IpcAssumption DEF Balanced
  <2> HIDE DEF c, d
  <2>7. d <= Cardinality(Givers(q)')
    BY <2>2, <2>4, <2>5, <2>6, Counted DEF c
  <2> QED BY <2>7 DEF d
<1> QED BY <1>1, <1>2 DEF NoWakeupLost

\* A step that leaves the lists and the states of tasks alone.
LEMMA MoveLists ==
  ASSUME TypeOK, ListsSound, SleepersListed, NEW t \in Tasks, state[t] = "READY",
         Others(t), UNCHANGED <<active, listVars, state>>,
         pc[t] \notin {"sendListed", "recvListed", "destroying"},
         pc'[t] \notin {"sendListed", "recvListed", "destroying"}
  PROVE  ListsSound' /\ SleepersListed'
<1>1. \A q : Ending(q)' = Ending(q)
  BY DEF Ending, Others
<1>2. ListsSound'
  <2>1. \A q \in Queues, u \in Tasks :
          /\ Awaits(u, q, "sendListed", "sendWoken") => Awaits(u, q, "sendListed", "sendWoken")'
          /\ Awaits(u, q, "recvListed", "recvWoken") => Awaits(u, q, "recvListed", "recvWoken")'
    BY DEF Awaits, Others
  <2>2. \A q \in Queues : /\ \A i \in DOMAIN senders[q] : senders[q][i] \in Tasks
                          /\ \A i \in DOMAIN receivers[q] : receivers[q][i] \in Tasks
    BY DEF TypeOK
  <2> QED BY <1>1, <2>1, <2>2 DEF ListsSound, WaitList, Once, listVars
<1>3. SleepersListed'
  BY <1>1 DEF SleepersListed, Others, listVars, ToSet
<1> QED BY <1>2, <1>3

\* Where another task stands is settled when t runs.
LEMMA MoveCalls ==
  ASSUME CallsSound, Settled, NEW t \in Tasks, Running(t), Others(t), active' = active,
         pc'[t] \in {"sendFull", "sendListed"} => count'[queue'[t]] = Capacity,
         pc'[t] \in {"recvEmpty", "recvListed"} => count'[queue'[t]] = 0,
         pc'[t] \in {"sendFull", "sendListed", "recvEmpty", "recvListed", "destroying"}
           => active[queue'[t]],
         pc'[t] \in {"published", "advanced"} => active[queue'[t]] \/ MaxQueues = 1
  PROVE  CallsSound'
BY OthersQuiet DEF CallsSound, Others, Quiet, Rest

\* A step that blocks and wakes nobody keeps all of it.
LEMMA MoveWake ==
  ASSUME IpcInv, IpcInv', WakeInv, Settled, EveryoneFits, NEW t \in Tasks, Running(t),
         Others(t), UNCHANGED <<active, listVars, state>>,
         pc[t] \notin {"sendListed", "recvListed", "destroying"},
         pc'[t] \notin {"sendListed", "recvListed", "destroying"},
         pc'[t] = "sendFull" => count'[queue'[t]] = Capacity,
         pc'[t] = "recvEmpty" => count'[queue'[t]] = 0,
         pc'[t] \in {"sendFull", "recvEmpty", "published", "advanced"} => active[queue'[t]],
         \A q \in Queues : active[q] => Balanced(t, q)
  PROVE  WakeInv'
<1>1. ListsSound' /\ SleepersListed'
  BY OthersQuiet, MoveLists DEF IpcInv, WakeInv
<1>2. CallsSound'
  BY MoveCalls DEF WakeInv
<1>3. NoWakeupLost'
  BY OthersQuiet, MoveCounts DEF IpcInv, WakeInv
<1> QED BY <1>1, <1>2, <1>3 DEF WakeInv

\* The steps of ipc_send that touch neither lists nor states.
LEMMA SendWakes ==
  ASSUME IpcInv, IpcInv', WakeInv, Settled, EveryoneFits, NEW t \in Tasks,
         \/ \E q \in Queues, m \in Messages : Send(t, q, m) \/ TrySend(t, q, m)
         \/ SendTest(t) \/ SendWake(t) \/ Fill(t) \/ Publish(t)
  PROVE  WakeInv'
<1> USE DEF Calls, At, Enter, Goto, Return, queueVars
<1>1. Running(t) /\ UNCHANGED <<active, listVars, state>>
  BY DEF Send, TrySend, SendTest, SendWake, Fill, Publish
<1>2. Others(t)
  BY DEF Send, TrySend, SendTest, SendWake, Fill, Publish, Others, IpcInv, TypeOK
<1>3. /\ pc[t] \in {"user", "sendTest", "sendWoken", "sendRoom", "filled"}
      /\ pc'[t] \in {"user", "sendTest", "sendFull", "sendRoom", "filled", "published"}
  BY DEF Send, TrySend, SendTest, SendWake, Fill, Publish, IpcInv, TypeOK
<1>4. pc'[t] = "sendFull" => count'[queue'[t]] = Capacity /\ active[queue'[t]]
  <2>1. CASE SendTest(t)
    <3>1. queue[t] \in Queues /\ active[queue[t]] /\ count[queue[t]] \in 0 .. Capacity
      BY <2>1 DEF SendTest, IpcInv, TypeOK, CallKnown, Cut
    <3> QED BY <2>1, <3>1, IpcAssumption DEF SendTest, IpcInv, TypeOK
  <2>2. CASE ~SendTest(t)
    BY <2>2 DEF Send, TrySend, SendWake, Fill, Publish, IpcInv, TypeOK
  <2> QED BY <2>1, <2>2
<1>5. pc'[t] = "published" => active[queue'[t]]
  BY DEF Send, TrySend, SendTest, SendWake, Fill, Publish, IpcInv, TypeOK, CallKnown, Cut
<1>6. ASSUME NEW q \in Queues, active[q] PROVE Balanced(t, q)
  <2>1. state'[t] = "READY" /\ state[t] = "READY"
    BY <1>1 DEF Running
  <2>2. /\ t \in Takers(q)  <=> InCall(t, q, {"published"} \cup (Receiving \ {"advanced"}))
        /\ t \in Givers(q)  <=> InCall(t, q, {"advanced"} \cup (Sending \ {"published"}))
        /\ t \in Takers(q)' <=> InCall(t, q, {"published"} \cup (Receiving \ {"advanced"}))'
        /\ t \in Givers(q)' <=> InCall(t, q, {"advanced"} \cup (Sending \ {"published"}))'
    BY <2>1 DEF Takers, Givers
  <2>3. CASE Publish(t)
    BY <2>2, <2>3 DEF Publish, Balanced, InCall, IpcInv, TypeOK, Sending, Receiving
  <2>4. CASE Fill(t)
    <3>1. count[queue[t]] >= Capacity => count[queue[t]] = Capacity
      BY <2>4, IpcAssumption DEF IpcInv, TypeOK, CallKnown, Fill, Sending
    <3> QED BY <2>2, <2>4, <3>1 DEF Fill, Balanced, InCall, IpcInv, TypeOK, Sending, Receiving
  <2>5. CASE SendTest(t)
    BY <2>2, <2>5 DEF SendTest, Balanced, InCall, IpcInv, TypeOK, Sending, Receiving
  <2>6. CASE SendWake(t)
    BY <1>6, <2>2, <2>6 DEF SendWake, Balanced, InCall, IpcInv, TypeOK, Sending, Receiving
  <2>7. ASSUME NEW r \in Queues, NEW m \in Messages, Send(t, r, m) \/ TrySend(t, r, m)
        PROVE  Balanced(t, q)
    BY <2>2, <2>7 DEF Send, TrySend, Balanced, InCall, IpcInv, TypeOK, Sending, Receiving
  <2> QED BY <2>3, <2>4, <2>5, <2>6, <2>7
<1> QED BY <1>1, <1>2, <1>3, <1>4, <1>5, <1>6, MoveWake

\* The steps of ipc_recv that touch neither lists nor states.
LEMMA RecvWakes ==
  ASSUME IpcInv, IpcInv', WakeInv, Settled, EveryoneFits, NEW t \in Tasks,
         \/ \E q \in Queues : Recv(t, q) \/ TryRecv(t, q)
         \/ RecvTest(t) \/ RecvWake(t) \/ Copy(t) \/ Advance(t)
  PROVE  WakeInv'
<1> USE DEF Calls, At, Enter, Goto, Return, queueVars
<1>1. Running(t) /\ UNCHANGED <<active, listVars, state>>
  BY DEF Recv, TryRecv, RecvTest, RecvWake, Copy, Advance
<1>2. Others(t)
  <2>1. pc \in [Tasks -> Points] /\ queue \in [Tasks -> Queues \cup {NoQ}]
    BY DEF IpcInv, TypeOK
  <2>2. /\ \E v : pc' = [pc EXCEPT ![t] = v]
        /\ queue' = queue \/ \E v : queue' = [queue EXCEPT ![t] = v]
    <3>1. CASE \E q \in Queues : Recv(t, q) \/ TryRecv(t, q)
      BY <3>1 DEF Recv, TryRecv
    <3>2. CASE RecvTest(t) \/ RecvWake(t)
      BY <3>2 DEF RecvTest, RecvWake
    <3>3. CASE Copy(t) \/ Advance(t)
      BY <3>3 DEF Copy, Advance
    <3> QED BY <3>1, <3>2, <3>3
  <2> HIDE DEF Calls, At, Enter, Goto, Return, queueVars
  <2> QED BY <2>1, <2>2 DEF Others
<1>3. /\ pc[t] \in {"user", "recvTest", "recvWoken", "recvFound", "copied"}
      /\ pc'[t] \in {"user", "recvTest", "recvEmpty", "recvFound", "copied", "advanced"}
  BY DEF Recv, TryRecv, RecvTest, RecvWake, Copy, Advance, IpcInv, TypeOK
<1>4. pc'[t] = "recvEmpty" => count'[queue'[t]] = 0 /\ active[queue'[t]]
  BY DEF Recv, TryRecv, RecvTest, RecvWake, Copy, Advance, IpcInv, TypeOK, CallKnown, Cut
<1>5. pc'[t] = "advanced" => active[queue'[t]]
  BY DEF Recv, TryRecv, RecvTest, RecvWake, Copy, Advance, IpcInv, TypeOK, CallKnown, Cut
<1>6. ASSUME NEW q \in Queues, active[q] PROVE Balanced(t, q)
  <2>1. state'[t] = "READY" /\ state[t] = "READY"
    BY <1>1 DEF Running
  <2>2. /\ t \in Takers(q)  <=> InCall(t, q, {"published"} \cup (Receiving \ {"advanced"}))
        /\ t \in Givers(q)  <=> InCall(t, q, {"advanced"} \cup (Sending \ {"published"}))
        /\ t \in Takers(q)' <=> InCall(t, q, {"published"} \cup (Receiving \ {"advanced"}))'
        /\ t \in Givers(q)' <=> InCall(t, q, {"advanced"} \cup (Sending \ {"published"}))'
    BY <2>1 DEF Takers, Givers
  <2>3. CASE Advance(t)
    BY <2>2, <2>3 DEF Advance, Balanced, InCall, IpcInv, TypeOK, Sending, Receiving
  <2>4. CASE Copy(t)
    BY <2>2, <2>4 DEF Copy, Balanced, InCall, IpcInv, TypeOK, Sending, Receiving
  <2>5. CASE RecvTest(t)
    BY <2>2, <2>5 DEF RecvTest, Balanced, InCall, IpcInv, TypeOK, Sending, Receiving
  <2>6. CASE RecvWake(t)
    BY <1>6, <2>2, <2>6 DEF RecvWake, Balanced, InCall, IpcInv, TypeOK, Sending, Receiving
  <2>7. ASSUME NEW r \in Queues, Recv(t, r) \/ TryRecv(t, r)
        PROVE  Balanced(t, q)
    BY <2>2, <2>7 DEF Recv, TryRecv, Balanced, InCall, IpcInv, TypeOK, Sending, Receiving
  <2> QED BY <2>3, <2>4, <2>5, <2>6, <2>7
<1> QED BY <1>1, <1>2, <1>3, <1>4, <1>5, <1>6, MoveWake

\* The task that is added to a list is not in it: it is awake, and not listed.
LEMMA ListStep ==
  ASSUME IpcInv, IpcInv', WakeInv, Settled, EveryoneFits, NEW t \in Tasks, SendList(t) \/ RecvList(t)
  PROVE  WakeInv'
<1>0. PICK q : q = queue[t]
  OBVIOUS
<1> USE <1>0
<1>1. /\ Running(t) /\ state[t] = "READY" /\ UNCHANGED <<active, count, state, queue>>
      /\ \/ pc[t] = "sendFull" /\ pc' = [pc EXCEPT ![t] = "sendListed"]
            /\ senders' = [senders EXCEPT ![q] = Listed(@, t)] /\ receivers' = receivers
         \/ pc[t] = "recvEmpty" /\ pc' = [pc EXCEPT ![t] = "recvListed"]
            /\ receivers' = [receivers EXCEPT ![q] = Listed(@, t)] /\ senders' = senders
  BY DEF SendList, RecvList, At, Goto, queueVars, Running
<1>2. Others(t)
  BY <1>1 DEF Others, IpcInv, TypeOK
<1>3. /\ q \in Queues /\ active[q] /\ ~Ending(q)
      /\ \A r : Ending(r)' = Ending(r)
  <2>1. q \in Queues /\ active[q]
    BY <1>1 DEF IpcInv, CallKnown, WakeInv, CallsSound
  <2>2. \A u \in Tasks : pc[u] # "destroying" /\ pc'[u] # "destroying"
    <3>1. pc[t] # "destroying" /\ pc'[t] # "destroying"
      BY <1>1 DEF IpcInv, TypeOK
    <3> QED BY <1>1, <1>2, <3>1, OthersQuiet DEF Quiet, Rest, Others
  <2> QED BY <2>1, <2>2 DEF Ending
<1>4. /\ WaitList(senders[q], q, "sendListed", "sendWoken")
      /\ WaitList(receivers[q], q, "recvListed", "recvWoken")
      /\ senders[q] \in Seq(Tasks) /\ receivers[q] \in Seq(Tasks)
  BY <1>3 DEF WakeInv, ListsSound, IpcInv, TypeOK
<1>5. ASSUME pc[t] = "sendFull"
      PROVE  /\ senders' = [senders EXCEPT ![q] = Append(@, t)] /\ receivers' = receivers
             /\ Once(Append(senders[q], t)) /\ ToSet(Append(senders[q], t)) = ToSet(senders[q]) \cup {t}
  <2>1. t \notin ToSet(senders[q])
    BY <1>1, <1>4, <1>5 DEF WaitList, Awaits, ToSet
  <2> QED BY <1>1, <1>4, <1>5, <2>1, RoomInList DEF WaitList
<1>6. ASSUME pc[t] = "recvEmpty"
      PROVE  /\ receivers' = [receivers EXCEPT ![q] = Append(@, t)] /\ senders' = senders
             /\ Once(Append(receivers[q], t)) /\ ToSet(Append(receivers[q], t)) = ToSet(receivers[q]) \cup {t}
  <2>1. t \notin ToSet(receivers[q])
    BY <1>1, <1>4, <1>6 DEF WaitList, Awaits, ToSet
  <2> QED BY <1>1, <1>4, <1>6, <2>1, RoomInList DEF WaitList
<1>7. ListsSound'
  <2> SUFFICES ASSUME NEW r \in Queues, active[r], ~Ending(r)
               PROVE  /\ WaitList(senders[r], r, "sendListed", "sendWoken")'
                      /\ WaitList(receivers[r], r, "recvListed", "recvWoken")'
    BY <1>1, <1>3 DEF ListsSound
  <2>1. /\ WaitList(senders[r], r, "sendListed", "sendWoken")
        /\ WaitList(receivers[r], r, "recvListed", "recvWoken")
        /\ senders[r] \in Seq(Tasks) /\ receivers[r] \in Seq(Tasks)
    BY DEF WakeInv, ListsSound, IpcInv, TypeOK
  <2>2. \A u \in Tasks :
          /\ Awaits(u, r, "sendListed", "sendWoken") => Awaits(u, r, "sendListed", "sendWoken")'
          /\ Awaits(u, r, "recvListed", "recvWoken") => Awaits(u, r, "recvListed", "recvWoken")'
    BY <1>1 DEF Awaits, IpcInv, TypeOK
  <2>3. CASE r # q
    BY <1>1, <2>1, <2>2, <2>3 DEF WaitList, IpcInv, TypeOK
  <2>4. CASE r = q /\ pc[t] = "sendFull"
    <3>1. Awaits(t, q, "sendListed", "sendWoken")'
      BY <1>1, <2>4 DEF Awaits, IpcInv, TypeOK
    <3>2. senders'[q] = Append(senders[q], t) /\ receivers'[q] = receivers[q]
      BY <1>3, <1>5, <2>4 DEF IpcInv, TypeOK
    <3>3. \A u \in ToSet(senders[q]) : u \in Tasks /\ Awaits(u, q, "sendListed", "sendWoken")'
      BY <2>1, <2>2, <2>4 DEF WaitList, ToSet
    <3>4. \A u \in ToSet(senders'[q]) : Awaits(u, q, "sendListed", "sendWoken")'
      BY <1>5, <2>4, <3>1, <3>2, <3>3
    <3>5. WaitList(senders[q], q, "sendListed", "sendWoken")'
      BY <1>5, <2>4, <3>2, <3>4 DEF WaitList, ToSet
    <3>6. WaitList(receivers[q], q, "recvListed", "recvWoken")'
      BY <2>1, <2>2, <2>4, <3>2 DEF WaitList
    <3> QED BY <2>4, <3>5, <3>6
  <2>5. CASE r = q /\ pc[t] = "recvEmpty"
    <3>1. Awaits(t, q, "recvListed", "recvWoken")'
      BY <1>1, <2>5 DEF Awaits, IpcInv, TypeOK
    <3>2. receivers'[q] = Append(receivers[q], t) /\ senders'[q] = senders[q]
      BY <1>3, <1>6, <2>5 DEF IpcInv, TypeOK
    <3>3. \A u \in ToSet(receivers[q]) : u \in Tasks /\ Awaits(u, q, "recvListed", "recvWoken")'
      BY <2>1, <2>2, <2>5 DEF WaitList, ToSet
    <3>4. \A u \in ToSet(receivers'[q]) : Awaits(u, q, "recvListed", "recvWoken")'
      BY <1>6, <2>5, <3>1, <3>2, <3>3
    <3>5. WaitList(receivers[q], q, "recvListed", "recvWoken")'
      BY <1>6, <2>5, <3>2, <3>4 DEF WaitList, ToSet
    <3>6. WaitList(senders[q], q, "sendListed", "sendWoken")'
      BY <2>1, <2>2, <2>5, <3>2 DEF WaitList
    <3> QED BY <2>5, <3>5, <3>6
  <2> QED BY <1>1, <2>3, <2>4, <2>5
<1>8. SleepersListed'
  <2>1. \A r \in Queues : /\ ToSet(senders[r]) \subseteq ToSet(senders'[r])
                          /\ ToSet(receivers[r]) \subseteq ToSet(receivers'[r])
    BY <1>1, <1>5, <1>6 DEF IpcInv, TypeOK
  <2>2. /\ pc'[t] = "sendListed" => t \in ToSet(senders'[q])
        /\ pc'[t] = "recvListed" => t \in ToSet(receivers'[q])
    <3>1. CASE pc[t] = "sendFull"
      <4>1. pc'[t] = "sendListed"
        BY <1>1, <3>1 DEF IpcInv, TypeOK
      <4>2. senders'[q] = Append(senders[q], t)
        BY <1>3, <1>5, <3>1 DEF IpcInv, TypeOK
      <4> QED BY <1>5, <3>1, <4>1, <4>2
    <3>2. CASE pc[t] = "recvEmpty"
      <4>1. pc'[t] = "recvListed"
        BY <1>1, <3>2 DEF IpcInv, TypeOK
      <4>2. receivers'[q] = Append(receivers[q], t)
        BY <1>3, <1>6, <3>2 DEF IpcInv, TypeOK
      <4> QED BY <1>6, <3>2, <4>1, <4>2
    <3> QED BY <1>1, <3>1, <3>2
  <2>3. \A u \in Tasks : pc[u] # "user" => queue[u] \in Queues
    BY DEF IpcInv, CallKnown
  <2> SUFFICES ASSUME NEW u \in Tasks
               PROVE  (/\ state[u] # "DEAD"
                       /\ state[u] = "BLOCKED" =>
                            /\ active[queue[u]] /\ ~Ending(queue[u])
                            /\ \/ pc[u] = "sendWoken" /\ u \in ToSet(senders[queue[u]])
                               \/ pc[u] = "recvWoken" /\ u \in ToSet(receivers[queue[u]])
                       /\ pc[u] = "sendListed" => u \in ToSet(senders[queue[u]])
                       /\ pc[u] = "recvListed" => u \in ToSet(receivers[queue[u]]))'
    BY DEF SleepersListed
  <2>4. CASE u = t
    BY <1>1, <2>2, <2>4
  <2>5. CASE u # t
    <3>1. pc'[u] = pc[u] /\ state'[u] = state[u] /\ queue'[u] = queue[u] /\ active' = active
      BY <1>1, <1>2, <2>5 DEF Others
    <3>2. pc[u] # "user" => /\ ToSet(senders[queue[u]]) \subseteq ToSet(senders'[queue[u]])
                            /\ ToSet(receivers[queue[u]]) \subseteq ToSet(receivers'[queue[u]])
      BY <2>1, <2>3
    <3> QED BY <1>3, <3>1, <3>2 DEF WakeInv, SleepersListed
  <2> QED BY <2>4, <2>5
<1>9. CallsSound' 
  BY <1>1, <1>2, <1>3, MoveCalls DEF WakeInv, CallsSound, IpcInv, TypeOK
<1>10. NoWakeupLost'
  <2>1. \A r \in Queues : Balanced(t, r)
    BY <1>1 DEF Balanced, Takers, Givers, InCall, Sending, Receiving, IpcInv, TypeOK
  <2> QED BY <1>1, <1>2, <2>1, MoveCounts DEF WakeInv, IpcInv
<1> QED BY <1>7, <1>8, <1>9, <1>10 DEF WakeInv

\* sched_block: the caller is in the list, and found the queue full (empty).
LEMMA BlockStep ==
  ASSUME IpcInv, IpcInv', WakeInv, Settled, EveryoneFits, NEW t \in Tasks, SendBlock(t) \/ RecvBlock(t)
  PROVE  WakeInv'
<1>0. PICK q : q = queue[t]
  OBVIOUS
<1> USE <1>0
<1>1. /\ Running(t) /\ state[t] = "READY" /\ UNCHANGED <<active, count, senders, receivers, queue>>
      /\ state' = [state EXCEPT ![t] = "BLOCKED"]
      /\ \/ pc[t] = "sendListed" /\ pc' = [pc EXCEPT ![t] = "sendWoken"]
         \/ pc[t] = "recvListed" /\ pc' = [pc EXCEPT ![t] = "recvWoken"]
  BY DEF SendBlock, RecvBlock, At, Goto, queueVars, listVars, Running
<1>2. Others(t)
  BY <1>1 DEF Others, IpcInv, TypeOK
<1>3. /\ q \in Queues /\ active[q] /\ ~Ending(q)
      /\ \A r : Ending(r)' = Ending(r)
  <2>1. q \in Queues /\ active[q]
    BY <1>1 DEF IpcInv, CallKnown, WakeInv, CallsSound
  <2>2. \A u \in Tasks : pc[u] # "destroying" /\ pc'[u] # "destroying"
    <3>1. pc[t] # "destroying" /\ pc'[t] # "destroying"
      BY <1>1 DEF IpcInv, TypeOK
    <3> QED BY <1>1, <1>2, <3>1, OthersQuiet DEF Quiet, Rest, Others
  <2> QED BY <2>1, <2>2 DEF Ending
<1>4. ListsSound'
  <2>1. \A r \in Queues, u \in Tasks :
          /\ Awaits(u, r, "sendListed", "sendWoken") => Awaits(u, r, "sendListed", "sendWoken")'
          /\ Awaits(u, r, "recvListed", "recvWoken") => Awaits(u, r, "recvListed", "recvWoken")'
    BY <1>1 DEF Awaits, IpcInv, TypeOK
  <2>2. \A r \in Queues : /\ \A i \in DOMAIN senders[r] : senders[r][i] \in Tasks
                          /\ \A i \in DOMAIN receivers[r] : receivers[r][i] \in Tasks
    BY DEF IpcInv, TypeOK
  <2> QED BY <1>1, <1>3, <2>1, <2>2 DEF WakeInv, ListsSound, WaitList
<1>5. SleepersListed'
  BY <1>1, <1>3 DEF WakeInv, SleepersListed, IpcInv, TypeOK
<1>6. CallsSound'
  BY <1>1, <1>2, <1>3, MoveCalls DEF WakeInv, CallsSound, IpcInv, TypeOK
<1>7. /\ pc[t] = "sendListed" => count[q] = Capacity
      /\ pc[t] = "recvListed" => count[q] = 0
  BY <1>1 DEF WakeInv, CallsSound
<1>8. ReceiversWoken'
  <2> SUFFICES ASSUME NEW r \in Queues, active[r], NEW u \in Tasks, Asleep(u, r, "recvWoken")'
               PROVE  count[r] <= Cardinality(Takers(r)')
    BY <1>1 DEF ReceiversWoken, Takers
  <2>1. Takers(r) \in SUBSET Tasks /\ Takers(r)' \in SUBSET Tasks /\ count[r] \in Nat
    BY IpcAssumption DEF Takers, IpcInv, TypeOK
  <2>2. CASE count[r] = 0
    BY <2>1, <2>2, Counted, FS_CardinalityType, FS_Subset DEF EveryoneFits
  <2>3. CASE count[r] # 0
    <3>1. ~(pc[t] = "recvListed" /\ r = q)
      BY <1>7, <2>3
    <3>2. Takers(r) \subseteq Takers(r)'
      BY <1>1, <3>1 DEF Takers, InCall, Receiving, IpcInv, TypeOK
    <3>3. Asleep(u, r, "recvWoken")
      BY <1>1, <3>1 DEF Asleep, IpcInv, TypeOK
    <3>4. count[r] <= Cardinality(Takers(r))
      BY <3>3 DEF WakeInv, NoWakeupLost, ReceiversWoken, Takers
    <3> QED BY <2>1, <3>2, <3>4, Counted
  <2> QED BY <2>2, <2>3
<1>9. SendersWoken'
  <2> SUFFICES ASSUME NEW r \in Queues, active[r], NEW u \in Tasks, Asleep(u, r, "sendWoken")'
               PROVE  Capacity - count[r] <= Cardinality(Givers(r)')
    BY <1>1 DEF SendersWoken, Givers
  <2> DEFINE c == Capacity - count[r]
  <2>1. Givers(r) \in SUBSET Tasks /\ Givers(r)' \in SUBSET Tasks /\ c \in Nat
    BY IpcAssumption DEF Givers, IpcInv, TypeOK
  <2>2. CASE c = 0
    BY <2>1, <2>2, FS_CardinalityType, FS_Subset DEF EveryoneFits
  <2>3. CASE c # 0
    <3>1. ~(pc[t] = "sendListed" /\ r = q)
      BY <1>7, <2>3, IpcAssumption
    <3>2. Givers(r) \subseteq Givers(r)'
      BY <1>1, <3>1 DEF Givers, InCall, Sending, IpcInv, TypeOK
    <3>3. Asleep(u, r, "sendWoken")
      BY <1>1, <3>1 DEF Asleep, IpcInv, TypeOK
    <3>4. c <= Cardinality(Givers(r))
      BY <3>3 DEF WakeInv, NoWakeupLost, SendersWoken, Givers
    <3> HIDE DEF c
    <3>5. c <= Cardinality(Givers(r)')
      BY <2>1, <3>2, <3>4, Counted
    <3> QED BY <3>5 DEF c
  <2> QED BY <2>2, <2>3
<1> QED BY <1>4, <1>5, <1>6, <1>8, <1>9 DEF WakeInv, NoWakeupLost

\* A step of t that wakes others: who leaves a count has woken another.
LEMMA WakeCounts ==
  ASSUME TypeOK, TypeOK', NoWakeupLost, EveryoneFits, NEW t \in Tasks, Others(t),
         pc'[t] \notin {"sendWoken", "recvWoken"},
         \A x \in Tasks \ {t} : state'[x] \in {state[x], "READY"},
         \A q \in Queues : active'[q] => active[q] /\ count'[q] = count[q],
         \A q \in Queues, x \in Tasks :
           active'[q] /\ Asleep(x, q, "recvWoken")' /\ t \in Takers(q)
             => \E u \in Tasks : u \in Takers(q)' \ Takers(q),
         \A q \in Queues, x \in Tasks :
           active'[q] /\ Asleep(x, q, "sendWoken")' /\ t \in Givers(q)
             => \E u \in Tasks : u \in Givers(q)' \ Givers(q)
  PROVE  NoWakeupLost'
<1>1. \A q \in Queues, x \in Tasks, p \in {"sendWoken", "recvWoken"} :
        Asleep(x, q, p)' => Asleep(x, q, p)
  BY DEF Asleep, Others
<1>2. ReceiversWoken'
  <2> SUFFICES ASSUME NEW q \in Queues, active'[q], NEW x \in Tasks, Asleep(x, q, "recvWoken")'
               PROVE  count'[q] <= Cardinality(Takers(q)')
    BY DEF ReceiversWoken, Takers
  <2>1. count'[q] = count[q] /\ count[q] <= Cardinality(Takers(q))
    BY <1>1 DEF NoWakeupLost, ReceiversWoken, Takers
  <2>2. Takers(q) \ {t} \subseteq Takers(q)'
    BY DEF Takers, Others, InCall
  <2>3. Takers(q) \in SUBSET Tasks /\ Takers(q)' \in SUBSET Tasks /\ count[q] \in Nat
    BY IpcAssumption DEF Takers, TypeOK
  <2>4. CASE t \in Takers(q)
    <3>1. \E u \in Takers(q)' \ Takers(q) : TRUE
      BY <2>4
    <3> QED BY <2>1, <2>2, <2>3, <3>1, Counted
  <2>5. CASE t \notin Takers(q)
    BY <2>1, <2>2, <2>3, <2>5, Counted
  <2> QED BY <2>4, <2>5
<1>3. SendersWoken'
  <2> SUFFICES ASSUME NEW q \in Queues, active'[q], NEW x \in Tasks, Asleep(x, q, "sendWoken")'
               PROVE  Capacity - count'[q] <= Cardinality(Givers(q)')
    BY DEF SendersWoken, Givers
  <2> DEFINE c == Capacity - count[q]
  <2>1. count'[q] = count[q] /\ c <= Cardinality(Givers(q))
    BY <1>1 DEF NoWakeupLost, SendersWoken, Givers
  <2>2. Givers(q) \ {t} \subseteq Givers(q)'
    BY DEF Givers, Others, InCall
  <2>3. Givers(q) \in SUBSET Tasks /\ Givers(q)' \in SUBSET Tasks /\ c \in Nat
    BY IpcAssumption DEF Givers, TypeOK
  <2> HIDE DEF c
  <2>4. CASE t \in Givers(q)
    <3>1. \E u \in Givers(q)' \ Givers(q) : TRUE
      BY <2>4
    <3>2. c <= Cardinality(Givers(q)')
      BY <2>1, <2>2, <2>3, <3>1, Counted
    <3> QED BY <2>1, <3>2 DEF c
  <2>5. CASE t \notin Givers(q)
    <3>1. c <= Cardinality(Givers(q)')
      BY <2>1, <2>2, <2>3, <2>5, Counted
    <3> QED BY <2>1, <3>1 DEF c
  <2> QED BY <2>4, <2>5
<1> QED BY <1>2, <1>3 DEF NoWakeupLost

\* The receiver that was listed last leaves the list and will take a message.
LEMMA WakeReceiverStep ==
  ASSUME IpcInv, IpcInv', WakeInv, Settled, EveryoneFits, NEW t \in Tasks, WakeReceiver(t)
  PROVE  WakeInv'
<1>0. PICK q : q = queue[t]
  OBVIOUS
<1> USE <1>0
<1>1. /\ Running(t) /\ state[t] = "READY" /\ pc[t] = "published" /\ UNCHANGED <<active, count, senders>>
      /\ state' = WakesOne(q, receivers[q])
      /\ receivers' = [receivers EXCEPT ![q] = Popped(@)]
      /\ pc' = [pc EXCEPT ![t] = "user"] /\ queue' = [queue EXCEPT ![t] = NoQ]
  BY DEF WakeReceiver, At, Return, queueVars, Running
<1>2. Others(t) /\ pc'[t] = "user"
  BY <1>1 DEF Others, IpcInv, TypeOK
<1>3. q \in Queues /\ \A r : ~Ending(r) /\ ~Ending(r)'
  <2>1. \A u \in Tasks : pc[u] # "destroying" /\ pc'[u] # "destroying"
    BY <1>1, <1>2, OthersQuiet DEF Quiet, Rest, Others
  <2> QED BY <1>1, <2>1 DEF Ending, IpcInv, CallKnown
<1>4. CallsSound'
  BY <1>1, <1>2, MoveCalls DEF WakeInv
<1>5. \A u \in Tasks : pc'[u] \in Quiet /\ (u # t => pc[u] \in Quiet)
  BY <1>1, <1>2, OthersQuiet DEF Others, Quiet, Rest
<1>6. CASE ~active[q]
  <2>1. MaxQueues = 1
    BY <1>1, <1>6 DEF WakeInv, CallsSound
  <2>2. \A x \in Tasks : state[x] = "READY"
    <3> SUFFICES ASSUME NEW x \in Tasks, state[x] # "READY" PROVE FALSE
      OBVIOUS
    <3>1. active[queue[x]] /\ queue[x] \in Queues
      BY DEF WakeInv, SleepersListed, IpcInv, TypeOK, CallKnown
    <3> QED BY <1>3, <1>6, <2>1, <3>1 DEF Queues
  <2>3. state' = state
    BY <1>1, <2>2 DEF WakesOne, Unblocked, IpcInv, TypeOK
  <2>4. \A r \in Queues : ~active'[r]
    BY <1>1, <1>3, <1>6, <2>1 DEF Queues
  <2>5. ListsSound' /\ SleepersListed' /\ NoWakeupLost'
    BY <1>5, <2>2, <2>3, <2>4 DEF ListsSound, SleepersListed, NoWakeupLost, ReceiversWoken, SendersWoken, Quiet, Rest
  <2> QED BY <1>4, <2>5 DEF WakeInv
<1>7. CASE active[q]
  <2>1. /\ WaitList(senders[q], q, "sendListed", "sendWoken")
        /\ WaitList(receivers[q], q, "recvListed", "recvWoken")
        /\ senders[q] \in Seq(Tasks) /\ receivers[q] \in Seq(Tasks)
    BY <1>3, <1>7 DEF WakeInv, ListsSound, IpcInv, TypeOK
  <2>2. CASE receivers[q] = <<>>
    <3>1. UNCHANGED <<active, receivers, senders, state>>
      BY <1>1, <2>2 DEF WakesOne, Popped, IpcInv, TypeOK
    <3>2. ListsSound' /\ SleepersListed'
      BY <1>1, <1>2, <3>1, MoveLists DEF WakeInv, IpcInv, listVars
    <3>3. NoWakeupLost'
      <4>1. \A x \in Tasks : ~Asleep(x, q, "recvWoken")
        BY <2>2 DEF Asleep, WakeInv, SleepersListed, ToSet
      <4>2. \A r \in Queues, x \in Tasks : Asleep(x, r, "recvWoken")' => r # q
        BY <1>2, <3>1, <4>1 DEF Asleep, Others
      <4>3. \A r \in Queues : t \notin Givers(r) /\ (t \in Takers(r) => r = q)
        BY <1>1 DEF Takers, Givers, InCall, Sending
      <4> QED BY <1>1, <1>2, <3>1, <4>2, <4>3, WakeCounts DEF WakeInv, IpcInv
    <3> QED BY <1>4, <3>2, <3>3 DEF WakeInv
  <2>3. CASE receivers[q] # <<>>
    <3>0. PICK u : u = Last(receivers[q])
      OBVIOUS
    <3>1. /\ u \in Tasks /\ u \in ToSet(receivers[q]) /\ Once(Popped(receivers[q]))
          /\ ToSet(Popped(receivers[q])) = ToSet(receivers[q]) \ {u}
      BY <2>1, <2>3, <3>0, LastLeaves DEF WaitList
    <3>2. u # t /\ queue[u] = q /\ pc[u] = "recvWoken" /\ state[u] = "BLOCKED"
      BY <1>1, <1>5, <2>1, <3>1 DEF WaitList, Awaits, ToSet, Quiet, Rest
    <3>3. /\ state'[u] = "READY" /\ \A x \in Tasks \ {u} : state'[x] = state[x]
          /\ receivers'[q] = Popped(receivers[q])
          /\ \A r \in Queues \ {q} : receivers'[r] = receivers[r]
      BY <1>1, <1>3, <2>3, <3>0, <3>1, <3>2 DEF WakesOne, Unblocked, IpcInv, TypeOK
    <3>4. pc'[u] = "recvWoken" /\ queue'[u] = q
      BY <1>2, <3>1, <3>2 DEF Others
    <3>5. SleepersListed'
      <4> SUFFICES ASSUME NEW x \in Tasks
                   PROVE  (/\ state[x] # "DEAD"
                           /\ state[x] = "BLOCKED" =>
                                /\ active[queue[x]]
                                /\ \/ pc[x] = "sendWoken" /\ x \in ToSet(senders[queue[x]])
                                   \/ pc[x] = "recvWoken" /\ x \in ToSet(receivers[queue[x]]))'
        BY <1>3, <1>5 DEF SleepersListed, Quiet, Rest
      <4>1. CASE x = u
        BY <3>3, <4>1
      <4>2. CASE x = t
        BY <1>1, <3>2, <3>3, <4>2
      <4>3. CASE x \notin {u, t}
        <5>1. state'[x] = state[x] /\ pc'[x] = pc[x] /\ queue'[x] = queue[x] /\ state[x] # "DEAD"
          BY <1>2, <3>3, <4>3 DEF Others, WakeInv, SleepersListed
        <5>2. ASSUME state[x] = "BLOCKED"
              PROVE  /\ active[queue[x]] /\ queue[x] \in Queues
                     /\ \/ pc[x] = "sendWoken" /\ x \in ToSet(senders[queue[x]])
                        \/ pc[x] = "recvWoken" /\ x \in ToSet(receivers[queue[x]])
          BY <5>2 DEF WakeInv, SleepersListed, IpcInv, CallKnown
        <5>3. \A r \in Queues : x \in ToSet(receivers[r]) => x \in ToSet(receivers'[r])
          BY <3>1, <3>3, <4>3
        <5> QED BY <1>1, <5>1, <5>2, <5>3
      <4> QED BY <4>1, <4>2, <4>3
    <3>6. ListsSound'
      <4> SUFFICES ASSUME NEW r \in Queues, active[r]
                   PROVE  /\ WaitList(senders[r], r, "sendListed", "sendWoken")'
                          /\ WaitList(receivers[r], r, "recvListed", "recvWoken")'
        BY <1>1, <1>3 DEF ListsSound
      <4>1. /\ WaitList(senders[r], r, "sendListed", "sendWoken")
            /\ WaitList(receivers[r], r, "recvListed", "recvWoken")
            /\ senders[r] \in Seq(Tasks) /\ receivers[r] \in Seq(Tasks)
        BY <1>3 DEF WakeInv, ListsSound, IpcInv, TypeOK
      <4>2. \A x \in Tasks :
              /\ Awaits(x, r, "sendListed", "sendWoken") => Awaits(x, r, "sendListed", "sendWoken")'
              /\ x # u /\ Awaits(x, r, "recvListed", "recvWoken") => Awaits(x, r, "recvListed", "recvWoken")'
        BY <1>1, <1>2, <3>2, <3>3 DEF Awaits, Others
      <4>3. WaitList(senders[r], r, "sendListed", "sendWoken")'
        <5>1. senders'[r] = senders[r]
          BY <1>1
        <5> QED BY <4>1, <4>2, <5>1 DEF WaitList
      <4>4. \A x \in Tasks : x \in ToSet(receivers[r]) => Awaits(x, r, "recvListed", "recvWoken")
        BY <4>1 DEF WaitList, ToSet
      <4>5. Once(receivers'[r]) /\ ToSet(receivers'[r]) \subseteq ToSet(receivers[r]) /\ u \notin ToSet(receivers'[r])
        <5>1. CASE r = q
          BY <3>1, <3>3, <5>1
        <5>2. CASE r # q
          BY <3>2, <3>3, <4>1, <4>4, <5>2, <3>1 DEF WaitList, Awaits
        <5> QED BY <5>1, <5>2
      <4>6. \A x \in ToSet(receivers[r]) : x \in Tasks
        BY <4>1 DEF ToSet
      <4>7. \A x \in ToSet(receivers'[r]) : Awaits(x, r, "recvListed", "recvWoken")'
        BY <4>2, <4>4, <4>5, <4>6
      <4>8. WaitList(receivers[r], r, "recvListed", "recvWoken")'
        BY <4>5, <4>7 DEF WaitList, ToSet
      <4> QED BY <4>3, <4>8
    <3>7. NoWakeupLost'
      <4>1. \A r \in Queues : t \notin Givers(r) /\ (t \in Takers(r) => r = q)
        BY <1>1 DEF Takers, Givers, InCall, Sending
      <4>2. u \in Takers(q)' \ Takers(q)
        BY <3>1, <3>2, <3>3, <3>4 DEF Takers, InCall, Receiving
      <4> QED BY <1>1, <1>2, <3>1, <3>3, <4>1, <4>2, WakeCounts DEF WakeInv, IpcInv
    <3> QED BY <1>4, <3>5, <3>6, <3>7 DEF WakeInv
  <2> QED BY <2>2, <2>3
<1> QED BY <1>6, <1>7

\* The sender that was listed last leaves the list and will fill a place.
LEMMA WakeSenderStep ==
  ASSUME IpcInv, IpcInv', WakeInv, Settled, EveryoneFits, NEW t \in Tasks, WakeSender(t)
  PROVE  WakeInv'
<1>0. PICK q : q = queue[t]
  OBVIOUS
<1> USE <1>0
<1>1. /\ Running(t) /\ state[t] = "READY" /\ pc[t] = "advanced" /\ UNCHANGED <<active, count, receivers>>
      /\ state' = WakesOne(q, senders[q])
      /\ senders' = [senders EXCEPT ![q] = Popped(@)]
      /\ pc' = [pc EXCEPT ![t] = "user"] /\ queue' = [queue EXCEPT ![t] = NoQ]
  BY DEF WakeSender, At, Return, queueVars, Running
<1>2. Others(t) /\ pc'[t] = "user"
  BY <1>1 DEF Others, IpcInv, TypeOK
<1>3. q \in Queues /\ \A r : ~Ending(r) /\ ~Ending(r)'
  <2>1. \A u \in Tasks : pc[u] # "destroying" /\ pc'[u] # "destroying"
    BY <1>1, <1>2, OthersQuiet DEF Quiet, Rest, Others
  <2> QED BY <1>1, <2>1 DEF Ending, IpcInv, CallKnown
<1>4. CallsSound'
  BY <1>1, <1>2, MoveCalls DEF WakeInv
<1>5. \A u \in Tasks : pc'[u] \in Quiet /\ (u # t => pc[u] \in Quiet)
  BY <1>1, <1>2, OthersQuiet DEF Others, Quiet, Rest
<1>6. CASE ~active[q]
  <2>1. MaxQueues = 1
    BY <1>1, <1>6 DEF WakeInv, CallsSound
  <2>2. \A x \in Tasks : state[x] = "READY"
    <3> SUFFICES ASSUME NEW x \in Tasks, state[x] # "READY" PROVE FALSE
      OBVIOUS
    <3>1. active[queue[x]] /\ queue[x] \in Queues
      BY DEF WakeInv, SleepersListed, IpcInv, TypeOK, CallKnown
    <3> QED BY <1>3, <1>6, <2>1, <3>1 DEF Queues
  <2>3. state' = state
    BY <1>1, <2>2 DEF WakesOne, Unblocked, IpcInv, TypeOK
  <2>4. \A r \in Queues : ~active'[r]
    BY <1>1, <1>3, <1>6, <2>1 DEF Queues
  <2>5. ListsSound' /\ SleepersListed' /\ NoWakeupLost'
    BY <1>5, <2>2, <2>3, <2>4 DEF ListsSound, SleepersListed, NoWakeupLost, ReceiversWoken, SendersWoken, Quiet, Rest
  <2> QED BY <1>4, <2>5 DEF WakeInv
<1>7. CASE active[q]
  <2>1. /\ WaitList(receivers[q], q, "recvListed", "recvWoken")
        /\ WaitList(senders[q], q, "sendListed", "sendWoken")
        /\ receivers[q] \in Seq(Tasks) /\ senders[q] \in Seq(Tasks)
    BY <1>3, <1>7 DEF WakeInv, ListsSound, IpcInv, TypeOK
  <2>2. CASE senders[q] = <<>>
    <3>1. UNCHANGED <<active, senders, receivers, state>>
      BY <1>1, <2>2 DEF WakesOne, Popped, IpcInv, TypeOK
    <3>2. ListsSound' /\ SleepersListed'
      BY <1>1, <1>2, <3>1, MoveLists DEF WakeInv, IpcInv, listVars
    <3>3. NoWakeupLost'
      <4>1. \A x \in Tasks : ~Asleep(x, q, "sendWoken")
        BY <2>2 DEF Asleep, WakeInv, SleepersListed, ToSet
      <4>2. \A r \in Queues, x \in Tasks : Asleep(x, r, "sendWoken")' => r # q
        BY <1>2, <3>1, <4>1 DEF Asleep, Others
      <4>3. \A r \in Queues : t \notin Takers(r) /\ (t \in Givers(r) => r = q)
        BY <1>1 DEF Givers, Takers, InCall, Receiving
      <4> QED BY <1>1, <1>2, <3>1, <4>2, <4>3, WakeCounts DEF WakeInv, IpcInv
    <3> QED BY <1>4, <3>2, <3>3 DEF WakeInv
  <2>3. CASE senders[q] # <<>>
    <3>0. PICK u : u = Last(senders[q])
      OBVIOUS
    <3>1. /\ u \in Tasks /\ u \in ToSet(senders[q]) /\ Once(Popped(senders[q]))
          /\ ToSet(Popped(senders[q])) = ToSet(senders[q]) \ {u}
      BY <2>1, <2>3, <3>0, LastLeaves DEF WaitList
    <3>2. u # t /\ queue[u] = q /\ pc[u] = "sendWoken" /\ state[u] = "BLOCKED"
      BY <1>1, <1>5, <2>1, <3>1 DEF WaitList, Awaits, ToSet, Quiet, Rest
    <3>3. /\ state'[u] = "READY" /\ \A x \in Tasks \ {u} : state'[x] = state[x]
          /\ senders'[q] = Popped(senders[q])
          /\ \A r \in Queues \ {q} : senders'[r] = senders[r]
      BY <1>1, <1>3, <2>3, <3>0, <3>1, <3>2 DEF WakesOne, Unblocked, IpcInv, TypeOK
    <3>4. pc'[u] = "sendWoken" /\ queue'[u] = q
      BY <1>2, <3>1, <3>2 DEF Others
    <3>5. SleepersListed'
      <4> SUFFICES ASSUME NEW x \in Tasks
                   PROVE  (/\ state[x] # "DEAD"
                           /\ state[x] = "BLOCKED" =>
                                /\ active[queue[x]]
                                /\ \/ pc[x] = "recvWoken" /\ x \in ToSet(receivers[queue[x]])
                                   \/ pc[x] = "sendWoken" /\ x \in ToSet(senders[queue[x]]))'
        BY <1>3, <1>5 DEF SleepersListed, Quiet, Rest
      <4>1. CASE x = u
        BY <3>3, <4>1
      <4>2. CASE x = t
        BY <1>1, <3>2, <3>3, <4>2
      <4>3. CASE x \notin {u, t}
        <5>1. state'[x] = state[x] /\ pc'[x] = pc[x] /\ queue'[x] = queue[x] /\ state[x] # "DEAD"
          BY <1>2, <3>3, <4>3 DEF Others, WakeInv, SleepersListed
        <5>2. ASSUME state[x] = "BLOCKED"
              PROVE  /\ active[queue[x]] /\ queue[x] \in Queues
                     /\ \/ pc[x] = "recvWoken" /\ x \in ToSet(receivers[queue[x]])
                        \/ pc[x] = "sendWoken" /\ x \in ToSet(senders[queue[x]])
          BY <5>2 DEF WakeInv, SleepersListed, IpcInv, CallKnown
        <5>3. \A r \in Queues : x \in ToSet(senders[r]) => x \in ToSet(senders'[r])
          BY <3>1, <3>3, <4>3
        <5> QED BY <1>1, <5>1, <5>2, <5>3
      <4> QED BY <4>1, <4>2, <4>3
    <3>6. ListsSound'
      <4> SUFFICES ASSUME NEW r \in Queues, active[r]
                   PROVE  /\ WaitList(receivers[r], r, "recvListed", "recvWoken")'
                          /\ WaitList(senders[r], r, "sendListed", "sendWoken")'
        BY <1>1, <1>3 DEF ListsSound
      <4>1. /\ WaitList(receivers[r], r, "recvListed", "recvWoken")
            /\ WaitList(senders[r], r, "sendListed", "sendWoken")
            /\ receivers[r] \in Seq(Tasks) /\ senders[r] \in Seq(Tasks)
        BY <1>3 DEF WakeInv, ListsSound, IpcInv, TypeOK
      <4>2. \A x \in Tasks :
              /\ Awaits(x, r, "recvListed", "recvWoken") => Awaits(x, r, "recvListed", "recvWoken")'
              /\ x # u /\ Awaits(x, r, "sendListed", "sendWoken") => Awaits(x, r, "sendListed", "sendWoken")'
        BY <1>1, <1>2, <3>2, <3>3 DEF Awaits, Others
      <4>3. WaitList(receivers[r], r, "recvListed", "recvWoken")'
        <5>1. receivers'[r] = receivers[r]
          BY <1>1
        <5> QED BY <4>1, <4>2, <5>1 DEF WaitList
      <4>4. \A x \in Tasks : x \in ToSet(senders[r]) => Awaits(x, r, "sendListed", "sendWoken")
        BY <4>1 DEF WaitList, ToSet
      <4>5. Once(senders'[r]) /\ ToSet(senders'[r]) \subseteq ToSet(senders[r]) /\ u \notin ToSet(senders'[r])
        <5>1. CASE r = q
          BY <3>1, <3>3, <5>1
        <5>2. CASE r # q
          BY <3>2, <3>3, <4>1, <4>4, <5>2, <3>1 DEF WaitList, Awaits
        <5> QED BY <5>1, <5>2
      <4>6. \A x \in ToSet(senders[r]) : x \in Tasks
        BY <4>1 DEF ToSet
      <4>7. \A x \in ToSet(senders'[r]) : Awaits(x, r, "sendListed", "sendWoken")'
        BY <4>2, <4>4, <4>5, <4>6
      <4>8. WaitList(senders[r], r, "sendListed", "sendWoken")'
        BY <4>5, <4>7 DEF WaitList, ToSet
      <4> QED BY <4>3, <4>8
    <3>7. NoWakeupLost'
      <4>1. \A r \in Queues : t \notin Takers(r) /\ (t \in Givers(r) => r = q)
        BY <1>1 DEF Givers, Takers, InCall, Receiving
      <4>2. u \in Givers(q)' \ Givers(q)
        BY <3>1, <3>2, <3>3, <3>4 DEF Givers, InCall, Sending
      <4> QED BY <1>1, <1>2, <3>1, <3>3, <4>1, <4>2, WakeCounts DEF WakeInv, IpcInv
    <3> QED BY <1>4, <3>5, <3>6, <3>7 DEF WakeInv
  <2> QED BY <2>2, <2>3
<1> QED BY <1>6, <1>7

\* ipc_create: nobody sleeps on a slot that is free.
LEMMA CreateWakes ==
  ASSUME IpcInv, IpcInv', WakeInv, Settled, EveryoneFits, NEW t \in Tasks, NEW n \in Names, Create(t, n)
  PROVE  WakeInv'
<1>1. Running(t) /\ state[t] = "READY" /\ pc[t] = "user" /\ UNCHANGED <<state, pc, queue>>
  BY DEF Create, Calls, Running, callVars
<1>2. PICK q \in Queues :
       /\ ~active[q] /\ active' = [active EXCEPT ![q] = TRUE]
       /\ count' = [count EXCEPT ![q] = 0]
       /\ senders' = [senders EXCEPT ![q] = <<>>]
       /\ receivers' = [receivers EXCEPT ![q] = <<>>]
  BY DEF Create
<1>3. \A u \in Tasks : pc[u] \in Quiet
  BY <1>1, OthersQuiet DEF Quiet, Rest
<1>4. \A r : ~Ending(r) /\ ~Ending(r)'
  BY <1>1, <1>3 DEF Ending, Quiet, Rest
<1>5. \A r \in Queues : /\ active[r] => active'[r] /\ r # q
                        /\ r # q => /\ active'[r] = active[r] /\ count'[r] = count[r]
                                    /\ senders'[r] = senders[r] /\ receivers'[r] = receivers[r]
  BY <1>2 DEF IpcInv, TypeOK
<1>6. \A x \in Tasks : state[x] = "BLOCKED" => queue[x] \in Queues \ {q}
  BY <1>5 DEF WakeInv, SleepersListed, IpcInv, CallKnown
<1>7. SleepersListed'
  BY <1>1, <1>3, <1>4, <1>5, <1>6 DEF WakeInv, SleepersListed, Quiet, Rest
<1>8. ListsSound'
  <2> SUFFICES ASSUME NEW r \in Queues, active'[r]
               PROVE  /\ WaitList(senders[r], r, "sendListed", "sendWoken")'
                      /\ WaitList(receivers[r], r, "recvListed", "recvWoken")'
    BY DEF ListsSound
  <2>1. CASE r = q
    BY <1>2, <2>1 DEF WaitList, Once, IpcInv, TypeOK
  <2>2. CASE r # q
    BY <1>1, <1>4, <1>5, <2>2 DEF WakeInv, ListsSound, WaitList, Awaits
  <2> QED BY <2>1, <2>2
<1>9. CallsSound'
  BY <1>1, <1>3, <1>5 DEF WakeInv, CallsSound, Quiet, Rest, IpcInv, CallKnown
<1>10. ReceiversWoken'
  BY <1>1, <1>5, <1>6 DEF WakeInv, NoWakeupLost, ReceiversWoken, Asleep, InCall
<1>11. SendersWoken'
  BY <1>1, <1>5, <1>6 DEF WakeInv, NoWakeupLost, SendersWoken, Asleep, InCall
<1> QED BY <1>7, <1>8, <1>9, <1>10, <1>11 DEF WakeInv, NoWakeupLost

\* ipc_destroy wakes all that sleep on the queue, as they are all listed, and nobody else.
LEMMA DestroyBeginWakes ==
  ASSUME IpcInv, IpcInv', WakeInv, Settled, EveryoneFits, NEW t \in Tasks, NEW q \in Queues,
         DestroyBegin(t, q)
  PROVE  WakeInv'
<1> DEFINE W == ToSet(senders[q]) \cup ToSet(receivers[q])
<1>1. /\ Running(t) /\ state[t] = "READY" /\ pc[t] = "user" /\ active[q]
      /\ UNCHANGED <<active, count, senders, receivers>>
      /\ state' = Unblocked(W)
      /\ pc' = [pc EXCEPT ![t] = "destroying"] /\ queue' = [queue EXCEPT ![t] = q]
  BY DEF DestroyBegin, Calls, Enter, Running, queueVars, listVars
<1>2. Others(t) /\ pc'[t] = "destroying" /\ queue'[t] = q
  BY <1>1 DEF Others, IpcInv, TypeOK
<1>3. \A u \in Tasks : pc[u] \in Quiet
  BY <1>1, OthersQuiet DEF Quiet, Rest
<1>4. \A r : ~Ending(r) /\ (Ending(r)' <=> r = q)
  BY <1>2, <1>3 DEF Ending, Quiet, Rest, Others
<1>5. /\ \A x \in Tasks : state'[x] = IF x \in W /\ state[x] = "BLOCKED" THEN "READY" ELSE state[x]
      /\ \A x \in Tasks : x \in W => queue[x] = q
      /\ \A x \in Tasks : state[x] = "BLOCKED" /\ queue[x] = q => x \in W
  <2>1. \A x \in Tasks : x \in W => queue[x] = q
    BY <1>1, <1>4 DEF WakeInv, ListsSound, WaitList, Awaits, ToSet
  <2>2. \A x \in Tasks : state[x] = "BLOCKED" /\ queue[x] = q => x \in W
    BY DEF WakeInv, SleepersListed
  <2> QED BY <1>1, <2>1, <2>2 DEF Unblocked
<1> HIDE DEF W
<1>6. SleepersListed'
  BY <1>1, <1>2, <1>3, <1>4, <1>5 DEF WakeInv, SleepersListed, Others, Quiet, Rest
<1>7. ListsSound'
  <2> SUFFICES ASSUME NEW r \in Queues, active[r], r # q
               PROVE  /\ WaitList(senders[r], r, "sendListed", "sendWoken")'
                      /\ WaitList(receivers[r], r, "recvListed", "recvWoken")'
    BY <1>1, <1>4 DEF ListsSound
  <2>1. \A u \in Tasks :
          /\ Awaits(u, r, "sendListed", "sendWoken") => Awaits(u, r, "sendListed", "sendWoken")'
          /\ Awaits(u, r, "recvListed", "recvWoken") => Awaits(u, r, "recvListed", "recvWoken")'
    BY <1>1, <1>2, <1>5 DEF Awaits, Others
  <2>2. /\ \A i \in DOMAIN senders[r] : senders[r][i] \in Tasks
        /\ \A i \in DOMAIN receivers[r] : receivers[r][i] \in Tasks
    <3>1. senders[r] \in Seq(Tasks) /\ receivers[r] \in Seq(Tasks)
      BY DEF IpcInv, TypeOK
    <3> QED BY <3>1
  <2> QED BY <1>1, <1>4, <2>1, <2>2 DEF WakeInv, ListsSound, WaitList
<1>8. CallsSound'
  BY <1>1, <1>2, MoveCalls DEF WakeInv
<1>9. NoWakeupLost'
  <2>1. \A r \in Queues : t \notin Takers(r) /\ t \notin Givers(r)
    BY <1>1 DEF Takers, Givers, InCall, Sending, Receiving
  <2> QED BY <1>1, <1>2, <1>5, <2>1, WakeCounts DEF WakeInv, IpcInv
<1> QED BY <1>6, <1>7, <1>8, <1>9 DEF WakeInv

\* When ipc_destroy closes the queue nobody sleeps on it any more.
LEMMA DestroyEndWakes ==
  ASSUME IpcInv, IpcInv', WakeInv, Settled, EveryoneFits, NEW t \in Tasks, DestroyEnd(t)
  PROVE  WakeInv'
<1>0. PICK q : q = queue[t]
  OBVIOUS
<1>1. /\ Running(t) /\ state[t] = "READY" /\ pc[t] = "destroying"
      /\ active' = [active EXCEPT ![q] = FALSE] /\ UNCHANGED <<count, senders, receivers, state>>
      /\ pc' = [pc EXCEPT ![t] = "user"] /\ queue' = [queue EXCEPT ![t] = NoQ]
  BY <1>0 DEF DestroyEnd, At, Running, listVars
<1>2. Others(t) /\ pc'[t] = "user" /\ q \in Queues
  BY <1>0, <1>1 DEF Others, IpcInv, TypeOK, CallKnown
<1>3. \A u \in Tasks : pc'[u] \in Quiet /\ (u # t => pc[u] \in Quiet)
  BY <1>1, <1>2, OthersQuiet DEF Others, Quiet, Rest
<1>4. \A r : ~Ending(r)' /\ (Ending(r) <=> r = q)
  BY <1>0, <1>1, <1>2, <1>3 DEF Ending, Quiet, Rest
<1>5. \A r \in Queues : active'[r] <=> active[r] /\ r # q
  BY <1>1, <1>2 DEF IpcInv, TypeOK
<1>6. SleepersListed'
  <2>1. \A x \in Tasks : state[x] = "BLOCKED" => queue[x] \in Queues \ {q} /\ x # t
    BY <1>1, <1>4 DEF WakeInv, SleepersListed, IpcInv, CallKnown
  <2> QED BY <1>1, <1>2, <1>3, <1>4, <1>5, <2>1 DEF WakeInv, SleepersListed, Others, Quiet, Rest
<1>7. ListsSound'
  <2>1. \A r \in Queues, u \in Tasks :
          /\ Awaits(u, r, "sendListed", "sendWoken") => Awaits(u, r, "sendListed", "sendWoken")'
          /\ Awaits(u, r, "recvListed", "recvWoken") => Awaits(u, r, "recvListed", "recvWoken")'
    BY <1>1, <1>2 DEF Awaits, Others
  <2>2. \A r \in Queues : /\ \A i \in DOMAIN senders[r] : senders[r][i] \in Tasks
                          /\ \A i \in DOMAIN receivers[r] : receivers[r][i] \in Tasks
    BY DEF IpcInv, TypeOK
  <2> QED BY <1>1, <1>4, <1>5, <2>1, <2>2 DEF WakeInv, ListsSound, WaitList
<1>8. CallsSound'
  <2> SUFFICES ASSUME NEW u \in Tasks, pc'[u] \in {"published", "advanced"}
               PROVE  MaxQueues = 1
    BY <1>3 DEF CallsSound, Quiet, Rest
  <2>1. u # t /\ pc[u] \in Windows
    BY <1>1, <1>2 DEF Others, Running, Rest
  <2> QED BY <1>2, <2>1 DEF Settled, Rest, Others
<1>9. NoWakeupLost'
  <2>1. \A r \in Queues : t \notin Takers(r) /\ t \notin Givers(r)
    BY <1>1 DEF Takers, Givers, InCall, Sending, Receiving
  <2> QED BY <1>1, <1>2, <1>5, <2>1, WakeCounts DEF WakeInv, IpcInv
<1> QED BY <1>6, <1>7, <1>8, <1>9 DEF WakeInv

\* After ipc_init no list has an entry and nobody sleeps.
LEMMA InitWakes == Init => WakeInv
<1> SUFFICES ASSUME Init PROVE WakeInv
  OBVIOUS
<1>1. ListsSound /\ SleepersListed /\ CallsSound
  BY DEF Init, ListsSound, SleepersListed, CallsSound
<1>2. NoWakeupLost
  BY DEF Init, NoWakeupLost, ReceiversWoken, SendersWoken
<1> QED BY <1>1, <1>2 DEF WakeInv

\* Every step of a call keeps the lists sound and the counts answered for.
LEMMA NextWakes ==
  ASSUME IpcInv, IpcInv', WakeInv, Settled, EveryoneFits, [Next]_vars
  PROVE  WakeInv'
<1>1. CASE UNCHANGED vars
  <2>1. ListsSound' /\ SleepersListed' /\ CallsSound'
    BY <1>1 DEF WakeInv, ListsSound, SleepersListed, CallsSound, Ending, WaitList, Awaits,
       vars, queueVars, listVars, callVars
  <2>2. NoWakeupLost'
    BY <1>1 DEF WakeInv, NoWakeupLost, ReceiversWoken, SendersWoken, Asleep, InCall,
       vars, queueVars, listVars, callVars
  <2> QED BY <2>1, <2>2 DEF WakeInv
<1>2. ASSUME NEW t \in Tasks, Step(t) PROVE WakeInv'
  BY <1>2, DestroyEndWakes, SendWakes, ListStep, BlockStep, WakeReceiverStep, RecvWakes,
     WakeSenderStep DEF Step
<1>3. ASSUME NEW t \in Tasks, Begin(t) PROVE WakeInv'
  BY <1>3, CreateWakes, DestroyBeginWakes, SendWakes, RecvWakes DEF Begin
<1> QED BY <1>1, <1>2, <1>3 DEF Next

\* The inductive invariant: lists that hold exactly the sleepers, and as many
\* tasks awake for a queue as there are messages (places) somebody sleeps for.
THEOREM WakeupsKept ==
  ASSUME Settled, EveryoneFits
  PROVE  Spec => []WakeInv
<1>1. Spec => []IpcInv
  BY SettledNoCut, IpcInvariant, SpecIsDisturbed, PTL
<1>2. IpcInv /\ IpcInv' /\ WakeInv /\ [Next]_vars => WakeInv'
  BY NextWakes
<1>3. Init => WakeInv
  BY InitWakes
<1> QED BY <1>1, <1>2, <1>3, PTL DEF Spec

\* While somebody sleeps in ipc_recv each message of the queue has a task awake that
\* takes it or wakes another one; while somebody sleeps in ipc_send, each place.
THEOREM NoWakeupIsLost ==
  ASSUME Settled, EveryoneFits
  PROVE  Spec => []NoWakeupLost
<1>1. WakeInv => NoWakeupLost
  BY DEF WakeInv
<1> QED BY <1>1, WakeupsKept, PTL

\* ipc_destroy wakes every task that is blocked on the queue, and none blocks after.
THEOREM DestroyLeavesNobodyAsleep ==
  ASSUME Settled, EveryoneFits
  PROVE  Spec => []NobodySleepsOnDestroyed
<1>1. WakeInv => NobodySleepsOnDestroyed
  BY DEF WakeInv, SleepersListed, NobodySleepsOnDestroyed, Asleep
<1> QED BY <1>1, WakeupsKept, PTL

================================================================================
