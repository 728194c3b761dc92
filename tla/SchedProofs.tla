---------------------------- MODULE SchedProofs ----------------------------
(***************************************************************************)
(* Theorems about Sched for any number of tasks, priorities, timeslice,    *)
(* operations and timer windows.                                           *)
(***************************************************************************)
EXTENDS Sched, TLAPS, WellFoundedInduction

----------------------------------------------------------------------------
(* _pick_next *)

\* A nonempty set of naturals has a least element.
LEMMA LeastNatural ==
  ASSUME NEW S \in SUBSET Nat, S # {}
  PROVE  \E m \in S : \A n \in S : m <= n
<1> DEFINE R == {ss \in Nat \X Nat : ss[1] < ss[2]}
<1>1. ~ \E f \in [Nat -> Nat] : \A n \in Nat : f[n+1] < f[n]
  <2> SUFFICES ASSUME NEW f \in [Nat -> Nat], \A n \in Nat : f[n+1] < f[n]
               PROVE  FALSE
    OBVIOUS
  <2>1. \A n \in Nat : f[n] \in Nat /\ f[n+1] \in Nat /\ f[n+1] < f[n]
    OBVIOUS
  <2>2. \A n \in Nat : <<f[n+1], f[n]>> \in OpToRel(<, Nat)
    BY <2>1, Zenon DEF OpToRel
  <2> QED BY <2>2, NatLessThanWellFounded DEF IsWellFoundedOn
<1>2. IsWellFoundedOn(R, Nat)
  BY <1>1 DEF IsWellFoundedOn
<1>3. PICK m \in S : \A n \in S : ~(<<n, m>> \in R)
  BY <1>2, WFMin
<1>4. \A n \in S : m \in Nat /\ n \in Nat /\ ~(n < m)
  BY <1>3
<1>5. \A n \in S : m <= n
  BY <1>4
<1> QED BY <1>5

\* _pick_next returns a READY task if there is one, of the highest priority among
\* them; else it returns idle, which is then RUNNING, or the caller itself.
LEMMA PickNextChoice ==
  ASSUME NEW st, current \in Tid, prio \in [Tid -> Prio]
  PROVE  /\ PickNext(st) \in Tid
         /\ Ready(st) # {} => /\ st[PickNext(st)] = "READY"
                             /\ PickNext(st) \in TopReady(st)
         /\ Ready(st) = {} => \/ PickNext(st) = Idle /\ st[Idle] = "RUNNING"
                             \/ PickNext(st) = current
<1> USE SchedAssumption
<1>1. CASE Ready(st) = {}
  BY <1>1 DEF PickNext, Tid, Idle
<1>2. CASE Ready(st) # {}
  <2>1. \E t \in Ready(st) : \A u \in Ready(st) : prio[u] <= prio[t]
    <3> DEFINE S == {NumPrios - 1 - prio[t] : t \in Ready(st)}
    <3>1. S \in SUBSET Nat /\ S # {}
      BY <1>2 DEF Ready, Prio
    <3>2. PICK m \in S : \A n \in S : m <= n
      BY <3>1, LeastNatural
    <3>3. PICK t \in Ready(st) : m = NumPrios - 1 - prio[t]
      BY <3>2
    <3>4. \A u \in Ready(st) : NumPrios - 1 - prio[t] <= NumPrios - 1 - prio[u]
      BY <3>2, <3>3
    <3>5. \A u \in Ready(st) : prio[u] \in Int /\ prio[t] \in Int
      BY DEF Ready, Prio
    <3>6. \A u \in Ready(st) : prio[u] <= prio[t]
      BY <3>4, <3>5
    <3> QED BY <3>6
  <2>2. TopReady(st) # {}
    BY <2>1 DEF TopReady
  <2>3. \E t \in TopReady(st) : \A u \in TopReady(st) : Distance(t) <= Distance(u)
    <3> DEFINE S == {Distance(t) : t \in TopReady(st)}
    <3>1. S \in SUBSET Nat /\ S # {}
      BY <2>2 DEF TopReady, Ready, Distance, Tid
    <3> HIDE DEF S
    <3>2. PICK m \in S : \A n \in S : m <= n
      BY <3>1, LeastNatural
    <3> QED BY <3>2 DEF S
  <2>4. PickNext(st) \in TopReady(st)
    BY <1>2, <2>3 DEF PickNext
  <2> QED BY <1>2, <2>4 DEF TopReady, Ready
<1> QED BY <1>1, <1>2

----------------------------------------------------------------------------
(* The inductive invariant *)

\* A task between _pick_next and _switch_to knows whom it switches to.
NextKnown ==
  \A t \in Tid : pc[t] \in {"yielding", "waiting", "leaving"} => next[t] \in Tid

SchedInv == TypeOK /\ NextKnown /\ OnlyCurrentRuns /\ EoiAccounting

\* _switch_to, whoever calls it for whatever target, keeps what SchedInv says of
\* the states, the slices and the interrupt controller.
LEMMA SwitchToStep ==
  ASSUME TypeOK, EoiAccounting,
         NEW st \in [Tid -> States], NEW sl \in [Tid -> 0 .. Timeslice],
         NEW to \in Tid, NEW fromIrq \in BOOLEAN,
         \A t \in Tid : st[t] = "RUNNING" => t = current,
         fromIrq => ~isr,
         SwitchTo(st, sl, to, fromIrq)
  PROVE  /\ state' \in [Tid -> States]
         /\ slice' \in [Tid -> 0 .. Timeslice]
         /\ current' \in Tid /\ isr' \in BOOLEAN /\ inIrq' \in [Tid -> BOOLEAN]
         /\ OnlyCurrentRuns'
         /\ EoiAccounting'
<1> USE SchedAssumption
<1> USE DEF TypeOK
<1>1. CASE to = current
  BY <1>1 DEF SwitchTo, OnlyCurrentRuns, EoiAccounting, cpuVars
<1>2. CASE to # current
  <2>1. /\ state' = [st EXCEPT ![current] = IF @ = "RUNNING" THEN "READY" ELSE @,
                               ![to] = "RUNNING"]
        /\ slice' = [sl EXCEPT ![to] = Timeslice]
        /\ current' = to
        /\ inIrq' = [inIrq EXCEPT ![current] = fromIrq, ![to] = FALSE]
        /\ isr' = (~inIrq[to] /\ (isr \/ fromIrq))
    BY <1>2 DEF SwitchTo
  <2>2. /\ state' \in [Tid -> States] /\ slice' \in [Tid -> 0 .. Timeslice]
        /\ current' \in Tid /\ isr' \in BOOLEAN /\ inIrq' \in [Tid -> BOOLEAN]
    BY <2>1 DEF States
  <2>3. OnlyCurrentRuns'
    BY <2>1, <1>2 DEF OnlyCurrentRuns
  <2>4. EoiAccounting'
    BY <2>1, <1>2 DEF EoiAccounting
  <2> QED BY <2>2, <2>3, <2>4
<1> QED BY <1>1, <1>2

\* sched_init establishes the invariant.
LEMMA InitInv == Init => SchedInv
<1> USE SchedAssumption
<1> SUFFICES ASSUME Init PROVE SchedInv
  OBVIOUS
<1>1. TypeOK
  <2>1. Idle \in Tid /\ 0 \in Prio /\ Timeslice \in 0 .. Timeslice
    BY DEF Tid, Idle, Prio
  <2> QED BY <2>1 DEF Init, TypeOK, States, Points
<1>2. NextKnown
  BY DEF Init, NextKnown
<1>3. OnlyCurrentRuns
  BY DEF Init, OnlyCurrentRuns, Tid, Idle
<1>4. EoiAccounting
  BY DEF Init, EoiAccounting
<1> QED BY <1>1, <1>2, <1>3, <1>4 DEF SchedInv

\* The operations that leave the interrupt controller and current alone.
LEMMA CreateBeginInv == SchedInv /\ CreateBegin => SchedInv'
<1> SUFFICES ASSUME SchedInv, CreateBegin PROVE SchedInv'
  OBVIOUS
<1> USE DEF SchedInv, CreateBegin, Goto, sigVars, cpuVars
<1>1. TypeOK'
  BY DEF TypeOK, States, Points
<1>2. NextKnown'
  BY DEF NextKnown, TypeOK
<1>3. OnlyCurrentRuns'
  BY DEF OnlyCurrentRuns, TypeOK
<1>4. EoiAccounting'
  BY DEF EoiAccounting
<1> QED BY <1>1, <1>2, <1>3, <1>4

LEMMA CreateEndInv == ASSUME NEW p \in Prio PROVE SchedInv /\ CreateEnd(p) => SchedInv'
<1> SUFFICES ASSUME SchedInv, CreateEnd(p) PROVE SchedInv'
  OBVIOUS
<1> USE DEF SchedInv, CreateEnd
<1> USE SchedAssumption
<1>1. TypeOK'
  <2>1. Timeslice \in 0 .. Timeslice /\ {} \in SUBSET Signals
    OBVIOUS
  <2>2. /\ prio' \in [Tid -> Prio] /\ parent' \in [Tid -> Tid \cup {NoTid}]
        /\ waitTid' \in [Tid -> Tid \cup {NoTid}] /\ slice' \in [Tid -> 0 .. Timeslice]
        /\ wakeIn' \in [Tid -> Nat] /\ stack' \in [Tid -> BOOLEAN]
    BY <2>1 DEF TypeOK
  <2>3. /\ pending' \in [Tid -> SUBSET Signals] /\ masked' \in [Tid -> SUBSET Signals]
        /\ handled' \in [Tid -> SUBSET Signals] /\ inIrq' \in [Tid -> BOOLEAN]
    BY <2>1 DEF TypeOK
  <2>4. /\ pc' \in [Tid -> Points] /\ arg' \in [Tid -> Tid \cup {NoTid}]
        /\ next' \in [Tid -> Tid \cup {NoTid}]
    BY DEF TypeOK, Points
  <2> QED BY <2>2, <2>3, <2>4 DEF TypeOK
<1>2. NextKnown'
  BY DEF NextKnown, TypeOK
<1>3. OnlyCurrentRuns'
  BY DEF OnlyCurrentRuns
<1>4. EoiAccounting'
  BY DEF EoiAccounting, TypeOK
<1> QED BY <1>1, <1>2, <1>3, <1>4

LEMMA YieldInv == SchedInv /\ Yield => SchedInv'
<1> SUFFICES ASSUME SchedInv, Yield PROVE SchedInv'
  OBVIOUS
<1> USE DEF SchedInv, Yield, PickThen, Goto, sigVars, cpuVars
<1>1. PickNext(state) \in Tid
  BY PickNextChoice DEF TypeOK
<1>2. TypeOK'
  BY <1>1, SchedAssumption DEF TypeOK, Points
<1>3. NextKnown'
  BY <1>1 DEF NextKnown, TypeOK
<1>4. OnlyCurrentRuns' /\ EoiAccounting'
  BY DEF OnlyCurrentRuns, EoiAccounting
<1> QED BY <1>2, <1>3, <1>4

LEMMA SleepInv == ASSUME NEW ms \in SleepTicks PROVE SchedInv /\ Sleep(ms) => SchedInv'
<1> SUFFICES ASSUME SchedInv, Sleep(ms) PROVE SchedInv'
  OBVIOUS
<1> USE DEF SchedInv, Sleep, PickThen, Goto, sigVars, cpuVars
<1>1. PickNext([state EXCEPT ![current] = "SLEEPING"]) \in Tid
  BY PickNextChoice DEF TypeOK
<1>2. TypeOK'
  BY <1>1, SchedAssumption DEF TypeOK, Points, States
<1>3. NextKnown'
  BY <1>1 DEF NextKnown, TypeOK
<1>4. OnlyCurrentRuns' /\ EoiAccounting'
  BY DEF OnlyCurrentRuns, EoiAccounting, TypeOK
<1> QED BY <1>2, <1>3, <1>4

LEMMA SwitchInv == SchedInv /\ Switch => SchedInv'
<1> SUFFICES ASSUME SchedInv, Switch PROVE SchedInv'
  OBVIOUS
<1> USE DEF SchedInv
<1>1. next[current] \in Tid
  BY DEF Switch, NextKnown, TypeOK
<1>2. /\ state' \in [Tid -> States] /\ slice' \in [Tid -> 0 .. Timeslice]
      /\ current' \in Tid /\ isr' \in BOOLEAN /\ inIrq' \in [Tid -> BOOLEAN]
      /\ OnlyCurrentRuns' /\ EoiAccounting'
  BY <1>1, SwitchToStep DEF Switch, TypeOK, OnlyCurrentRuns
<1>3. pc' \in [Tid -> Points] /\ pc'[current] \notin {"yielding", "waiting", "leaving"}
  BY DEF Switch, Goto, AfterSwitch, TypeOK, Points
<1>4. TypeOK'
  BY <1>2, <1>3 DEF TypeOK, Switch, sigVars
<1>5. NextKnown'
  BY <1>3 DEF NextKnown, Switch, Goto, TypeOK
<1> QED BY <1>2, <1>4, <1>5

LEMMA ExitInv == SchedInv /\ (ExitBegin \/ ExitNotify \/ ExitPick) => SchedInv'
<1> USE DEF SchedInv, Goto, sigVars, cpuVars
<1>1. ASSUME SchedInv, ExitBegin PROVE SchedInv'
  <2> USE <1>1 DEF ExitBegin
  <2>1. TypeOK'
    BY DEF TypeOK, Points, States
  <2>2. NextKnown'
    BY DEF NextKnown, TypeOK
  <2>3. OnlyCurrentRuns' /\ EoiAccounting'
    BY DEF OnlyCurrentRuns, EoiAccounting, TypeOK
  <2> QED BY <2>1, <2>2, <2>3
<1>2. ASSUME SchedInv, ExitNotify PROVE SchedInv'
  <2> USE <1>2 DEF ExitNotify
  <2>1. TypeOK'
    BY DEF TypeOK, Points, States, NotifiedState, NotifiedWait
  <2>2. NextKnown'
    BY DEF NextKnown, TypeOK
  <2>3. OnlyCurrentRuns' /\ EoiAccounting'
    BY DEF OnlyCurrentRuns, EoiAccounting, TypeOK, NotifiedState
  <2> QED BY <2>1, <2>2, <2>3
<1>3. ASSUME SchedInv, ExitPick PROVE SchedInv'
  <2> USE <1>3 DEF ExitPick, PickThen, taskVars
  <2>1. PickNext(state) \in Tid
    BY PickNextChoice DEF TypeOK
  <2>2. TypeOK'
    BY <2>1 DEF TypeOK, Points
  <2>3. NextKnown'
    BY <2>1 DEF NextKnown, TypeOK
  <2>4. OnlyCurrentRuns' /\ EoiAccounting'
    BY DEF OnlyCurrentRuns, EoiAccounting
  <2> QED BY <2>2, <2>3, <2>4
<1> QED BY <1>1, <1>2, <1>3

LEMMA KillInv ==
  ASSUME SchedInv, (\E t \in Tid : KillBegin(t)) \/ KillNotify \/ KillSelf
  PROVE  SchedInv'
<1> USE DEF SchedInv, Goto, sigVars, cpuVars
<1>1. ASSUME NEW t \in Tid, KillBegin(t) PROVE SchedInv'
  <2> USE <1>1 DEF KillBegin
  <2>1. TypeOK'
    BY DEF TypeOK, Points, States
  <2>2. NextKnown'
    BY DEF NextKnown, TypeOK
  <2>3. OnlyCurrentRuns' /\ EoiAccounting'
    BY DEF OnlyCurrentRuns, EoiAccounting, TypeOK
  <2> QED BY <2>1, <2>2, <2>3
<1>2. ASSUME KillNotify PROVE SchedInv'
  <2> USE <1>2 DEF KillNotify, Return
  <2>1. TypeOK'
    BY DEF TypeOK, Points, States, NotifiedState, NotifiedWait
  <2>2. NextKnown'
    BY DEF NextKnown, TypeOK
  <2>3. OnlyCurrentRuns' /\ EoiAccounting'
    BY DEF OnlyCurrentRuns, EoiAccounting, TypeOK, NotifiedState
  <2> QED BY <2>1, <2>2, <2>3
<1>3. ASSUME KillSelf PROVE SchedInv'
  <2> USE <1>3 DEF KillSelf, PickThen, taskVars
  <2>1. PickNext(state) \in Tid
    BY PickNextChoice DEF TypeOK
  <2>2. TypeOK'
    BY <2>1 DEF TypeOK, Points
  <2>3. NextKnown'
    BY <2>1 DEF NextKnown, TypeOK
  <2>4. OnlyCurrentRuns' /\ EoiAccounting'
    BY DEF OnlyCurrentRuns, EoiAccounting
  <2> QED BY <2>2, <2>3, <2>4
<1> QED BY <1>1, <1>2, <1>3

LEMMA WaitInv ==
  ASSUME SchedInv,
         \/ \E c \in Tid : WaitDead(c) \/ WaitTest(c)
         \/ WaitBlock \/ WaitReap
  PROVE  SchedInv'
<1> USE DEF SchedInv, Goto, sigVars, cpuVars, codeVars, taskVars, Reaped
<1>1. ASSUME NEW c \in Tid, WaitDead(c) PROVE SchedInv'
  <2> USE <1>1 DEF WaitDead
  <2>1. TypeOK' /\ NextKnown'
    BY DEF TypeOK, NextKnown, States
  <2>2. OnlyCurrentRuns' /\ EoiAccounting'
    BY DEF OnlyCurrentRuns, EoiAccounting, TypeOK
  <2> QED BY <2>1, <2>2
<1>2. ASSUME NEW c \in Tid, WaitTest(c) PROVE SchedInv'
  <2> USE <1>2 DEF WaitTest
  <2>1. TypeOK'
    BY DEF TypeOK, Points
  <2>2. NextKnown'
    BY DEF NextKnown, TypeOK
  <2>3. OnlyCurrentRuns' /\ EoiAccounting'
    BY DEF OnlyCurrentRuns, EoiAccounting
  <2> QED BY <2>1, <2>2, <2>3
<1>3. ASSUME WaitBlock PROVE SchedInv'
  <2> USE <1>3 DEF WaitBlock, PickThen
  <2>1. PickNext([state EXCEPT ![current] = "BLOCKED"]) \in Tid
    BY PickNextChoice DEF TypeOK
  <2>2. TypeOK'
    BY <2>1 DEF TypeOK, Points, States
  <2>3. NextKnown'
    BY <2>1 DEF NextKnown, TypeOK
  <2>4. OnlyCurrentRuns' /\ EoiAccounting'
    BY DEF OnlyCurrentRuns, EoiAccounting, TypeOK
  <2> QED BY <2>2, <2>3, <2>4
<1>4. ASSUME WaitReap PROVE SchedInv'
  <2> USE <1>4 DEF WaitReap, Return
  <2>1. TypeOK'
    BY DEF TypeOK, Points, States
  <2>2. NextKnown'
    BY DEF NextKnown, TypeOK
  <2>3. OnlyCurrentRuns' /\ EoiAccounting'
    BY DEF OnlyCurrentRuns, EoiAccounting, TypeOK
  <2> QED BY <2>1, <2>2, <2>3
<1> QED BY <1>1, <1>2, <1>3, <1>4

LEMMA BlockInv ==
  ASSUME SchedInv, NEW t \in Tid, Block(t) \/ Unblock(t) \/ SigStop(t) \/ SigCont(t)
  PROVE  SchedInv'
<1> USE DEF SchedInv, sigVars, cpuVars, codeVars
<1>1. ASSUME Block(t) PROVE SchedInv'
  <2> USE <1>1 DEF Block, PickThen, Goto
  <2>1. PickNext([state EXCEPT ![t] = "BLOCKED"]) \in Tid
    BY PickNextChoice DEF TypeOK
  <2>2. TypeOK'
    BY <2>1 DEF TypeOK, Points, States
  <2>3. NextKnown'
    BY <2>1 DEF NextKnown, TypeOK
  <2>4. OnlyCurrentRuns' /\ EoiAccounting'
    BY DEF OnlyCurrentRuns, EoiAccounting, TypeOK
  <2> QED BY <2>2, <2>3, <2>4
<1>2. ASSUME Unblock(t) \/ SigStop(t) \/ SigCont(t) PROVE SchedInv'
  <2> USE <1>2 DEF Unblock, SigStop, SigCont
  <2>1. TypeOK'
    BY DEF TypeOK, States
  <2>2. NextKnown' /\ EoiAccounting'
    BY DEF NextKnown, EoiAccounting
  <2>3. OnlyCurrentRuns'
    BY DEF OnlyCurrentRuns, TypeOK
  <2> QED BY <2>1, <2>2, <2>3
<1> QED BY <1>1, <1>2

LEMMA SignalInv ==
  ASSUME SchedInv,
         \/ \E t \in Tid, s \in Signals : SigSend(t, s)
         \/ \E s \in Signals : SigAction(s)
         \/ \E S \in SUBSET Signals : MaskBlock(S) \/ MaskUnblock(S)
  PROVE  SchedInv'
<1> USE DEF SchedInv, cpuVars, codeVars, taskVars
<1>1. ASSUME NEW t \in Tid, NEW s \in Signals, SigSend(t, s) PROVE SchedInv'
  <2> USE <1>1 DEF SigSend
  <2>1. TypeOK'
    BY DEF TypeOK, States
  <2>2. NextKnown' /\ OnlyCurrentRuns' /\ EoiAccounting'
    BY DEF NextKnown, OnlyCurrentRuns, EoiAccounting, TypeOK
  <2> QED BY <2>1, <2>2
<1>2. ASSUME NEW s \in Signals, SigAction(s) PROVE SchedInv'
  BY <1>2 DEF SigAction, TypeOK, NextKnown, OnlyCurrentRuns, EoiAccounting
<1>3. ASSUME NEW S \in SUBSET Signals, MaskBlock(S) PROVE SchedInv'
  BY <1>3 DEF MaskBlock, TypeOK, NextKnown, OnlyCurrentRuns, EoiAccounting
<1>4. ASSUME NEW S \in SUBSET Signals, MaskUnblock(S) PROVE SchedInv'
  <2> USE <1>4 DEF MaskUnblock, Delivered, Goto
  <2>1. TypeOK'
    BY DEF TypeOK, States, Points
  <2>2. NextKnown'
    BY DEF NextKnown, TypeOK
  <2>3. OnlyCurrentRuns' /\ EoiAccounting'
    BY DEF OnlyCurrentRuns, EoiAccounting, TypeOK
  <2> QED BY <2>1, <2>2, <2>3
<1> QED BY <1>1, <1>2, <1>3, <1>4

\* What the first half of sched_tick leaves: sleepers woken, zombies reaped.
LEMMA TimerLandsStep ==
  ASSUME SchedInv, TimerLands
  PROVE  /\ TickState \in [Tid -> States]
         /\ \A t \in Tid : TickState[t] = "RUNNING" => t = current
         /\ phase' \in Nat /\ wakeIn' \in [Tid -> Nat] /\ stack' \in [Tid -> BOOLEAN]
         /\ pending' \in [Tid -> SUBSET Signals]
         /\ UNCHANGED <<prio, parent, masked, handled, arg, next>>
         /\ ~isr /\ pc[current] \in Points
<1> USE DEF SchedInv, TypeOK
<1>1. TickState \in [Tid -> States] /\ \A t \in Tid : TickState[t] = "RUNNING" => t = current
  BY DEF TickState, Woken, OnlyCurrentRuns, States
<1>2. phase' \in Nat
  <2>1. phase + 1 \in Nat /\ ReapPeriod \in Nat \ {0}
    BY SchedAssumption
  <2> QED BY <2>1 DEF TimerLands
<1>3. pending' \in [Tid -> SUBSET Signals]
  BY DEF TimerLands, Delivered
<1>4. wakeIn' \in [Tid -> Nat] /\ stack' \in [Tid -> BOOLEAN]
  BY DEF TimerLands
<1> QED BY <1>1, <1>2, <1>3, <1>4 DEF TimerLands

LEMMA TickInv == SchedInv /\ Tick => SchedInv'
<1> SUFFICES ASSUME SchedInv, Tick PROVE SchedInv'
  OBVIOUS
<1> USE DEF SchedInv
<1>1. TimerLands /\ UNCHANGED <<waitTid, pc>>
  BY DEF Tick
<1>2. SliceLeft \in 0 .. Timeslice /\ Timeslice \in 0 .. Timeslice
  BY SchedAssumption DEF SliceLeft, TypeOK
<1>3. PickNext(TickState) \in Tid
  BY PickNextChoice DEF TypeOK
<1>4. \E sl \in [Tid -> 0 .. Timeslice], to \in Tid : SwitchTo(TickState, sl, to, TRUE)
  <2>1. CASE SliceLeft > 0
    <3>1. SwitchTo(TickState, [slice EXCEPT ![current] = SliceLeft], current, TRUE)
      BY <2>1 DEF Tick
    <3> QED BY <3>1, <1>2 DEF TypeOK
  <2>2. CASE ~(SliceLeft > 0)
    <3>1. SwitchTo(TickState, [slice EXCEPT ![current] = Timeslice],
                   PickNext(TickState), TRUE)
      BY <2>2 DEF Tick
    <3> QED BY <3>1, <1>2, <1>3 DEF TypeOK
  <2> QED BY <2>1, <2>2
<1>5. /\ state' \in [Tid -> States] /\ slice' \in [Tid -> 0 .. Timeslice]
      /\ current' \in Tid /\ isr' \in BOOLEAN /\ inIrq' \in [Tid -> BOOLEAN]
      /\ OnlyCurrentRuns' /\ EoiAccounting'
  BY <1>1, <1>4, TimerLandsStep, SwitchToStep
<1>6. TypeOK'
  BY <1>1, <1>5, TimerLandsStep DEF TypeOK
<1>7. NextKnown'
  BY <1>1, TimerLandsStep DEF NextKnown
<1> QED BY <1>5, <1>6, <1>7

LEMMA TickFatalInv == SchedInv /\ (TickFatal \/ TickFatalIdle) => SchedInv'
<1> USE DEF SchedInv
<1>1. ASSUME SchedInv, TickFatal PROVE SchedInv'
  <2> DEFINE dead == [TickState EXCEPT ![current] = "DEAD"]
             st   == NotifiedState(dead, current)
  <2>1. TimerLands
    BY <1>1 DEF TickFatal
  <2>2. dead \in [Tid -> States] /\ \A t \in Tid : dead[t] = "RUNNING" => t = current
    BY <1>1, <2>1, TimerLandsStep DEF TypeOK, States
  <2>3. st \in [Tid -> States] /\ \A t \in Tid : st[t] = "RUNNING" => t = current
    BY <2>2 DEF NotifiedState, States
  <2>4. waitTid' \in [Tid -> Tid \cup {NoTid}]
    BY <1>1 DEF TickFatal, NotifiedWait, TypeOK
  <2> HIDE DEF dead
  <2>5. CASE PickNext(st) = current
    <3>1. state' = st /\ isr' = TRUE /\ Goto("halt") /\ UNCHANGED <<slice, current, inIrq>>
      BY <1>1, <2>5 DEF TickFatal, dead
    <3> HIDE DEF st
    <3>2. TypeOK'
      BY <1>1, <2>1, <2>3, <2>4, <3>1, TimerLandsStep DEF TypeOK, Goto, Points
    <3>3. NextKnown' /\ OnlyCurrentRuns' /\ EoiAccounting'
      BY <1>1, <2>1, <2>3, <3>1, TimerLandsStep
      DEF NextKnown, OnlyCurrentRuns, EoiAccounting, TypeOK, Goto
    <3> QED BY <3>2, <3>3
  <2>6. CASE PickNext(st) # current
    <3>1. SwitchTo(st, slice, PickNext(st), TRUE) /\ UNCHANGED pc
      BY <1>1, <2>6 DEF TickFatal, dead
    <3>2. PickNext(st) \in Tid
      BY <1>1, PickNextChoice DEF TypeOK
    <3> HIDE DEF st
    <3>3. /\ state' \in [Tid -> States] /\ slice' \in [Tid -> 0 .. Timeslice]
          /\ current' \in Tid /\ isr' \in BOOLEAN /\ inIrq' \in [Tid -> BOOLEAN]
          /\ OnlyCurrentRuns' /\ EoiAccounting'
      <4>1. ~isr /\ slice \in [Tid -> 0 .. Timeslice]
        BY <1>1, <2>1, TimerLandsStep DEF TypeOK
      <4> QED BY <1>1, <2>3, <3>1, <3>2, <4>1, SwitchToStep
    <3>4. TypeOK'
      BY <1>1, <2>1, <2>4, <3>1, <3>3, TimerLandsStep DEF TypeOK
    <3>5. NextKnown'
      BY <1>1, <2>1, <3>1, TimerLandsStep DEF NextKnown
    <3> QED BY <3>3, <3>4, <3>5
  <2> QED BY <2>5, <2>6
<1>2. ASSUME SchedInv, TickFatalIdle PROVE SchedInv'
  <2>1. /\ TimerLands /\ state' = TickState /\ isr' = TRUE /\ Goto("halt")
        /\ UNCHANGED <<waitTid, slice, current, inIrq>>
    BY <1>2 DEF TickFatalIdle
  <2>2. TypeOK'
    BY <1>2, <2>1, TimerLandsStep DEF TypeOK, Goto, Points
  <2>3. NextKnown' /\ OnlyCurrentRuns' /\ EoiAccounting'
    BY <1>2, <2>1, TimerLandsStep
    DEF NextKnown, OnlyCurrentRuns, EoiAccounting, TypeOK, Goto
  <2> QED BY <2>2, <2>3
<1> QED BY <1>1, <1>2

\* Every step keeps the invariant.
LEMMA NextInv == SchedInv /\ [Next]_vars => SchedInv'
<1> SUFFICES ASSUME SchedInv, [Next]_vars PROVE SchedInv'
  OBVIOUS
<1>1. CASE Continue
  BY <1>1, SchedAssumption, CreateEndInv, SwitchInv, ExitInv, KillInv, WaitInv
  DEF Continue, Prio
<1>2. CASE GiveUp
  BY <1>2, YieldInv, SleepInv, ExitInv DEF GiveUp
<1>3. CASE Other
  <2>1. Targets \subseteq Tid
    BY SchedAssumption DEF Tid
  <2> QED BY <1>3, <2>1, CreateBeginInv, KillInv, WaitInv, BlockInv, SignalInv DEF Other
<1>4. CASE Timer
  BY <1>4, TickInv, TickFatalInv DEF Timer
<1>5. CASE UNCHANGED vars
  BY <1>5 DEF vars, taskVars, sigVars, cpuVars, codeVars, SchedInv, TypeOK, NextKnown,
              OnlyCurrentRuns, EoiAccounting
<1> QED BY <1>1, <1>2, <1>3, <1>4, <1>5 DEF Next

THEOREM SchedInvariant == Spec => []SchedInv
<1> QED BY InitInv, NextInv, PTL DEF Spec

\* Every field of every task keeps a value of its range.
THEOREM TypeCorrect == Spec => []TypeOK
<1>1. SchedInv => TypeOK
  BY DEF SchedInv
<1> QED BY <1>1, SchedInvariant, PTL

\* At every point at which a timer interrupt may land, for every number of tasks,
\* the task on the CPU is the only one marked RUNNING.
THEOREM OneRunner == Spec => []OnlyCurrentRuns
<1>1. SchedInv => OnlyCurrentRuns
  BY DEF SchedInv
<1> QED BY <1>1, SchedInvariant, PTL

\* The EOI of a timer interrupt is owed by at most one suspended frame.
THEOREM OneEoi == Spec => []EoiAccounting
<1>1. SchedInv => EoiAccounting
  BY DEF SchedInv
<1> QED BY <1>1, SchedInvariant, PTL

----------------------------------------------------------------------------
(* When the kernel main loop never gives the CPU up by itself, the timer    *)
(* lands in it alone.                                                       *)

\* The main loop creates tasks and sends them signals, but never yields, sleeps,
\* waits or exits, and nobody signals or blocks it.
IdleNeverGivesUp ==
  /\ IdleOps \subseteq {"create", "kill", "signal", "stop", "cont", "unblock"}
  /\ Idle \notin Targets

IdleOwesEoi == current # Idle => inIrq[Idle]

\* No function works on the idle task's slot.
ArgNotIdle ==
  \A t \in Tid :
    pc[t] \in {"creating", "killing", "waitTested", "waiting", "waitResume"}
      => arg[t] \in Tid \ {Idle}

IdleLocal ==
  /\ pc[Idle] \in {"user", "creating", "killing"}
  /\ pending[Idle] = {}
  /\ parent[Idle] = NoTid

IdleInv == TicksOnlyIdle /\ IdleOwesEoi /\ IdleSurvives /\ ArgNotIdle /\ IdleLocal

LEMMA IdleInTid == Idle \in Tid /\ NoTid \notin Tid
BY SchedAssumption DEF Idle, Tid, NoTid

LEMMA IdleInitInv == Init => IdleInv
BY IdleInTid DEF Init, IdleInv, TicksOnlyIdle, IdleOwesEoi, IdleSurvives, ArgNotIdle, IdleLocal

\* Operations that the main loop does not call are called by other tasks.
LEMMA NotIdle ==
  ASSUME IdleNeverGivesUp, NEW op,
         op \in {"yield", "sleep", "exit", "wait", "block", "sigmask", "sigaction"},
         Calls(op)
  PROVE  current # Idle
BY DEF IdleNeverGivesUp, Calls

LEMMA IdleContinueInv ==
  ASSUME IdleNeverGivesUp, SchedInv, IdleInv, Continue
  PROVE  IdleInv'
<1> USE IdleInTid
<1> USE DEF IdleInv, SchedInv, Goto, sigVars, cpuVars
<1>1. ASSUME NEW p \in TaskPrios, CreateEnd(p) PROVE IdleInv'
  <2> USE <1>1 DEF CreateEnd
  <2>1. TicksOnlyIdle' /\ IdleOwesEoi' /\ IdleSurvives'
    BY DEF TicksOnlyIdle, IdleOwesEoi, IdleSurvives, ArgNotIdle, TypeOK
  <2>2. ArgNotIdle'
    BY DEF ArgNotIdle, TypeOK
  <2>3. IdleLocal'
    BY DEF IdleLocal, ArgNotIdle, TypeOK
  <2> QED BY <2>1, <2>2, <2>3
<1>2. ASSUME Switch PROVE IdleInv'
  <2> USE <1>2 DEF Switch
  <2>1. current # Idle
    BY DEF IdleLocal
  <2>2. (next[current] \in Tid /\ next[current] # current)
        \/ next[current] = current
    BY DEF NextKnown, TypeOK
  <2>3. TicksOnlyIdle' /\ IdleOwesEoi' /\ IdleSurvives'
    <3>1. CASE next[current] = current
      BY <3>1, <2>1 DEF SwitchTo, TicksOnlyIdle, IdleOwesEoi, IdleSurvives
    <3>2. CASE next[current] = Idle /\ next[current] # current
      BY <3>2, <2>1 DEF SwitchTo, TicksOnlyIdle, IdleOwesEoi, IdleSurvives, TypeOK, EoiAccounting
    <3>3. CASE next[current] \in Tid \ {Idle} /\ next[current] # current
      <4>1. ~inIrq[next[current]]
        BY <3>3, <2>1 DEF IdleOwesEoi, EoiAccounting
      <4> QED BY <4>1, <3>3, <2>1
             DEF SwitchTo, TicksOnlyIdle, IdleOwesEoi, IdleSurvives, TypeOK
    <3> QED BY <2>2, <3>1, <3>2, <3>3
  <2>4. pc' = [pc EXCEPT ![current] = AfterSwitch[pc[current]]] /\ arg' = arg
    OBVIOUS
  <2>5. ArgNotIdle'
    BY <2>4 DEF ArgNotIdle, TypeOK, AfterSwitch
  <2>6. IdleLocal'
    BY <2>1, <2>4 DEF IdleLocal, TypeOK
  <2> QED BY <2>3, <2>5, <2>6
<1>3. ASSUME ExitNotify \/ ExitPick PROVE IdleInv'
  <2> USE <1>3 DEF ExitNotify, ExitPick, PickThen, taskVars
  <2>1. current # Idle
    BY DEF IdleLocal
  <2>2. TicksOnlyIdle' /\ IdleOwesEoi' /\ IdleSurvives'
    BY DEF TicksOnlyIdle, IdleOwesEoi, IdleSurvives, NotifiedState, TypeOK
  <2>3. ArgNotIdle' /\ IdleLocal'
    BY <2>1 DEF ArgNotIdle, IdleLocal, TypeOK
  <2> QED BY <2>2, <2>3
<1>4. ASSUME KillNotify \/ KillSelf PROVE IdleInv'
  <2> USE <1>4 DEF KillNotify, KillSelf, PickThen, taskVars, Return
  <2>1. TicksOnlyIdle' /\ IdleOwesEoi' /\ IdleSurvives'
    BY DEF TicksOnlyIdle, IdleOwesEoi, IdleSurvives, NotifiedState, TypeOK
  <2>2. ArgNotIdle' /\ IdleLocal'
    BY DEF ArgNotIdle, IdleLocal, TypeOK
  <2> QED BY <2>1, <2>2
<1>5. ASSUME WaitBlock PROVE IdleInv'
  <2> USE <1>5 DEF WaitBlock, PickThen
  <2>1. current # Idle
    BY DEF IdleLocal
  <2>2. TicksOnlyIdle' /\ IdleOwesEoi' /\ IdleSurvives'
    BY <2>1 DEF TicksOnlyIdle, IdleOwesEoi, IdleSurvives, TypeOK
  <2>3. ArgNotIdle' /\ IdleLocal'
    BY <2>1 DEF ArgNotIdle, IdleLocal, TypeOK
  <2> QED BY <2>2, <2>3
<1>6. ASSUME WaitReap PROVE IdleInv'
  <2> USE <1>6 DEF WaitReap, Return, Reaped
  <2>1. current # Idle
    BY DEF IdleLocal
  <2>2. TicksOnlyIdle' /\ IdleOwesEoi' /\ IdleSurvives'
    BY DEF TicksOnlyIdle, IdleOwesEoi, IdleSurvives, TypeOK, ArgNotIdle
  <2>3. ArgNotIdle' /\ IdleLocal'
    BY <2>1 DEF ArgNotIdle, IdleLocal, TypeOK
  <2> QED BY <2>2, <2>3
<1> QED BY <1>1, <1>2, <1>3, <1>4, <1>5, <1>6 DEF Continue

LEMMA IdleGiveUpInv ==
  ASSUME IdleNeverGivesUp, SchedInv, IdleInv, GiveUp
  PROVE  IdleInv'
<1> USE IdleInTid
<1> USE DEF IdleInv, SchedInv, Goto, sigVars, cpuVars, PickThen
<1>1. current # Idle
  BY NotIdle DEF GiveUp, Yield, Sleep, ExitBegin
<1>2. TicksOnlyIdle' /\ IdleOwesEoi' /\ IdleSurvives'
  BY <1>1 DEF GiveUp, Yield, Sleep, ExitBegin, TicksOnlyIdle, IdleOwesEoi, IdleSurvives, TypeOK
<1>3. ArgNotIdle' /\ IdleLocal'
  BY <1>1 DEF GiveUp, Yield, Sleep, ExitBegin, ArgNotIdle, IdleLocal, TypeOK
<1> QED BY <1>2, <1>3

LEMMA IdleOtherInv ==
  ASSUME IdleNeverGivesUp, SchedInv, IdleInv, Other
  PROVE  IdleInv'
<1> USE IdleInTid
<1> USE DEF IdleInv, SchedInv, Goto, sigVars, cpuVars, codeVars, taskVars
<1>1. ASSUME CreateBegin PROVE IdleInv'
  <2> USE <1>1 DEF CreateBegin
  <2>1. TicksOnlyIdle' /\ IdleOwesEoi' /\ IdleSurvives'
    BY DEF TicksOnlyIdle, IdleOwesEoi, IdleSurvives, TypeOK
  <2>2. ArgNotIdle' /\ IdleLocal'
    BY DEF ArgNotIdle, IdleLocal, TypeOK
  <2> QED BY <2>1, <2>2
<1>2. ASSUME NEW t \in Tid, KillBegin(t) PROVE IdleInv'
  <2> USE <1>2 DEF KillBegin
  <2>1. TicksOnlyIdle' /\ IdleOwesEoi' /\ IdleSurvives'
    BY DEF TicksOnlyIdle, IdleOwesEoi, IdleSurvives, TypeOK
  <2>2. ArgNotIdle' /\ IdleLocal'
    BY DEF ArgNotIdle, IdleLocal, TypeOK
  <2> QED BY <2>1, <2>2
<1>3. ASSUME NEW c \in Tid, WaitDead(c) \/ WaitTest(c) PROVE IdleInv'
  <2> USE <1>3 DEF WaitDead, WaitTest, MayWaitFor, Reaped
  <2>1. current # Idle
    BY NotIdle
  <2>2. c # Idle
    BY DEF IdleLocal, TypeOK
  <2>3. TicksOnlyIdle' /\ IdleOwesEoi' /\ IdleSurvives'
    BY <2>2 DEF TicksOnlyIdle, IdleOwesEoi, IdleSurvives, TypeOK
  <2>4. ArgNotIdle' /\ IdleLocal'
    BY <2>1, <2>2 DEF ArgNotIdle, IdleLocal, TypeOK
  <2> QED BY <2>3, <2>4
<1>4. ASSUME NEW t \in Targets, Block(t) \/ Unblock(t) \/ SigStop(t) \/ SigCont(t)
      PROVE  IdleInv'
  <2> USE <1>4 DEF Block, Unblock, SigStop, SigCont, PickThen
  <2>1. t # Idle
    BY DEF IdleNeverGivesUp
  <2>2. TicksOnlyIdle' /\ IdleOwesEoi' /\ IdleSurvives'
    BY <2>1 DEF TicksOnlyIdle, IdleOwesEoi, IdleSurvives, TypeOK
  <2>3. ArgNotIdle' /\ IdleLocal'
    BY <2>1 DEF ArgNotIdle, IdleLocal, TypeOK
  <2> QED BY <2>2, <2>3
<1>5. ASSUME NEW t \in Targets, NEW s \in Signals, SigSend(t, s) PROVE IdleInv'
  <2> USE <1>5 DEF SigSend
  <2>1. t # Idle
    BY DEF IdleNeverGivesUp
  <2>2. TicksOnlyIdle' /\ IdleOwesEoi' /\ IdleSurvives'
    BY <2>1 DEF TicksOnlyIdle, IdleOwesEoi, IdleSurvives, TypeOK
  <2>3. ArgNotIdle' /\ IdleLocal'
    BY <2>1 DEF ArgNotIdle, IdleLocal, TypeOK
  <2> QED BY <2>2, <2>3
<1>6. ASSUME NEW s \in Signals, SigAction(s) PROVE IdleInv'
  BY <1>6 DEF SigAction, TicksOnlyIdle, IdleOwesEoi, IdleSurvives, ArgNotIdle, IdleLocal
<1>7. ASSUME NEW S \in SUBSET Signals, MaskBlock(S) PROVE IdleInv'
  BY <1>7 DEF MaskBlock, TicksOnlyIdle, IdleOwesEoi, IdleSurvives, ArgNotIdle, IdleLocal
<1>8. ASSUME NEW S \in SUBSET Signals, MaskUnblock(S) PROVE IdleInv'
  <2> USE <1>8 DEF MaskUnblock, Delivered
  <2>1. current # Idle
    BY NotIdle
  <2>2. TicksOnlyIdle' /\ IdleOwesEoi' /\ IdleSurvives'
    BY <2>1 DEF TicksOnlyIdle, IdleOwesEoi, IdleSurvives, TypeOK
  <2>3. ArgNotIdle' /\ IdleLocal'
    BY <2>1 DEF ArgNotIdle, IdleLocal, TypeOK
  <2> QED BY <2>2, <2>3
<1> QED BY <1>1, <1>2, <1>3, <1>4, <1>5, <1>6, <1>7, <1>8 DEF Other

LEMMA IdleTimerInv ==
  ASSUME IdleNeverGivesUp, SchedInv, IdleInv, Timer
  PROVE  IdleInv'
<1> USE IdleInTid
<1> USE DEF IdleInv, SchedInv
<1>1. TimerLands
  BY DEF Timer, Tick, TickFatal, TickFatalIdle
<1>2. current = Idle /\ ~isr
  BY <1>1 DEF TimerLands, TicksOnlyIdle
<1>3. Tick
  BY <1>2 DEF Timer, TickFatal, TickFatalIdle, Fatal, Deliverable, IdleLocal
<1>4. ArgNotIdle' /\ IdleLocal'
  <2>1. pending'[Idle] = {}
    BY <1>1, <1>2 DEF TimerLands, Delivered, Fatal, Deliverable, IdleLocal, TypeOK
  <2>2. UNCHANGED <<pc, arg, parent>>
    BY <1>1, <1>3 DEF Tick, TimerLands
  <2> QED BY <2>1, <2>2 DEF ArgNotIdle, IdleLocal
<1>5. TickState \in [Tid -> States] /\ TickState[Idle] \in {"READY", "RUNNING"}
  BY <1>1, TimerLandsStep DEF TickState, Reapable, Woken, IdleSurvives
<1>6. PICK sl, to : to \in Tid /\ SwitchTo(TickState, sl, to, TRUE)
  BY <1>2, <1>3, PickNextChoice DEF Tick, TypeOK
<1>7. CASE to = current
  BY <1>2, <1>4, <1>5, <1>6, <1>7
  DEF SwitchTo, cpuVars, TicksOnlyIdle, IdleOwesEoi, IdleSurvives
<1>8. CASE to # current
  <2>1. ~inIrq[to]
    BY <1>2, <1>6 DEF EoiAccounting
  <2>2. /\ state' = [TickState EXCEPT ![current] = IF @ = "RUNNING" THEN "READY" ELSE @,
                                      ![to] = "RUNNING"]
        /\ current' = to /\ isr' = TRUE
        /\ inIrq' = [inIrq EXCEPT ![current] = TRUE, ![to] = FALSE]
    BY <1>6, <1>8, <2>1 DEF SwitchTo
  <2>3. TicksOnlyIdle' /\ IdleOwesEoi'
    BY <1>2, <1>8, <2>2 DEF TicksOnlyIdle, IdleOwesEoi, TypeOK
  <2>4. IdleSurvives'
    BY <1>2, <1>5, <1>8, <2>2 DEF IdleSurvives
  <2> QED BY <1>4, <2>3, <2>4
<1> QED BY <1>7, <1>8

LEMMA IdleNextInv ==
  ASSUME IdleNeverGivesUp, SchedInv, IdleInv, [Next]_vars
  PROVE  IdleInv'
<1>1. CASE Next
  BY <1>1, IdleContinueInv, IdleGiveUpInv, IdleOtherInv, IdleTimerInv DEF Next
<1>2. CASE UNCHANGED vars
  BY <1>2 DEF vars, taskVars, sigVars, cpuVars, codeVars, IdleInv, TicksOnlyIdle,
              IdleOwesEoi, IdleSurvives, ArgNotIdle, IdleLocal
<1> QED BY <1>1, <1>2

\* As long as tid 0 never gives the CPU up by itself, every timer interrupt lands in
\* tid 0: no created task is ever preempted, whatever the windows and operations.
THEOREM TasksNeverPreempted == ASSUME IdleNeverGivesUp PROVE Spec => []TicksOnlyIdle
<1>1. Init => SchedInv /\ IdleInv
  BY InitInv, IdleInitInv
<1>2. (SchedInv /\ IdleInv) /\ [Next]_vars => (SchedInv /\ IdleInv)'
  BY NextInv, IdleNextInv
<1>3. SchedInv /\ IdleInv => TicksOnlyIdle
  BY DEF IdleInv
<1> QED BY <1>1, <1>2, <1>3, PTL DEF Spec

\* Under the same assumption the owed EOI can always be sent: the frame that owes
\* it belongs to a READY task (idle).
THEOREM TimerComesBack == ASSUME IdleNeverGivesUp PROVE Spec => []TimerRecoverable
<1>1. Init => SchedInv /\ IdleInv
  BY InitInv, IdleInitInv
<1>2. (SchedInv /\ IdleInv) /\ [Next]_vars => (SchedInv /\ IdleInv)'
  BY NextInv, IdleNextInv
<1>3. SchedInv /\ IdleInv => TimerRecoverable
  BY IdleInTid DEF SchedInv, OnlyCurrentRuns, IdleInv, TicksOnlyIdle, IdleOwesEoi,
                   IdleSurvives, TimerRecoverable
<1> QED BY <1>1, <1>2, <1>3, PTL DEF Spec

\* Under the same assumption tid 0 is neither killed, stopped nor put to sleep, so
\* _pick_next always has a task to return.
THEOREM SomeTaskToRun == ASSUME IdleNeverGivesUp PROVE Spec => []IdleSurvives
<1>1. Init => SchedInv /\ IdleInv
  BY InitInv, IdleInitInv
<1>2. (SchedInv /\ IdleInv) /\ [Next]_vars => (SchedInv /\ IdleInv)'
  BY NextInv, IdleNextInv
<1>3. SchedInv /\ IdleInv => IdleSurvives
  BY DEF IdleInv
<1> QED BY <1>1, <1>2, <1>3, PTL DEF Spec

----------------------------------------------------------------------------
(* Nobody runs, or may be switched to, without a stack of its own.          *)

\* No timer lands in sched_create between the READY slot and its stack.
CreateUncut == "creating" \notin Windows

\* sched_create is at work on slot t.
Filling(t) == \E u \in Tid : pc[u] = "creating" /\ arg[u] = t

\* A task off the CPU left it outside the scheduler, in sched_wait or for good.
Parked == \A t \in Tid \ {Idle, current} : pc[t] \in {"user", "waitResume", "halt"}

\* A task at the end of sched_exit is dead, or its slot is being made anew.
HaltedGone ==
  \A t \in Tid \ {Idle} : pc[t] = "halt" => state[t] \in {"DEAD", "FREE"} \/ Filling(t)

CreatorRuns ==
  \A u \in Tid : pc[u] = "creating" =>
    u = current /\ arg[u] # current /\ state[arg[u]] = "READY"

\* Nobody is its own parent, or waits for itself.
NoSelfParent ==
  \A t \in Tid :
    /\ parent[t] # t
    /\ pc[t] \in {"waitTested", "waiting", "waitResume"} => arg[t] # t

\* The task on the CPU, unless it is on its way off, is neither dead nor asleep.
Works ==
  /\ state[current] # "FREE"
  /\ \/ pc[current] \in {"user", "creating", "waitTested", "waitResume"}
     \/ pc[current] = "killing" /\ arg[current] # current
     => state[current] \notin {"DEAD", "SLEEPING"}

NextReady ==
  pc[current] \in {"yielding", "waiting", "leaving"} => state[next[current]] = "READY"

\* Who is on its way out is marked DEAD.
Ends ==
  \/ pc[current] \in {"exiting", "exited", "suicide", "leaving"}
  \/ pc[current] = "killing" /\ arg[current] = current
  => state[current] = "DEAD"

StackInv ==
  /\ Parked /\ HaltedGone /\ CreatorRuns /\ NoSelfParent
  /\ Works /\ NextReady /\ Ends /\ ExitNeverReturns /\ StacksHeld

\* When a task other than idle runs, idle is READY, and some READY task is picked.
LEMMA IdleReady ==
  ASSUME SchedInv, IdleInv, current # Idle
  PROVE  state[Idle] = "READY"
BY IdleInTid DEF SchedInv, IdleInv, IdleSurvives, OnlyCurrentRuns

LEMMA PickReady ==
  ASSUME SchedInv, NEW st, st[Idle] = "READY"
  PROVE  PickNext(st) \in Tid /\ st[PickNext(st)] = "READY"
BY IdleInTid, PickNextChoice DEF SchedInv, TypeOK, Ready

LEMMA NobodyFills ==
  ASSUME CreatorRuns, pc[current] # "creating"
  PROVE  \A u \in Tid : pc[u] # "creating" /\ ~Filling(u)
BY DEF CreatorRuns, Filling

LEMMA StackInitInv == Init => StackInv
<1> SUFFICES ASSUME Init PROVE StackInv
  OBVIOUS
<1> USE IdleInTid
<1>1. Parked /\ HaltedGone /\ CreatorRuns
  BY DEF Init, Parked, HaltedGone, CreatorRuns
<1>2. NoSelfParent
  BY DEF Init, NoSelfParent
<1>3. Works /\ NextReady /\ Ends /\ ExitNeverReturns
  BY DEF Init, Works, NextReady, Ends, ExitNeverReturns
<1>4. StacksHeld
  BY DEF Init, StacksHeld, CurrentHasStack, LiveHasStack, Alive
<1> QED BY <1>1, <1>2, <1>3, <1>4 DEF StackInv

\* A step of a task that stays on the CPU, and is not in sched_create, keeps the
\* invariant if it moves the task to a point that fits what becomes of it.
LEMMA StayOnCpu ==
  ASSUME SchedInv, StackInv, pc[current] # "creating",
         current' = current, parent' = parent,
         NEW p \in Points \ {"halt", "creating"},
         pc' = [pc EXCEPT ![current] = p],
         \A t \in Tid \ {current} : arg'[t] = arg[t],
         \A t \in Tid :
           \/ state'[t] = state[t] /\ stack'[t] = stack[t]
           \/ stack'[t] = stack[t] /\ state[t] \notin {"FREE", "DEAD"} 
              /\ state'[t] \in States \ {"FREE"}
           \/ t # current /\ state'[t] = "FREE",
         p \in {"waitTested", "waiting", "waitResume"} => arg'[current] # current,
         \/ p \in {"user", "waitTested", "waitResume"}
         \/ p = "killing" /\ arg'[current] # current
         => state'[current] \notin {"DEAD", "SLEEPING"},
         p \in {"yielding", "waiting", "leaving"} => state'[next'[current]] = "READY",
         \/ p \in {"exiting", "exited", "suicide", "leaving"}
         \/ p = "killing" /\ arg'[current] = current
         => state'[current] = "DEAD"
  PROVE  StackInv'
<1> USE IdleInTid
<1>1. \A u \in Tid : pc[u] # "creating" /\ ~Filling(u)
  BY NobodyFills DEF StackInv
<1>2. current \in Tid /\ pc \in [Tid -> Points]
  BY DEF SchedInv, TypeOK
<1>3. pc'[current] = p /\ \A t \in Tid \ {current} : pc'[t] = pc[t]
  BY <1>2
<1>4. Parked'
  BY <1>2, <1>3 DEF StackInv, Parked
<1>5. HaltedGone' /\ CreatorRuns'
  BY <1>1, <1>2, <1>3 DEF StackInv, HaltedGone, CreatorRuns
<1>6. NoSelfParent'
  BY <1>2, <1>3 DEF StackInv, NoSelfParent
<1>7. Works' /\ NextReady' /\ Ends' /\ ExitNeverReturns'
  BY <1>2, <1>3 DEF StackInv, Works, NextReady, Ends, ExitNeverReturns
<1>8. StacksHeld'
  BY <1>1, <1>2 DEF StackInv, StacksHeld, CurrentHasStack, LiveHasStack, Alive, Works, Filling
<1> QED BY <1>4, <1>5, <1>6, <1>7, <1>8 DEF StackInv

\* sched_create, yield, sleep and the start and the middle of sched_exit.
LEMMA StackCreateBegin ==
  ASSUME SchedInv, IdleInv, StackInv, CreateBegin
  PROVE  StackInv'
<1> USE IdleInTid
<1> USE DEF CreateBegin, Calls, Goto, cpuVars
<1>1. PICK t \in Tid \ {Idle} : /\ state[t] = "FREE"
                                /\ state' = [state EXCEPT ![t] = "READY"]
                                /\ arg' = [arg EXCEPT ![current] = t]
  OBVIOUS
<1>2. \A u \in Tid : pc[u] # "creating" /\ ~Filling(u)
  BY NobodyFills DEF StackInv
<1>3. t # current /\ current \in Tid
  BY <1>1 DEF StackInv, Works, SchedInv, TypeOK
<1>4. /\ pc'[current] = "creating" /\ arg'[current] = t
      /\ \A u \in Tid \ {current} : pc'[u] = pc[u] /\ arg'[u] = arg[u]
      /\ state'[t] = "READY" /\ \A u \in Tid \ {t} : state'[u] = state[u]
  BY <1>1, <1>3 DEF SchedInv, TypeOK
<1>5. Filling(t)'
  BY <1>3, <1>4 DEF Filling
<1>6. Parked' /\ HaltedGone' /\ CreatorRuns'
  BY <1>2, <1>3, <1>4, <1>5 DEF StackInv, Parked, HaltedGone, CreatorRuns
<1>7. NoSelfParent'
  BY <1>3, <1>4 DEF StackInv, NoSelfParent
<1>8. Works' /\ NextReady' /\ Ends' /\ ExitNeverReturns'
  BY <1>3, <1>4 DEF StackInv, Works, NextReady, Ends, ExitNeverReturns
<1>9. StacksHeld'
  BY <1>2, <1>3, <1>4, <1>5
  DEF StackInv, StacksHeld, CurrentHasStack, LiveHasStack, Alive, Filling
<1> QED BY <1>6, <1>7, <1>8, <1>9 DEF StackInv

LEMMA StackCreateEnd ==
  ASSUME SchedInv, IdleInv, StackInv, NEW p, CreateEnd(p)
  PROVE  StackInv'
<1> USE IdleInTid
<1>1. PICK t : t = arg[current]
  OBVIOUS
<1>2. current \in Tid /\ t \in Tid \ {Idle, current} /\ state[t] = "READY"
  BY <1>1 DEF CreateEnd, StackInv, CreatorRuns, IdleInv, ArgNotIdle, SchedInv, TypeOK
<1>3. /\ pc'[current] = "user" /\ pc'[t] = "user"
      /\ \A u \in Tid \ {current, t} : pc'[u] = pc[u] /\ arg'[u] = arg[u]
      /\ parent'[t] = current /\ \A u \in Tid \ {t} : parent'[u] = parent[u]
      /\ stack'[t] = TRUE /\ \A u \in Tid \ {t} : stack'[u] = stack[u]
      /\ state' = state /\ current' = current
  BY <1>1, <1>2 DEF CreateEnd, SchedInv, TypeOK
<1>4. \A u \in Tid \ {t} : ~Filling(u)
  BY <1>1 DEF CreateEnd, Filling, StackInv, CreatorRuns
<1>5. \A u \in Tid : pc'[u] # "creating"
  BY <1>2, <1>3 DEF StackInv, CreatorRuns
<1>6. Parked' /\ HaltedGone' /\ CreatorRuns'
  BY <1>2, <1>3, <1>4, <1>5 DEF StackInv, Parked, HaltedGone, CreatorRuns
<1>7. NoSelfParent'
  BY <1>2, <1>3 DEF StackInv, NoSelfParent
<1>8. Works' /\ NextReady' /\ Ends' /\ ExitNeverReturns'
  <2>1. pc[current] = "creating"
    BY DEF CreateEnd
  <2> QED BY <1>2, <1>3, <2>1 DEF StackInv, Works, NextReady, Ends, ExitNeverReturns
<1>9. StacksHeld'
  <2>1. CurrentHasStack'
    BY <1>2, <1>3 DEF StackInv, StacksHeld, CurrentHasStack
  <2>2. LiveHasStack'
    BY <1>2, <1>3, <1>4 DEF StackInv, StacksHeld, LiveHasStack, Alive, Filling
  <2> QED BY <2>1, <2>2 DEF StacksHeld
<1> QED BY <1>6, <1>7, <1>8, <1>9 DEF StackInv

LEMMA StackGiveUp ==
  ASSUME IdleNeverGivesUp, SchedInv, IdleInv, StackInv, GiveUp
  PROVE  StackInv'
<1> USE IdleInTid
<1> USE DEF Calls, Goto, PickThen, cpuVars
<1>1. current # Idle
  BY NotIdle DEF GiveUp, Yield, Sleep, ExitBegin
<1>2. current \in Tid /\ state \in [Tid -> States] /\ pc \in [Tid -> Points]
      /\ next \in [Tid -> Tid \cup {NoTid}]
  BY DEF SchedInv, TypeOK
<1>3. state[Idle] = "READY"
  BY <1>1, IdleReady
<1>4. ASSUME Yield PROVE StackInv'
  <2>1. state[PickNext(state)] = "READY"
    BY <1>3, PickReady
  <2> QED BY <1>2, <1>4, <2>1, StayOnCpu DEF Yield, Points
<1>5. ASSUME NEW ms \in SleepTicks, Sleep(ms) PROVE StackInv'
  <2>1. PICK st : st = [state EXCEPT ![current] = "SLEEPING"]
    OBVIOUS
  <2>2. st[PickNext(st)] = "READY"
    BY <1>1, <1>2, <1>3, <2>1, PickReady
  <2>3. state' = st /\ next'[current] = PickNext(st) /\ pc[current] = "user"
        /\ current' = current /\ parent' = parent /\ stack' = stack /\ arg' = arg
        /\ pc' = [pc EXCEPT ![current] = "yielding"]
    BY <1>2, <1>5, <2>1 DEF Sleep
  <2>4. state[current] \notin {"FREE", "DEAD"}
    BY <2>3 DEF StackInv, Works
  <2> QED BY <1>2, <2>1, <2>2, <2>3, <2>4, StayOnCpu DEF Points, States
<1>6. ASSUME ExitBegin PROVE StackInv'
  <2>1. state[current] \notin {"FREE", "DEAD"}
    BY <1>6 DEF ExitBegin, StackInv, Works
  <2> QED BY <1>1, <1>2, <1>6, <2>1, StayOnCpu DEF ExitBegin, Points, States
<1> QED BY <1>4, <1>5, <1>6 DEF GiveUp

\* Whoever is notified of t's death was blocked and becomes READY.
LEMMA Notified ==
  ASSUME NEW st \in [Tid -> States], NEW t \in Tid
  PROVE  /\ NotifiedState(st, t) \in [Tid -> States]
         /\ \A u \in Tid :
              \/ NotifiedState(st, t)[u] = st[u]
              \/ /\ st[u] = "BLOCKED" /\ NotifiedState(st, t)[u] = "READY"
                 /\ u = parent[t] /\ waitTid[u] = t
<1>1. CASE WakesParent(st, t)
  <2>1. PICK p \in Tid : p = parent[t] /\ st[p] = "BLOCKED" /\ waitTid[p] = t
    BY <1>1 DEF WakesParent
  <2>2. NotifiedState(st, t) = [st EXCEPT ![p] = "READY"]
    BY <1>1, <2>1 DEF NotifiedState
  <2> QED BY <2>1, <2>2 DEF States
<1>2. CASE ~WakesParent(st, t)
  <2>1. NotifiedState(st, t) = st
    BY <1>2 DEF NotifiedState
  <2> QED BY <2>1
<1> QED BY <1>1, <1>2

LEMMA StackExit ==
  ASSUME SchedInv, IdleInv, StackInv, ExitNotify \/ ExitPick \/ KillNotify \/ KillSelf
  PROVE  StackInv'
<1> USE IdleInTid
<1> USE DEF Goto, PickThen, cpuVars
<1>2. current \in Tid /\ state \in [Tid -> States] /\ pc \in [Tid -> Points]
      /\ next \in [Tid -> Tid \cup {NoTid}]
  BY DEF SchedInv, TypeOK
<1>3. \A t \in Tid :
        /\ NotifiedState(state, t) \in [Tid -> States]
        /\ \A u \in Tid : \/ NotifiedState(state, t)[u] = state[u]
                          \/ state[u] = "BLOCKED" /\ NotifiedState(state, t)[u] = "READY"
  BY <1>2, Notified
<1>4. ASSUME ExitNotify PROVE StackInv'
  <2>1. state[current] = "DEAD"
    BY <1>4 DEF ExitNotify, StackInv, Ends
  <2> QED BY <1>2, <1>3, <1>4, <2>1, StayOnCpu DEF ExitNotify, Points, States
<1>5. ASSUME ExitPick \/ KillSelf PROVE StackInv'
  <2>1. current # Idle
    BY <1>5 DEF ExitPick, KillSelf, IdleInv, IdleLocal
  <2>2. state[PickNext(state)] = "READY"
    BY <2>1, PickReady, IdleReady
  <2>3. state[current] = "DEAD"
    BY <1>5 DEF ExitPick, KillSelf, StackInv, Ends
  <2> QED BY <1>2, <1>5, <2>2, <2>3, StayOnCpu DEF ExitPick, KillSelf, Points, taskVars
<1>6. ASSUME KillNotify PROVE StackInv'
  <2>1. PICK t \in Tid : t = arg[current]
    BY <1>2, <1>6 DEF KillNotify, IdleInv, ArgNotIdle
  <2>2. /\ state' = NotifiedState(state, t) /\ pc[current] = "killing"
        /\ current' = current /\ parent' = parent /\ stack' = stack
    BY <1>6, <2>1 DEF KillNotify
  <2>3. CASE t = current
    <3>1. state[current] = "DEAD"
      BY <2>1, <2>2, <2>3 DEF StackInv, Ends
    <3> QED BY <1>2, <1>3, <1>6, <2>1, <2>2, <2>3, <3>1, StayOnCpu
            DEF KillNotify, Points, States
  <2>4. CASE t # current
    <3>1. state[current] \notin {"DEAD", "SLEEPING"}
      BY <2>1, <2>2, <2>4 DEF StackInv, Works
    <3>2. /\ pc' = [pc EXCEPT ![current] = "user"]
          /\ \A u \in Tid \ {current} : arg'[u] = arg[u]
      BY <1>2, <1>6, <2>1, <2>4 DEF KillNotify, Return, SchedInv, TypeOK
    <3> QED BY <1>2, <1>3, <2>2, <3>1, <3>2, StayOnCpu DEF Points, States
  <2> QED BY <2>3, <2>4
<1> QED BY <1>4, <1>5, <1>6

LEMMA StackWait ==
  ASSUME IdleNeverGivesUp, SchedInv, IdleInv, StackInv,
         \/ \E c \in Tid : WaitDead(c) \/ WaitTest(c)
         \/ WaitBlock \/ WaitReap
  PROVE  StackInv'
<1> USE IdleInTid
<1> USE DEF Goto, PickThen, cpuVars
<1>1. current \in Tid /\ state \in [Tid -> States] /\ pc \in [Tid -> Points]
      /\ next \in [Tid -> Tid \cup {NoTid}] /\ arg \in [Tid -> Tid \cup {NoTid}]
      /\ stack \in [Tid -> BOOLEAN]
  BY DEF SchedInv, TypeOK
<1>2. ASSUME NEW c \in Tid, WaitDead(c) PROVE StackInv'
  <2>1. /\ state' = [state EXCEPT ![c] = "FREE"] /\ stack' = [stack EXCEPT ![c] = FALSE]
        /\ current' = current /\ parent' = parent /\ arg' = arg /\ pc' = pc
        /\ state[c] = "DEAD" /\ pc[current] = "user" /\ parent[c] = current
    BY <1>2 DEF WaitDead, Reaped, MayWaitFor, codeVars, Calls
  <2>2. c # current
    BY <2>1 DEF StackInv, NoSelfParent
  <2>3. pc' = [pc EXCEPT ![current] = "user"]
    BY <1>1, <2>1
  <2>4. state[current] \notin {"DEAD", "SLEEPING"}
    BY <2>1 DEF StackInv, Works
  <2> QED BY <1>1, <2>1, <2>2, <2>3, <2>4, StayOnCpu DEF Points
<1>3. ASSUME NEW c \in Tid, WaitTest(c) PROVE StackInv'
  <2>1. c # current /\ pc[current] = "user"
    BY <1>3 DEF WaitTest, MayWaitFor, StackInv, NoSelfParent, Calls
  <2>2. state[current] \notin {"DEAD", "SLEEPING"}
    BY <2>1 DEF StackInv, Works
  <2> QED BY <1>1, <1>3, <2>1, <2>2, StayOnCpu DEF WaitTest, Points, taskVars
<1>4. ASSUME WaitBlock PROVE StackInv'
  <2>1. PICK st : st = [state EXCEPT ![current] = "BLOCKED"]
    OBVIOUS
  <2>2. /\ state' = st /\ next'[current] = PickNext(st) /\ pc[current] = "waitTested"
        /\ current' = current /\ parent' = parent /\ stack' = stack /\ arg' = arg
        /\ pc' = [pc EXCEPT ![current] = "waiting"]
    BY <1>1, <1>4, <2>1 DEF WaitBlock
  <2>3. current # Idle
    BY <2>2 DEF IdleInv, IdleLocal
  <2>4. st[PickNext(st)] = "READY"
    BY <1>1, <2>1, <2>3, PickReady, IdleReady
  <2>5. state[current] \notin {"FREE", "DEAD"} /\ arg[current] # current
    BY <1>1, <2>2 DEF StackInv, Works, NoSelfParent
  <2> QED BY <1>1, <2>1, <2>2, <2>4, <2>5, StayOnCpu DEF Points, States
<1>5. ASSUME WaitReap PROVE StackInv'
  <2>1. PICK c : c = arg[current]
    OBVIOUS
  <2>2. /\ state' = [state EXCEPT ![c] = "FREE"] /\ stack' = [stack EXCEPT ![c] = FALSE]
        /\ current' = current /\ parent' = parent /\ pc[current] = "waitResume"
        /\ pc' = [pc EXCEPT ![current] = "user"]
        /\ \A u \in Tid \ {current} : arg'[u] = arg[u]
    BY <1>1, <1>5, <2>1 DEF WaitReap, Reaped, Return
  <2>3. c # current /\ state[current] \notin {"FREE", "DEAD", "SLEEPING"}
    BY <1>1, <2>1, <2>2 DEF StackInv, NoSelfParent, Works
  <2>4. c \in Tid \ {Idle, current}
    BY <1>1, <2>1, <2>2, <2>3 DEF IdleInv, ArgNotIdle
  <2> QED BY <1>1, <2>2, <2>3, <2>4, StayOnCpu DEF Points, States
<1> QED BY <1>2, <1>3, <1>4, <1>5

LEMMA StackKill ==
  ASSUME SchedInv, StackInv, NEW t \in Tid, KillBegin(t)
  PROVE  StackInv'
<1>1. /\ current \in Tid /\ state \in [Tid -> States] /\ pc \in [Tid -> Points]
      /\ arg \in [Tid -> Tid \cup {NoTid}]
  BY DEF SchedInv, TypeOK
<1>2. /\ pc[current] = "user" /\ state[t] \notin {"FREE", "DEAD"}
      /\ state' = [state EXCEPT ![t] = "DEAD"] /\ stack' = stack
      /\ current' = current /\ parent' = parent
      /\ pc' = [pc EXCEPT ![current] = "killing"]
      /\ arg' = [arg EXCEPT ![current] = t]
  BY DEF KillBegin, Calls, Goto, cpuVars, Alive
<1>3. state[current] \notin {"DEAD", "SLEEPING"}
  BY <1>2 DEF StackInv, Works
<1> QED BY <1>1, <1>2, <1>3, StayOnCpu DEF Points, States

LEMMA StackBlock ==
  ASSUME IdleNeverGivesUp, SchedInv, IdleInv, StackInv, NEW t \in Targets,
         Block(t) \/ Unblock(t) \/ SigStop(t) \/ SigCont(t)
  PROVE  StackInv'
<1> USE IdleInTid
<1>1. /\ current \in Tid /\ state \in [Tid -> States] /\ pc \in [Tid -> Points]
      /\ next \in [Tid -> Tid \cup {NoTid}]
  BY DEF SchedInv, TypeOK
<1>2. t \in Tid \ {Idle}
  BY SchedAssumption DEF IdleNeverGivesUp, Tid
<1>3. /\ pc[current] = "user" /\ stack' = stack /\ arg' = arg
      /\ current' = current /\ parent' = parent
  BY DEF Block, Unblock, SigStop, SigCont, Calls, cpuVars, codeVars
<1>4. state[current] \notin {"DEAD", "SLEEPING"}
  BY <1>3 DEF StackInv, Works
<1>5. CASE Block(t) /\ t = current
  <2>1. PICK st : st = [state EXCEPT ![current] = "BLOCKED"]
    OBVIOUS
  <2>2. /\ state' = st /\ next'[current] = PickNext(st)
        /\ pc' = [pc EXCEPT ![current] = "yielding"]
        /\ state[current] \in {"READY", "RUNNING"}
    BY <1>1, <1>5, <2>1 DEF Block, PickThen, Goto
  <2>3. st[PickNext(st)] = "READY"
    BY <1>1, <1>2, <1>5, <2>1, PickReady, IdleReady
  <2> QED BY <1>1, <1>3, <2>1, <2>2, <2>3, StayOnCpu DEF Points, States
<1>6. CASE ~(Block(t) /\ t = current)
  <2>1. pc' = [pc EXCEPT ![current] = "user"]
    BY <1>1, <1>3, <1>6 DEF Block, Unblock, SigStop, SigCont, codeVars
  <2>2. \A u \in Tid : \/ state'[u] = state[u]
                       \/ state[u] \notin {"FREE", "DEAD"} /\ state'[u] \in {"BLOCKED", "READY"}
    BY <1>1 DEF Block, Unblock, SigStop, SigCont
  <2> QED BY <1>1, <1>3, <1>4, <2>1, <2>2, StayOnCpu DEF Points, States
<1> QED BY <1>5, <1>6

LEMMA StackSignal ==
  ASSUME IdleNeverGivesUp, SchedInv, IdleInv, StackInv,
         \/ \E t \in Targets, s \in Signals : SigSend(t, s)
         \/ \E s \in Signals : SigAction(s)
         \/ \E S \in SUBSET Signals : MaskBlock(S) \/ MaskUnblock(S)
  PROVE  StackInv'
<1>1. /\ current \in Tid /\ state \in [Tid -> States] /\ pc \in [Tid -> Points]
  BY DEF SchedInv, TypeOK
<1>2. /\ pc[current] = "user" /\ stack' = stack /\ arg' = arg
      /\ current' = current /\ parent' = parent
  BY DEF SigSend, SigAction, MaskBlock, MaskUnblock, Calls, cpuVars, codeVars, taskVars
<1>3. state[current] \notin {"FREE", "DEAD", "SLEEPING"}
  BY <1>2 DEF StackInv, Works
<1>4. CASE pc' = pc
  <2>1. pc' = [pc EXCEPT ![current] = "user"]
    BY <1>1, <1>2, <1>4
  <2>2. \A u \in Tid : \/ state'[u] = state[u]
                       \/ state[u] = "SLEEPING" /\ state'[u] = "READY"
    <3>1. CASE \E t \in Targets, s \in Signals : SigSend(t, s)
      BY <1>1, <3>1 DEF SigSend
    <3>2. CASE \E s \in Signals : SigAction(s)
      BY <3>2 DEF SigAction, taskVars
    <3>3. CASE \E S \in SUBSET Signals : MaskBlock(S)
      BY <3>3 DEF MaskBlock, taskVars
    <3>4. CASE \E S \in SUBSET Signals : MaskUnblock(S)
      BY <1>1, <1>2, <1>4, <3>4 DEF MaskUnblock, Goto
    <3> QED BY <3>1, <3>2, <3>3, <3>4
  <2> QED BY <1>1, <1>2, <1>3, <2>1, <2>2, StayOnCpu DEF Points, States
<1>5. CASE pc' # pc
  <2>1. PICK S \in SUBSET Signals : MaskUnblock(S)
    BY <1>5 DEF SigSend, SigAction, MaskBlock, codeVars
  <2>2. current # Idle
    BY <2>1, NotIdle DEF MaskUnblock
  <2>3. /\ pc' = [pc EXCEPT ![current] = "exiting"]
        /\ state' = [state EXCEPT ![current] = "DEAD"]
    BY <1>5, <2>1, <2>2 DEF MaskUnblock, Goto
  <2> QED BY <1>1, <1>2, <1>3, <2>2, <2>3, StayOnCpu DEF Points, States
<1> QED BY <1>4, <1>5

\* Every timer interrupt lands in idle, which then keeps the CPU or leaves it to
\* the task that _pick_next chooses among those READY after the wakeups.
LEMMA TickFromIdle ==
  ASSUME SchedInv, IdleInv, Timer
  PROVE  /\ current = Idle /\ ~isr /\ TimerLands /\ UNCHANGED <<waitTid, pc, arg, parent, next, prio>>
         /\ stack' = [t \in Tid |-> stack[t] /\ ~(ReapNow /\ Reapable(t))]
         /\ \/ /\ current' = Idle /\ state' = TickState
               /\ SliceLeft > 0 \/ PickNext(TickState) = Idle
            \/ /\ current' = PickNext(TickState) /\ current' \in Tid \ {Idle}
               /\ TickState[current'] = "READY"
               /\ state' = [TickState EXCEPT ![Idle] = "READY", ![current'] = "RUNNING"]
<1> USE IdleInTid
<1>1. TimerLands
  BY DEF Timer, Tick, TickFatal, TickFatalIdle
<1>2. current = Idle /\ ~isr
  BY <1>1 DEF TimerLands, IdleInv, TicksOnlyIdle
<1>3. Tick
  BY <1>2 DEF Timer, TickFatal, TickFatalIdle, Fatal, Deliverable, IdleInv, IdleLocal
<1>4. /\ UNCHANGED <<waitTid, pc, arg, parent, next, prio>>
      /\ stack' = [t \in Tid |-> stack[t] /\ ~(ReapNow /\ Reapable(t))]
  BY <1>1, <1>3 DEF Tick, TimerLands
<1>5. TickState \in [Tid -> States] /\ TickState[Idle] \in {"READY", "RUNNING"}
  BY <1>1, TimerLandsStep DEF TickState, Reapable, Woken, IdleInv, IdleSurvives
<1>6. CASE SliceLeft > 0
  <2>1. current' = Idle /\ state' = TickState
    BY <1>2, <1>3, <1>6 DEF Tick, SwitchTo, cpuVars
  <2> QED BY <1>1, <1>2, <1>4, <1>6, <2>1
<1>7. CASE ~(SliceLeft > 0)
  <2>1. PICK to, sl : to = PickNext(TickState) /\ SwitchTo(TickState, sl, to, TRUE)
    BY <1>3, <1>7 DEF Tick
  <2>2. CASE to = Idle
    <3>1. current' = Idle /\ state' = TickState
      BY <1>2, <2>1, <2>2 DEF SwitchTo, cpuVars
    <3> QED BY <1>1, <1>2, <1>4, <2>1, <2>2, <3>1
  <2>3. CASE to # Idle
    <3>1. to \in Tid /\ TickState[to] = "READY"
      BY <1>2, <2>1, <2>3, PickNextChoice DEF SchedInv, TypeOK
    <3>2. /\ current' = to
          /\ state' = [TickState EXCEPT ![Idle] = IF @ = "RUNNING" THEN "READY" ELSE @,
                                        ![to] = "RUNNING"]
      BY <1>2, <2>1, <2>3 DEF SwitchTo
    <3>3. state' = [TickState EXCEPT ![Idle] = "READY", ![to] = "RUNNING"]
      BY <1>5, <3>1, <3>2
    <3> QED BY <1>1, <1>2, <1>4, <2>1, <2>3, <3>1, <3>2, <3>3
  <2> QED BY <2>2, <2>3
<1> QED BY <1>6, <1>7

LEMMA StackTimer ==
  ASSUME CreateUncut, SchedInv, IdleInv, StackInv, Timer
  PROVE  StackInv'
<1> USE IdleInTid
<1>1. /\ current = Idle /\ TimerLands /\ UNCHANGED <<pc, arg, parent, next>>
      /\ stack' = [t \in Tid |-> stack[t] /\ ~(ReapNow /\ Reapable(t))]
  BY TickFromIdle
<1>2. \A u \in Tid : pc[u] # "creating" /\ ~Filling(u)
  <2>1. pc[current] # "creating"
    BY <1>1 DEF CreateUncut, TimerLands
  <2> QED BY <2>1, NobodyFills DEF StackInv
<1>3. \A t \in Tid :
        \/ TickState[t] = "FREE" /\ Reapable(t) /\ ReapNow
        \/ TickState[t] = state[t] /\ ~(Reapable(t) /\ ReapNow)
        \/ TickState[t] = "READY" /\ state[t] = "SLEEPING" /\ ~(Reapable(t) /\ ReapNow)
  BY DEF TickState, Woken
<1>4. TickState \in [Tid -> States] /\ TickState[Idle] \in {"READY", "RUNNING"}
  BY <1>1, TimerLandsStep DEF TickState, Reapable, Woken, IdleInv, IdleSurvives
<1>5. /\ state[Idle] \in {"READY", "RUNNING"} /\ pc[Idle] \in {"user", "killing"}
      /\ ArgNotIdle
  BY <1>2 DEF IdleInv, IdleSurvives, IdleLocal
<1>6. NoSelfParent' /\ CreatorRuns'
  BY <1>1, <1>2 DEF StackInv, NoSelfParent, CreatorRuns
<1>7. CASE current' = Idle /\ state' = TickState
  <2>1. Parked' /\ HaltedGone'
    BY <1>1, <1>2, <1>3, <1>7 DEF StackInv, Parked, HaltedGone, Reapable
  <2>2. Works' /\ NextReady' /\ Ends' /\ ExitNeverReturns'
    BY <1>1, <1>4, <1>5, <1>7 DEF Works, NextReady, Ends, ExitNeverReturns, ArgNotIdle
  <2>3. StacksHeld'
    BY <1>1, <1>2, <1>3, <1>7
    DEF StackInv, StacksHeld, CurrentHasStack, LiveHasStack, Alive, Filling
  <2> QED BY <1>6, <2>1, <2>2, <2>3 DEF StackInv
<1>8. CASE /\ current' \in Tid \ {Idle} /\ TickState[current'] = "READY"
           /\ state' = [TickState EXCEPT ![Idle] = "READY", ![current'] = "RUNNING"]
  <2>1. PICK to \in Tid \ {Idle} : to = current'
    BY <1>8
  <2>2. /\ state'[to] = "RUNNING" /\ state'[Idle] = "READY" /\ TickState[to] = "READY"
        /\ \A u \in Tid \ {Idle, to} : state'[u] = TickState[u]
    BY <1>4, <1>8, <2>1
  <2>3. state[to] \in {"READY", "SLEEPING"} /\ ~(Reapable(to) /\ ReapNow)
    BY <1>3, <2>2
  <2>4. pc[to] \in {"user", "waitResume"}
    BY <1>1, <1>2, <2>1, <2>3 DEF StackInv, Parked, HaltedGone
  <2>5. Parked' /\ HaltedGone'
    BY <1>1, <1>2, <1>3, <2>1, <2>2, <2>4 DEF StackInv, Parked, HaltedGone, Reapable
  <2>6. Works' /\ NextReady' /\ Ends' /\ ExitNeverReturns'
    BY <1>1, <2>1, <2>2, <2>4 DEF Works, NextReady, Ends, ExitNeverReturns
  <2>7. stack[to]
    BY <1>2, <2>3 DEF StackInv, StacksHeld, LiveHasStack, Alive, Filling
  <2>8. StacksHeld'
    <3>1. CurrentHasStack'
      BY <1>1, <2>1, <2>3, <2>7 DEF CurrentHasStack
    <3>2. LiveHasStack'
      BY <1>1, <1>2, <1>3, <2>1, <2>2, <2>3, <2>7 DEF StackInv, StacksHeld, LiveHasStack, Alive, Filling
    <3> QED BY <3>1, <3>2 DEF StacksHeld
  <2> QED BY <1>6, <2>5, <2>6, <2>8 DEF StackInv
<1> QED BY <1>7, <1>8, TickFromIdle

LEMMA StackSwitch ==
  ASSUME SchedInv, IdleInv, StackInv, Switch
  PROVE  StackInv'
<1> USE IdleInTid
<1>1. PICK to \in Tid : to = next[current]
  BY DEF Switch, SchedInv, NextKnown, TypeOK
<1>2. PICK p : p = AfterSwitch[pc[current]]
  OBVIOUS
<1>3. /\ current \in Tid \ {Idle} /\ state \in [Tid -> States] /\ pc \in [Tid -> Points]
      /\ state[to] = "READY" /\ pc[current] \in {"yielding", "waiting", "leaving"}
  BY <1>1 DEF Switch, SchedInv, TypeOK, IdleInv, IdleLocal, StackInv, NextReady
<1>4. /\ pc' = [pc EXCEPT ![current] = p] /\ UNCHANGED <<parent, stack, arg>>
      /\ p \in {"user", "waitResume", "halt"}
      /\ p = "waitResume" => pc[current] = "waiting"
      /\ p = "halt" => pc[current] = "leaving"
  BY <1>2, <1>3 DEF Switch, Goto, AfterSwitch
<1>5. \A u \in Tid : pc[u] # "creating" /\ ~Filling(u)
  BY <1>3, NobodyFills DEF StackInv
<1>6. p = "halt" => state[current] = "DEAD"
  BY <1>4 DEF StackInv, Ends
<1>7. CASE to = current
  <2>1. state' = state /\ current' = current
    BY <1>1, <1>7 DEF Switch, SwitchTo, cpuVars
  <2>2. p # "halt"
    BY <1>3, <1>6, <1>7
  <2>3. p = "waitResume" => arg[current] # current
    BY <1>3, <1>4 DEF StackInv, NoSelfParent
  <2> QED BY <1>3, <1>4, <1>5, <1>7, <2>1, <2>2, <2>3, StayOnCpu DEF Points
<1>8. CASE to # current
  <2>1. current' = to
        /\ state' = [state EXCEPT ![current] = IF @ = "RUNNING" THEN "READY" ELSE @,
                                  ![to] = "RUNNING"]
    BY <1>1, <1>8 DEF Switch, SwitchTo
  <2>2. /\ state'[to] = "RUNNING"
        /\ state'[current] = IF state[current] = "RUNNING" THEN "READY" ELSE state[current]
        /\ \A u \in Tid \ {current, to} : state'[u] = state[u]
    BY <1>3, <1>8, <2>1
  <2>3. pc'[current] = p /\ \A u \in Tid \ {current} : pc'[u] = pc[u]
    BY <1>3, <1>4
  <2>4. /\ pc[to] \in {"user", "creating", "killing", "waitResume"}
        /\ pc[to] = "killing" => to = Idle
    BY <1>3, <1>5, <1>8 DEF IdleInv, IdleLocal, StackInv, Parked, HaltedGone
  <2>5. Parked' /\ HaltedGone' /\ CreatorRuns'
    BY <1>3, <1>4, <1>5, <1>6, <1>8, <2>1, <2>2, <2>3
    DEF StackInv, Parked, HaltedGone, CreatorRuns
  <2>6. NoSelfParent'
    BY <1>3, <1>4, <2>3 DEF StackInv, NoSelfParent
  <2>7. Works' /\ NextReady' /\ Ends' /\ ExitNeverReturns'
    <3>1. pc[to] = "killing" => arg[to] # to
      BY <2>4 DEF IdleInv, ArgNotIdle
    <3> QED BY <1>4, <1>8, <2>1, <2>2, <2>3, <2>4, <3>1 DEF Works, NextReady, Ends, ExitNeverReturns
  <2>8. StacksHeld'
    BY <1>3, <1>4, <1>5, <1>8, <2>1, <2>2
    DEF StackInv, StacksHeld, CurrentHasStack, LiveHasStack, Alive, Filling
  <2> QED BY <2>5, <2>6, <2>7, <2>8 DEF StackInv
<1> QED BY <1>7, <1>8

LEMMA StackNextInv ==
  ASSUME IdleNeverGivesUp, CreateUncut, SchedInv, IdleInv, StackInv, [Next]_vars
  PROVE  StackInv'
<1>1. CASE Continue
  BY <1>1, StackCreateEnd, StackSwitch, StackExit, StackWait DEF Continue
<1>2. CASE GiveUp
  BY <1>2, StackGiveUp
<1>3. CASE Other
  BY <1>3, StackCreateBegin, StackKill, StackWait, StackBlock, StackSignal DEF Other
<1>4. CASE Timer
  BY <1>4, StackTimer
<1>5. CASE UNCHANGED vars
  BY <1>5 DEF vars, taskVars, sigVars, cpuVars, codeVars, StackInv, Parked, HaltedGone,
              Filling, CreatorRuns, NoSelfParent, Works, NextReady, Ends, StacksHeld,
              ExitNeverReturns,               CurrentHasStack, LiveHasStack, Alive
<1> QED BY <1>1, <1>2, <1>3, <1>4, <1>5 DEF Next

THEOREM StackInvariant ==
  ASSUME IdleNeverGivesUp, CreateUncut
  PROVE  Spec => [](SchedInv /\ IdleInv /\ StackInv)
<1>1. Init => SchedInv /\ IdleInv /\ StackInv
  BY InitInv, IdleInitInv, StackInitInv
<1>2. (SchedInv /\ IdleInv /\ StackInv) /\ [Next]_vars => (SchedInv /\ IdleInv /\ StackInv)'
  BY NextInv, IdleNextInv, StackNextInv
<1> QED BY <1>1, <1>2, PTL DEF Spec

\* No task is switched to, runs, or is ready to, on a stack that it has not got yet or
\* that was freed, whoever exits, kills, waits and is reaped at the timer.
THEOREM NobodyWithoutStack ==
  ASSUME IdleNeverGivesUp, CreateUncut
  PROVE  Spec => []StacksHeld
<1>1. SchedInv /\ IdleInv /\ StackInv => StacksHeld
  BY DEF StackInv
<1> QED BY <1>1, StackInvariant, PTL

\* sched_sleep and sched_exit do leave the CPU: there is always another task to pick,
\* namely idle.
THEOREM GivingUpIsFinal ==
  ASSUME IdleNeverGivesUp, CreateUncut
  PROVE  Spec => []SwitchesAway
<1>1. SchedInv /\ IdleInv /\ StackInv => SwitchesAway
  <2> SUFFICES ASSUME SchedInv, IdleInv, StackInv PROVE SwitchesAway
    OBVIOUS
  <2>1. SleepKeepsOff
    BY DEF StackInv, Works, SleepKeepsOff
  <2>2. ExitNeverReturns
    BY DEF StackInv, ExitNeverReturns
  <2> QED BY <2>1, <2>2 DEF SwitchesAway
<1> QED BY <1>1, StackInvariant, PTL

----------------------------------------------------------------------------
(* Whoever waits for a child is told of its death.                          *)

\* The main loop only creates tasks and sends signals that do not stop; nobody calls
\* sched_block, sched_unblock or stops a task; and every task created has a higher
\* priority than idle.
OnlyWaitBlocks ==
  /\ IdleOps \subseteq {"create", "signal"}
  /\ Ops \cap {"block", "unblock", "stop", "cont"} = {}
  /\ 0 \notin TaskPrios

Urgent ==
  /\ prio[Idle] = 0
  /\ \A t \in Tid \ {Idle} : Alive(t) /\ ~Filling(t) => prio[t] \in TaskPrios

Killer ==
  \A k \in Tid : pc[k] = "killing" => k = current /\ k # Idle /\ state[arg[k]] = "DEAD"

\* Who is blocked waits for a child of its own that lives or is just being buried.
Waiter ==
  \A p \in Tid : state[p] = "BLOCKED" =>
    /\ pc[p] \in {"waiting", "waitResume"}
    /\ waitTid[p] = arg[p] /\ parent[arg[p]] = p /\ ~Filling(arg[p])
    /\ \/ Alive(arg[p])
       \/ arg[p] = current /\ pc[current] = "exiting"
       \/ arg[p] = arg[current] /\ pc[current] = "killing"

Tested ==
  pc[current] = "waitTested" => Alive(arg[current]) /\ parent[arg[current]] = current

\* Who was woken finds its child dead; it runs before idle does, hence before the
\* next timer interrupt, which might reap the child.
Resumed ==
  \A p \in Tid \ {Idle} : pc[p] = "waitResume" =>
    /\ state[p] # "SLEEPING"
    /\ state[p] \in {"READY", "RUNNING"} /\ ~Filling(p) =>
         state[arg[p]] = "DEAD" /\ parent[arg[p]] = p /\ current # Idle

WaitPoint == pc[current] = "waiting" <=> state[current] = "BLOCKED"

NextIdle ==
  pc[current] \in {"yielding", "waiting", "leaving"} /\ next[current] = Idle =>
    \A t \in Tid \ {Idle} : state[t] # "READY"

ServeInv == Urgent /\ Killer /\ Waiter /\ Tested /\ Resumed /\ WaitPoint /\ NextIdle

KernelInv == SchedInv /\ IdleInv /\ StackInv

LEMMA ServeInitInv == Init => ServeInv
<1> SUFFICES ASSUME Init PROVE ServeInv
  OBVIOUS
<1> USE IdleInTid
<1>1. Urgent /\ Killer
  BY DEF Init, Urgent, Killer, Alive
<1>2. Waiter /\ Tested /\ Resumed
  BY DEF Init, Waiter, Tested, Resumed
<1>3. WaitPoint /\ NextIdle
  BY DEF Init, WaitPoint, NextIdle
<1> QED BY <1>1, <1>2, <1>3 DEF ServeInv

\* Idle is picked only when no other task is READY.
LEMMA PickIdleLast ==
  ASSUME OnlyWaitBlocks, KernelInv, Urgent, pc[current] # "creating", NEW st,
         PickNext(st) = Idle,
         \A t \in Tid : st[t] = "READY" => Alive(t)
  PROVE  \A t \in Tid \ {Idle} : st[t] # "READY"
<1> USE IdleInTid
<1> SUFFICES ASSUME NEW t \in Tid \ {Idle}, st[t] = "READY" PROVE FALSE
  OBVIOUS
<1>1. t \in Ready(st)
  BY DEF Ready
<1>2. prio \in [Tid -> Prio] /\ current \in Tid
  BY DEF KernelInv, SchedInv, TypeOK
<1>3. PickNext(st) \in TopReady(st)
  BY <1>1, <1>2, PickNextChoice
<1>4. prio[t] <= prio[Idle]
  BY <1>1, <1>3 DEF TopReady
<1>5. prio[t] \in TaskPrios /\ prio[Idle] = 0
  BY NobodyFills DEF Urgent, KernelInv, StackInv
<1> QED BY <1>2, <1>4, <1>5, SchedAssumption DEF OnlyWaitBlocks, Prio

\* A step of the task on the CPU that touches no other, but for waking a sleeper.
LEMMA StayServes ==
  ASSUME KernelInv, ServeInv,
         current' = current, prio' = prio, parent' = parent, waitTid' = waitTid,
         NEW p \in {"user", "yielding", "exiting", "leaving", "waitTested"},
         pc[current] \in {"user", "exited", "suicide"},
         pc' = [pc EXCEPT ![current] = p],
         \A t \in Tid \ {current} : arg'[t] = arg[t],
         \A t \in Tid : \/ state'[t] = state[t]
                        \/ state[t] = "SLEEPING" /\ state'[t] = "READY"
                        \/ t = current /\ state'[t] = "SLEEPING" /\ Alive(t)
                        \/ t = current /\ state'[t] = "DEAD" /\ p = "exiting",
         p = "waitTested" => Tested',
         p \in {"yielding", "leaving"} /\ next'[current] = Idle =>
           \A t \in Tid \ {Idle} : state'[t] # "READY"
  PROVE  ServeInv'
<1> USE IdleInTid
<1>1. \A u \in Tid : pc[u] # "creating" /\ ~Filling(u)
  BY NobodyFills DEF KernelInv, StackInv
<1>2. current \in Tid /\ pc \in [Tid -> Points] /\ arg \in [Tid -> Tid \cup {NoTid}]
  BY DEF KernelInv, SchedInv, TypeOK
<1>3. pc'[current] = p /\ \A t \in Tid \ {current} : pc'[t] = pc[t]
  BY <1>2
<1>4. \A u \in Tid : ~Filling(u)'
  BY <1>1, <1>3 DEF Filling
<1>5. Urgent' /\ Killer'
  BY <1>1, <1>2, <1>3 DEF ServeInv, Urgent, Killer, Alive
<1>6. state[current] # "BLOCKED"
  BY DEF ServeInv, WaitPoint
<1>7. Waiter'
  <2> SUFFICES ASSUME NEW q \in Tid, state'[q] = "BLOCKED"
               PROVE  /\ pc'[q] \in {"waiting", "waitResume"}
                      /\ waitTid'[q] = arg'[q] /\ parent'[arg'[q]] = q /\ ~Filling(arg[q])'
                      /\ \/ Alive(arg[q])'
                         \/ arg'[q] = current' /\ pc'[current'] = "exiting"
                         \/ arg'[q] = arg'[current'] /\ pc'[current'] = "killing"
    BY DEF Waiter
  <2>1. q # current /\ state[q] = "BLOCKED"
    BY <1>6
  <2>2. /\ pc[q] \in {"waiting", "waitResume"} /\ arg[q] \in Tid
        /\ waitTid[q] = arg[q] /\ parent[arg[q]] = q /\ Alive(arg[q])
    <3>1. arg[q] \in Tid
      BY <2>1 DEF ServeInv, Waiter, KernelInv, IdleInv, ArgNotIdle
    <3> QED BY <2>1, <3>1 DEF ServeInv, Waiter
  <2>3. arg'[q] = arg[q] /\ pc'[q] = pc[q]
    BY <1>3, <2>1
  <2> QED BY <1>3, <1>4, <2>2, <2>3 DEF Alive
<1>8. Tested' /\ WaitPoint' /\ NextIdle'
  <2>1. Tested'
    BY <1>2, <1>3 DEF Tested
  <2>2. WaitPoint'
    BY <1>2, <1>3, <1>6 DEF WaitPoint
  <2>3. NextIdle'
    BY <1>2, <1>3 DEF NextIdle
  <2> QED BY <2>1, <2>2, <2>3
<1>9. Resumed'
  BY <1>1, <1>2, <1>3, <1>4 DEF ServeInv, Resumed, KernelInv, IdleInv, ArgNotIdle, StackInv, Works, Alive
<1> QED BY <1>5, <1>7, <1>8, <1>9 DEF ServeInv


LEMMA ServeCreateBegin ==
  ASSUME KernelInv, ServeInv, CreateBegin
  PROVE  ServeInv'
<1> USE IdleInTid
<1> USE DEF CreateBegin, Calls, Goto, cpuVars
<1>1. PICK t \in Tid \ {Idle} : /\ state[t] = "FREE"
                                /\ state' = [state EXCEPT ![t] = "READY"]
                                /\ arg' = [arg EXCEPT ![current] = t]
  OBVIOUS
<1>2. \A u \in Tid : pc[u] # "creating" /\ ~Filling(u)
  BY NobodyFills DEF KernelInv, StackInv
<1>3. t # current /\ current \in Tid
  BY <1>1 DEF KernelInv, StackInv, Works, SchedInv, TypeOK
<1>4. /\ pc'[current] = "creating" /\ arg'[current] = t
      /\ \A u \in Tid \ {current} : pc'[u] = pc[u] /\ arg'[u] = arg[u]
      /\ state'[t] = "READY" /\ \A u \in Tid \ {t} : state'[u] = state[u]
  BY <1>1, <1>3 DEF KernelInv, SchedInv, TypeOK
<1>5. Filling(t)' /\ \A u : u # t => ~Filling(u)'
  BY <1>2, <1>3, <1>4 DEF Filling
<1>6. Urgent' /\ Killer'
  BY <1>2, <1>3, <1>4, <1>5 DEF ServeInv, Urgent, Killer, Alive
<1>7. Waiter'
  <2> SUFFICES ASSUME NEW q \in Tid, state'[q] = "BLOCKED"
               PROVE  /\ pc'[q] \in {"waiting", "waitResume"}
                      /\ waitTid'[q] = arg'[q] /\ parent'[arg'[q]] = q /\ ~Filling(arg[q])'
                      /\ arg'[q] = arg[q] /\ Alive(arg[q])'
    BY DEF Waiter
  <2>1. q # current /\ q # t /\ state[q] = "BLOCKED"
    BY <1>3, <1>4 DEF ServeInv, WaitPoint
  <2>2. /\ pc[q] \in {"waiting", "waitResume"} /\ arg[q] \in Tid
        /\ waitTid[q] = arg[q] /\ parent[arg[q]] = q /\ Alive(arg[q])
    BY <2>1 DEF ServeInv, Waiter, KernelInv, IdleInv, ArgNotIdle
  <2>3. arg[q] # t
    BY <1>1, <2>2 DEF Alive
  <2> QED BY <1>4, <1>5, <2>1, <2>2, <2>3 DEF Alive
<1>8. Tested' /\ WaitPoint' /\ NextIdle'
  BY <1>3, <1>4 DEF ServeInv, Tested, WaitPoint, NextIdle
<1>9. Resumed'
  BY <1>1, <1>2, <1>3, <1>4, <1>5
  DEF ServeInv, Resumed, KernelInv, IdleInv, ArgNotIdle
<1> QED BY <1>6, <1>7, <1>8, <1>9 DEF ServeInv

LEMMA ServeCreateEnd ==
  ASSUME KernelInv, ServeInv, NEW p \in TaskPrios, CreateEnd(p)
  PROVE  ServeInv'
<1> USE IdleInTid
<1>1. PICK t : t = arg[current]
  OBVIOUS
<1>2. current \in Tid /\ t \in Tid \ {Idle, current} /\ state[t] = "READY" /\ pc[current] = "creating"
  BY <1>1 DEF CreateEnd, KernelInv, StackInv, CreatorRuns, IdleInv, ArgNotIdle, SchedInv, TypeOK
<1>3. /\ pc'[current] = "user" /\ pc'[t] = "user"
      /\ \A u \in Tid \ {current, t} : pc'[u] = pc[u] /\ arg'[u] = arg[u]
      /\ parent'[t] = current /\ \A u \in Tid \ {t} : parent'[u] = parent[u]
      /\ waitTid'[t] = NoTid /\ \A u \in Tid \ {t} : waitTid'[u] = waitTid[u]
      /\ prio'[t] = p /\ \A u \in Tid \ {t} : prio'[u] = prio[u]
      /\ state' = state /\ current' = current
  BY <1>1, <1>2 DEF CreateEnd, KernelInv, SchedInv, TypeOK
<1>4. Filling(t) /\ \A u \in Tid \ {t} : ~Filling(u)
  BY <1>1, <1>2 DEF Filling, KernelInv, StackInv, CreatorRuns
<1>5. \A u \in Tid : pc'[u] # "creating" /\ ~Filling(u)'
  BY <1>2, <1>3 DEF KernelInv, StackInv, CreatorRuns, Filling
<1>6. Urgent' /\ Killer'
  BY <1>2, <1>3, <1>4, <1>5 DEF ServeInv, Urgent, Killer, Alive
<1>7. Waiter'
  <2> SUFFICES ASSUME NEW q \in Tid, state'[q] = "BLOCKED"
               PROVE  /\ pc'[q] \in {"waiting", "waitResume"}
                      /\ waitTid'[q] = arg'[q] /\ parent'[arg'[q]] = q /\ ~Filling(arg[q])'
                      /\ arg'[q] = arg[q] /\ Alive(arg[q])'
    BY DEF Waiter
  <2>1. q # current /\ q # t /\ state[q] = "BLOCKED"
    BY <1>2, <1>3 DEF ServeInv, WaitPoint
  <2>2. /\ pc[q] \in {"waiting", "waitResume"} /\ arg[q] \in Tid /\ ~Filling(arg[q])
        /\ waitTid[q] = arg[q] /\ parent[arg[q]] = q /\ Alive(arg[q])
    BY <1>2, <2>1 DEF ServeInv, Waiter, KernelInv, IdleInv, ArgNotIdle
  <2>3. arg[q] # t
    BY <1>4, <2>2
  <2> QED BY <1>3, <1>5, <2>1, <2>2, <2>3 DEF Alive
<1>8. Tested' /\ WaitPoint' /\ NextIdle'
  BY <1>2, <1>3 DEF ServeInv, Tested, WaitPoint, NextIdle
<1>9. Resumed'
  BY <1>2, <1>3, <1>4, <1>5
  DEF ServeInv, Resumed, KernelInv, IdleInv, ArgNotIdle
<1> QED BY <1>6, <1>7, <1>8, <1>9 DEF ServeInv

LEMMA ServeGiveUp ==
  ASSUME IdleNeverGivesUp, OnlyWaitBlocks, KernelInv, ServeInv, GiveUp
  PROVE  ServeInv'
<1> USE DEF Calls, Goto, PickThen, cpuVars
<1>1. current # Idle
  BY NotIdle DEF GiveUp, Yield, Sleep, ExitBegin
<1>2. current \in Tid /\ state \in [Tid -> States] /\ pc \in [Tid -> Points]
      /\ next \in [Tid -> Tid \cup {NoTid}]
  BY DEF KernelInv, SchedInv, TypeOK
<1>3. pc[current] = "user" /\ Alive(current)
  BY DEF GiveUp, Yield, Sleep, ExitBegin, KernelInv, StackInv, Works, Alive
<1>4. ASSUME Yield PROVE ServeInv'
  <2>1. PickNext(state) = Idle => \A t \in Tid \ {Idle} : state[t] # "READY"
    BY <1>3, PickIdleLast DEF ServeInv, Alive
  <2> QED BY <1>2, <1>4, <2>1, StayServes DEF Yield
<1>5. ASSUME NEW ms \in SleepTicks, Sleep(ms) PROVE ServeInv'
  <2>1. PICK st : st = [state EXCEPT ![current] = "SLEEPING"]
    OBVIOUS
  <2>2. PickNext(st) = Idle => \A t \in Tid \ {Idle} : st[t] # "READY"
    BY <1>2, <1>3, <2>1, PickIdleLast DEF ServeInv, Alive
  <2>3. state' = st /\ next'[current] = PickNext(st)
        /\ current' = current /\ parent' = parent /\ arg' = arg
        /\ prio' = prio /\ waitTid' = waitTid
        /\ pc' = [pc EXCEPT ![current] = "yielding"]
    BY <1>2, <1>5, <2>1 DEF Sleep
  <2> QED BY <1>2, <1>3, <2>1, <2>2, <2>3, StayServes
<1>6. ASSUME ExitBegin PROVE ServeInv'
  BY <1>1, <1>2, <1>3, <1>6, StayServes DEF ExitBegin
<1> QED BY <1>4, <1>5, <1>6 DEF GiveUp

LEMMA ServePick ==
  ASSUME OnlyWaitBlocks, KernelInv, ServeInv, ExitPick \/ KillSelf
  PROVE  ServeInv'
<1> USE DEF Goto, PickThen, cpuVars, taskVars
<1>1. current \in Tid /\ pc \in [Tid -> Points] /\ next \in [Tid -> Tid \cup {NoTid}]
  BY DEF KernelInv, SchedInv, TypeOK
<1>2. PickNext(state) = Idle => \A t \in Tid \ {Idle} : state[t] # "READY"
  BY PickIdleLast DEF ServeInv, Alive, ExitPick, KillSelf
<1> QED BY <1>1, <1>2, StayServes DEF ExitPick, KillSelf

LEMMA ServeSignal ==
  ASSUME IdleNeverGivesUp, KernelInv, ServeInv,
         \/ \E t \in Targets, s \in Signals : SigSend(t, s)
         \/ \E s \in Signals : SigAction(s)
         \/ \E S \in SUBSET Signals : MaskBlock(S) \/ MaskUnblock(S)
  PROVE  ServeInv'
<1>1. /\ current \in Tid /\ state \in [Tid -> States] /\ pc \in [Tid -> Points]
  BY DEF KernelInv, SchedInv, TypeOK
<1>2. /\ pc[current] = "user" /\ arg' = arg /\ prio' = prio /\ waitTid' = waitTid
      /\ current' = current /\ parent' = parent
  BY DEF SigSend, SigAction, MaskBlock, MaskUnblock, Calls, cpuVars, codeVars, taskVars
<1>3. CASE pc' = pc
  <2>1. pc' = [pc EXCEPT ![current] = "user"]
    BY <1>1, <1>2, <1>3
  <2>2. \A u \in Tid : \/ state'[u] = state[u]
                       \/ state[u] = "SLEEPING" /\ state'[u] = "READY"
    <3>1. CASE \E t \in Targets, s \in Signals : SigSend(t, s)
      BY <1>1, <3>1 DEF SigSend
    <3>2. CASE \E s \in Signals : SigAction(s)
      BY <3>2 DEF SigAction, taskVars
    <3>3. CASE \E S \in SUBSET Signals : MaskBlock(S)
      BY <3>3 DEF MaskBlock, taskVars
    <3>4. CASE \E S \in SUBSET Signals : MaskUnblock(S)
      BY <1>1, <1>2, <1>3, <3>4 DEF MaskUnblock, Goto
    <3> QED BY <3>1, <3>2, <3>3, <3>4
  <2> QED BY <1>1, <1>2, <2>1, <2>2, StayServes
<1>4. CASE pc' # pc
  <2>1. PICK S \in SUBSET Signals : MaskUnblock(S)
    BY <1>4 DEF SigSend, SigAction, MaskBlock, codeVars
  <2>2. current # Idle
    BY <2>1, NotIdle DEF MaskUnblock
  <2>3. /\ pc' = [pc EXCEPT ![current] = "exiting"]
        /\ state' = [state EXCEPT ![current] = "DEAD"]
    BY <1>4, <2>1, <2>2 DEF MaskUnblock, Goto
  <2> QED BY <1>1, <1>2, <2>3, StayServes
<1> QED BY <1>3, <1>4

\* The announcement of t's death, in sched_exit and in sched_kill, releases its waiter.
LEMMA ServeNotify ==
  ASSUME KernelInv, ServeInv, ExitNotify \/ KillNotify
  PROVE  ServeInv'
<1> USE IdleInTid
<1>1. PICK t \in Tid \ {Idle} :
        /\ \/ pc[current] = "exiting" /\ t = current
           \/ pc[current] = "killing" /\ t = arg[current]
        /\ state' = NotifiedState(state, t) /\ waitTid' = NotifiedWait(state, t)
  <2>1. CASE ExitNotify
    BY <2>1 DEF ExitNotify, KernelInv, SchedInv, TypeOK, IdleInv, IdleLocal
  <2>2. CASE KillNotify
    BY <2>2 DEF KillNotify, KernelInv, IdleInv, ArgNotIdle, SchedInv, TypeOK
  <2> QED BY <2>1, <2>2
<1>2. PICK p \in {"user", "exited", "suicide"} : pc' = [pc EXCEPT ![current] = p]
  BY DEF ExitNotify, KillNotify, Return, Goto
<1>3. /\ current \in Tid \ {Idle} /\ state \in [Tid -> States] /\ pc \in [Tid -> Points]
      /\ waitTid \in [Tid -> Tid \cup {NoTid}] /\ arg \in [Tid -> Tid \cup {NoTid}]
  BY <1>1 DEF KernelInv, SchedInv, TypeOK, ServeInv, Killer
<1>4. /\ current' = current /\ parent' = parent /\ prio' = prio
      /\ \A u \in Tid \ {current} : arg'[u] = arg[u]
  BY <1>3 DEF ExitNotify, KillNotify, Return, cpuVars
<1>5. pc'[current] = p /\ \A u \in Tid \ {current} : pc'[u] = pc[u]
  BY <1>2, <1>3
<1>6. state[t] = "DEAD" /\ state[current] # "BLOCKED"
  BY <1>1, <1>3 DEF KernelInv, StackInv, Ends, ServeInv, Killer, WaitPoint
<1>7. \A u \in Tid : pc[u] # "creating" /\ ~Filling(u)
  BY <1>1, NobodyFills DEF KernelInv, StackInv
<1>8. \A u \in Tid : ~Filling(u)'
  BY <1>5, <1>7 DEF Filling
\* whoever waits for t is its parent and is woken
<1>9. \A u \in Tid : /\ \/ state'[u] = state[u] /\ waitTid'[u] = waitTid[u]
                        \/ /\ state[u] = "BLOCKED" /\ state'[u] = "READY"
                           /\ parent[t] = u /\ waitTid[u] = t
                     /\ parent[t] = u /\ state[u] = "BLOCKED" /\ waitTid[u] = t => state'[u] = "READY"
  <2>1. CASE WakesParent(state, t)
    <3>1. PICK q \in Tid : q = parent[t] /\ state[q] = "BLOCKED" /\ waitTid[q] = t
      BY <2>1 DEF WakesParent
    <3>2. state' = [state EXCEPT ![q] = "READY"] /\ waitTid' = [waitTid EXCEPT ![q] = NoTid]
      BY <1>1, <2>1, <3>1 DEF NotifiedState, NotifiedWait
    <3> QED BY <1>3, <3>1, <3>2
  <2>2. CASE ~WakesParent(state, t)
    <3>1. state' = state /\ waitTid' = waitTid
      BY <1>1, <2>2 DEF NotifiedState, NotifiedWait
    <3> QED BY <2>2, <3>1 DEF WakesParent
  <2> QED BY <2>1, <2>2
<1>10. Urgent' /\ Killer'
  <2>1. Killer'
    BY <1>5 DEF ServeInv, Killer
  <2>2. Urgent'
    BY <1>4, <1>7, <1>9 DEF ServeInv, Urgent, Alive
  <2> QED BY <2>1, <2>2
<1>11. Waiter'
  <2> SUFFICES ASSUME NEW q \in Tid, state'[q] = "BLOCKED"
               PROVE  /\ pc'[q] \in {"waiting", "waitResume"}
                      /\ waitTid'[q] = arg'[q] /\ parent'[arg'[q]] = q /\ ~Filling(arg[q])'
                      /\ arg'[q] = arg[q] /\ Alive(arg[q])'
    BY DEF Waiter
  <2>1. q # current /\ state[q] = "BLOCKED" /\ waitTid'[q] = waitTid[q]
    BY <1>6, <1>9
  <2>2. /\ pc[q] \in {"waiting", "waitResume"} /\ arg[q] \in Tid
        /\ waitTid[q] = arg[q] /\ parent[arg[q]] = q
        /\ \/ Alive(arg[q])
           \/ arg[q] = current /\ pc[current] = "exiting"
           \/ arg[q] = arg[current] /\ pc[current] = "killing"
    BY <2>1 DEF ServeInv, Waiter, KernelInv, IdleInv, ArgNotIdle
  <2>3. arg[q] # t
    BY <1>9, <2>1, <2>2
  <2>4. Alive(arg[q])
    BY <1>1, <2>2, <2>3
  <2> QED BY <1>4, <1>5, <1>8, <1>9, <2>1, <2>2, <2>4 DEF Alive
<1>12. Tested' /\ WaitPoint' /\ NextIdle'
  <2>1. Tested' /\ NextIdle'
    BY <1>4, <1>5 DEF Tested, NextIdle
  <2>2. state'[current] # "BLOCKED"
    BY <1>3, <1>6, <1>9
  <2> QED BY <1>4, <1>5, <2>1, <2>2 DEF WaitPoint
<1>13. Resumed'
  <2> SUFFICES ASSUME NEW q \in Tid \ {Idle}, pc'[q] = "waitResume"
               PROVE  /\ state'[q] # "SLEEPING"
                      /\ state'[q] \in {"READY", "RUNNING"} =>
                           state'[arg'[q]] = "DEAD" /\ parent'[arg'[q]] = q /\ current' # Idle
    BY DEF Resumed
  <2>1. q # current /\ pc[q] = "waitResume" /\ arg'[q] = arg[q] /\ arg[q] \in Tid
    BY <1>4, <1>5 DEF KernelInv, IdleInv, ArgNotIdle
  <2>2. state[q] # "SLEEPING"
    BY <2>1 DEF ServeInv, Resumed
  <2>3. CASE state'[q] = state[q]
    <3>1. state[q] \in {"READY", "RUNNING"} => state[arg[q]] = "DEAD" /\ parent[arg[q]] = q
      BY <1>7, <2>1 DEF ServeInv, Resumed
    <3> QED BY <1>3, <1>4, <1>9, <2>1, <2>2, <2>3, <3>1
  <2>4. CASE state[q] = "BLOCKED" /\ parent[t] = q /\ waitTid[q] = t
    <3>1. arg[q] = t
      BY <2>4 DEF ServeInv, Waiter
    <3>2. state'[t] = "DEAD"
      BY <1>6, <1>9
    <3> QED BY <1>3, <1>4, <1>9, <2>1, <2>4, <3>1, <3>2
  <2> QED BY <1>9, <2>3, <2>4
<1> QED BY <1>10, <1>11, <1>12, <1>13 DEF ServeInv

LEMMA ServeKill ==
  ASSUME OnlyWaitBlocks, KernelInv, ServeInv, NEW t \in Tid, KillBegin(t)
  PROVE  ServeInv'
<1> USE IdleInTid
<1>1. /\ current \in Tid /\ state \in [Tid -> States] /\ pc \in [Tid -> Points]
      /\ arg \in [Tid -> Tid \cup {NoTid}]
  BY DEF KernelInv, SchedInv, TypeOK
<1>2. /\ pc[current] = "user" /\ Alive(t) /\ t # Idle /\ current # Idle
      /\ state' = [state EXCEPT ![t] = "DEAD"]
      /\ current' = current /\ parent' = parent /\ prio' = prio /\ waitTid' = waitTid
      /\ pc' = [pc EXCEPT ![current] = "killing"]
      /\ arg' = [arg EXCEPT ![current] = t]
  BY DEF KillBegin, Calls, Goto, cpuVars, OnlyWaitBlocks
<1>3. /\ pc'[current] = "killing" /\ arg'[current] = t
      /\ \A u \in Tid \ {current} : pc'[u] = pc[u] /\ arg'[u] = arg[u]
      /\ state'[t] = "DEAD" /\ \A u \in Tid \ {t} : state'[u] = state[u]
  BY <1>1, <1>2
<1>4. \A u \in Tid : pc[u] # "creating" /\ ~Filling(u)
  BY <1>2, NobodyFills DEF KernelInv, StackInv
<1>5. \A u \in Tid : ~Filling(u)'
  BY <1>3, <1>4 DEF Filling
<1>6. Urgent' /\ Killer'
  BY <1>2, <1>3, <1>4 DEF ServeInv, Urgent, Killer, Alive
<1>7. Waiter'
  <2> SUFFICES ASSUME NEW q \in Tid, state'[q] = "BLOCKED"
               PROVE  /\ pc'[q] \in {"waiting", "waitResume"}
                      /\ waitTid'[q] = arg'[q] /\ parent'[arg'[q]] = q /\ ~Filling(arg[q])'
                      /\ arg'[q] = arg[q] /\ (Alive(arg[q])' \/ arg[q] = t)
    BY <1>2, <1>3 DEF Waiter
  <2>1. q # current /\ q # t /\ state[q] = "BLOCKED"
    BY <1>2, <1>3 DEF ServeInv, WaitPoint
  <2>2. /\ pc[q] \in {"waiting", "waitResume"} /\ arg[q] \in Tid
        /\ waitTid[q] = arg[q] /\ parent[arg[q]] = q /\ Alive(arg[q])
    BY <1>2, <2>1 DEF ServeInv, Waiter, KernelInv, IdleInv, ArgNotIdle
  <2> QED BY <1>2, <1>3, <1>5, <2>1, <2>2 DEF Alive
<1>8. Tested' /\ WaitPoint' /\ NextIdle'
  BY <1>2, <1>3 DEF ServeInv, Tested, WaitPoint, NextIdle
<1>9. Resumed'
  BY <1>2, <1>3, <1>4 DEF ServeInv, Resumed, KernelInv, IdleInv, ArgNotIdle
<1> QED BY <1>6, <1>7, <1>8, <1>9 DEF ServeInv

LEMMA ServeWait ==
  ASSUME OnlyWaitBlocks, KernelInv, ServeInv,
         (\E c \in Tid : WaitDead(c) \/ WaitTest(c)) \/ WaitReap
  PROVE  ServeInv'
<1> USE IdleInTid
<1>1. /\ current \in Tid /\ state \in [Tid -> States] /\ pc \in [Tid -> Points]
      /\ arg \in [Tid -> Tid \cup {NoTid}]
  BY DEF KernelInv, SchedInv, TypeOK
<1>2. ASSUME NEW c \in Tid, WaitTest(c) PROVE ServeInv'
  <2>1. /\ arg' = [arg EXCEPT ![current] = c] /\ Alive(c) /\ parent[c] = current
        /\ pc' = [pc EXCEPT ![current] = "waitTested"] /\ pc[current] = "user"
        /\ UNCHANGED <<taskVars, sigVars, cpuVars, phase, next>>
    BY <1>2 DEF WaitTest, MayWaitFor, Alive, Goto, Calls
  <2>2. Tested'
    BY <1>1, <2>1 DEF Tested, Alive, taskVars, cpuVars
  <2> QED BY <1>1, <2>1, <2>2, StayServes DEF taskVars, cpuVars
\* The two ways to reap a child of the caller's own, which is dead.
<1>3. ASSUME WaitReap \/ \E d \in Tid : WaitDead(d) PROVE ServeInv'
  <2>1. PICK c \in Tid \ {current} :
          /\ state[c] = "DEAD" /\ parent[c] = current
          /\ pc[current] \in {"user", "waitResume"}
          /\ state' = [state EXCEPT ![c] = "FREE"]
    <3>1. CASE WaitReap
      <4>1. pc[current] = "waitResume" /\ current # Idle
        BY <3>1 DEF WaitReap, KernelInv, IdleInv, IdleLocal
      <4>2. state[current] \in {"READY", "RUNNING"}
        BY <1>1, <4>1 DEF KernelInv, StackInv, Works, ServeInv, WaitPoint, States
      <4>3. ~Filling(current)
        BY <1>1, <4>1, NobodyFills DEF KernelInv, StackInv
      <4>4. state[arg[current]] = "DEAD" /\ parent[arg[current]] = current
        BY <1>1, <4>1, <4>2, <4>3 DEF ServeInv, Resumed
      <4>5. arg[current] \in Tid \ {current}
        BY <1>1, <4>1 DEF KernelInv, IdleInv, ArgNotIdle, StackInv, NoSelfParent
      <4> QED BY <3>1, <4>1, <4>4, <4>5 DEF WaitReap, Reaped
    <3>2. CASE \E d \in Tid : WaitDead(d)
      BY <1>1, <3>2 DEF WaitDead, Reaped, MayWaitFor, Calls, KernelInv, StackInv, NoSelfParent
    <3> QED BY <1>3, <3>1, <3>2
  <2>2. /\ current' = current /\ parent' = parent /\ prio' = prio /\ waitTid' = waitTid
        /\ pc' = [pc EXCEPT ![current] = "user"]
        /\ \A u \in Tid \ {current} : arg'[u] = arg[u]
    BY <1>1, <1>3 DEF WaitReap, WaitDead, Return, Goto, Calls, cpuVars, codeVars
  <2>3. /\ pc'[current] = "user" /\ \A u \in Tid \ {current} : pc'[u] = pc[u]
        /\ state'[c] = "FREE" /\ \A u \in Tid \ {c} : state'[u] = state[u]
    BY <1>1, <2>1, <2>2
  <2>4. \A u \in Tid : pc[u] # "creating" /\ ~Filling(u)
    BY <2>1, NobodyFills DEF KernelInv, StackInv
  <2>5. \A u \in Tid : ~Filling(u)'
    BY <2>3, <2>4 DEF Filling
  <2>6. Urgent' /\ Killer'
    BY <2>1, <2>2, <2>3, <2>4 DEF ServeInv, Urgent, Killer, Alive
  <2>7. Waiter'
    <3> SUFFICES ASSUME NEW q \in Tid, state'[q] = "BLOCKED"
                 PROVE  /\ pc'[q] \in {"waiting", "waitResume"}
                        /\ waitTid'[q] = arg'[q] /\ parent'[arg'[q]] = q /\ ~Filling(arg[q])'
                        /\ arg'[q] = arg[q] /\ Alive(arg[q])'
      BY DEF Waiter
    <3>1. q # current /\ q # c /\ state[q] = "BLOCKED"
      BY <2>1, <2>3 DEF ServeInv, WaitPoint
    <3>2. /\ pc[q] \in {"waiting", "waitResume"} /\ arg[q] \in Tid
          /\ waitTid[q] = arg[q] /\ parent[arg[q]] = q /\ Alive(arg[q])
      BY <2>1, <3>1 DEF ServeInv, Waiter, KernelInv, IdleInv, ArgNotIdle
    <3>3. arg[q] # c
      BY <2>1, <3>2 DEF Alive
    <3> QED BY <2>2, <2>3, <2>5, <3>1, <3>2, <3>3 DEF Alive
  <2>8. Tested' /\ WaitPoint' /\ NextIdle'
    BY <2>1, <2>2, <2>3 DEF ServeInv, Tested, WaitPoint, NextIdle
  <2>9. Resumed'
    <3> SUFFICES ASSUME NEW q \in Tid \ {Idle}, pc'[q] = "waitResume"
                 PROVE  /\ state'[q] # "SLEEPING"
                        /\ state'[q] \in {"READY", "RUNNING"} =>
                             state'[arg'[q]] = "DEAD" /\ parent'[arg'[q]] = q /\ current' # Idle
      BY DEF Resumed
    <3>1. q # current /\ pc[q] = "waitResume" /\ arg'[q] = arg[q] /\ arg[q] \in Tid
      BY <2>2, <2>3 DEF KernelInv, IdleInv, ArgNotIdle
    <3>2. /\ state[q] # "SLEEPING"
          /\ state[q] \in {"READY", "RUNNING"} =>
                             state[arg[q]] = "DEAD" /\ parent[arg[q]] = q /\ current # Idle
      BY <2>4, <3>1 DEF ServeInv, Resumed
    <3> QED BY <2>1, <2>2, <2>3, <3>1, <3>2
  <2> QED BY <2>6, <2>7, <2>8, <2>9 DEF ServeInv
<1> QED BY <1>2, <1>3

LEMMA ServeWaitBlock ==
  ASSUME OnlyWaitBlocks, KernelInv, ServeInv, WaitBlock
  PROVE  ServeInv'
<1> USE IdleInTid
<1>1. PICK st : st = [state EXCEPT ![current] = "BLOCKED"]
  OBVIOUS
<1>2. /\ current \in Tid /\ state \in [Tid -> States] /\ pc \in [Tid -> Points]
      /\ waitTid \in [Tid -> Tid \cup {NoTid}] /\ next \in [Tid -> Tid \cup {NoTid}]
  BY DEF KernelInv, SchedInv, TypeOK
<1>3. /\ pc[current] = "waitTested" /\ state' = st /\ pc' = [pc EXCEPT ![current] = "waiting"]
      /\ next'[current] = PickNext(st) /\ waitTid' = [waitTid EXCEPT ![current] = arg[current]]
      /\ current' = current /\ parent' = parent /\ prio' = prio /\ arg' = arg
  BY <1>1, <1>2 DEF WaitBlock, PickThen, Goto, cpuVars
<1>4. /\ current # Idle /\ Alive(current) /\ arg[current] \in Tid \ {current}
      /\ Alive(arg[current]) /\ parent[arg[current]] = current
  <2>1. current # Idle
    BY <1>3 DEF KernelInv, IdleInv, IdleLocal
  <2>2. Alive(current)
    BY <1>3 DEF KernelInv, StackInv, Works, Alive
  <2>3. arg[current] \in Tid \ {current}
    BY <1>2, <1>3 DEF KernelInv, IdleInv, ArgNotIdle, StackInv, NoSelfParent
  <2>4. Alive(arg[current]) /\ parent[arg[current]] = current
    BY <1>3 DEF ServeInv, Tested
  <2> QED BY <2>1, <2>2, <2>3, <2>4
<1>5. /\ pc'[current] = "waiting" /\ \A u \in Tid \ {current} : pc'[u] = pc[u]
      /\ state'[current] = "BLOCKED" /\ \A u \in Tid \ {current} : state'[u] = state[u]
      /\ waitTid'[current] = arg[current]
      /\ \A u \in Tid \ {current} : waitTid'[u] = waitTid[u]
  BY <1>1, <1>2, <1>3
<1>6. \A u \in Tid : pc[u] # "creating" /\ ~Filling(u)
  BY <1>3, NobodyFills DEF KernelInv, StackInv
<1>7. \A u \in Tid : ~Filling(u)'
  BY <1>5, <1>6 DEF Filling
<1>8. Urgent' /\ Killer'
  BY <1>3, <1>4, <1>5, <1>6 DEF ServeInv, Urgent, Killer, Alive
<1>9. Waiter'
  <2> SUFFICES ASSUME NEW q \in Tid, state'[q] = "BLOCKED"
               PROVE  /\ pc'[q] \in {"waiting", "waitResume"}
                      /\ waitTid'[q] = arg'[q] /\ parent'[arg'[q]] = q /\ ~Filling(arg[q])'
                      /\ arg'[q] = arg[q] /\ Alive(arg[q])'
    BY DEF Waiter
  <2>1. CASE q = current
    BY <1>3, <1>4, <1>5, <1>7, <2>1 DEF Alive
  <2>2. CASE q # current
    <3>1. /\ pc[q] \in {"waiting", "waitResume"} /\ arg[q] \in Tid
          /\ waitTid[q] = arg[q] /\ parent[arg[q]] = q /\ Alive(arg[q])
      BY <1>3, <1>5, <2>2 DEF ServeInv, Waiter, KernelInv, IdleInv, ArgNotIdle
    <3> QED BY <1>3, <1>5, <1>7, <2>2, <3>1 DEF Alive
  <2> QED BY <2>1, <2>2
<1>10. Tested' /\ WaitPoint'
  BY <1>3, <1>5 DEF Tested, WaitPoint
<1>11. NextIdle'
  <2>1. PickNext(st) = Idle => \A t \in Tid \ {Idle} : st[t] # "READY"
    BY <1>1, <1>2, <1>3, <1>4, PickIdleLast DEF ServeInv, Alive
  <2> QED BY <1>3, <1>5, <2>1 DEF NextIdle
<1>12. Resumed'
  BY <1>3, <1>4, <1>5, <1>6 DEF ServeInv, Resumed, KernelInv, IdleInv, ArgNotIdle, Alive
<1> QED BY <1>8, <1>9, <1>10, <1>11, <1>12 DEF ServeInv

LEMMA ServeSwitch ==
  ASSUME KernelInv, ServeInv, Switch
  PROVE  ServeInv'
<1> USE IdleInTid
<1>1. PICK to \in Tid : to = next[current]
  BY DEF Switch, KernelInv, SchedInv, NextKnown, TypeOK
<1>2. PICK p : p = AfterSwitch[pc[current]]
  OBVIOUS
<1>3. /\ current \in Tid \ {Idle} /\ state \in [Tid -> States] /\ pc \in [Tid -> Points]
      /\ state[to] = "READY" /\ pc[current] \in {"yielding", "waiting", "leaving"}
  BY <1>1 DEF Switch, KernelInv, SchedInv, TypeOK, IdleInv, IdleLocal, StackInv, NextReady
<1>4. /\ pc' = [pc EXCEPT ![current] = p] /\ UNCHANGED <<parent, prio, waitTid, arg>>
      /\ p \in {"user", "waitResume", "halt"}
      /\ p = "waitResume" => pc[current] = "waiting"
  BY <1>2, <1>3 DEF Switch, Goto, AfterSwitch
<1>5. \A u \in Tid : pc[u] # "creating" /\ ~Filling(u)
  BY <1>3, NobodyFills DEF KernelInv, StackInv
<1>6. pc'[current] = p /\ \A u \in Tid \ {current} : pc'[u] = pc[u]
  BY <1>3, <1>4
<1>7. \A u \in Tid : pc'[u] # "creating" /\ ~Filling(u)'
  BY <1>4, <1>5, <1>6 DEF Filling
<1>8. \A u \in Tid : pc[u] # "killing" /\ pc'[u] # "killing"
  BY <1>3, <1>4, <1>6 DEF ServeInv, Killer
<1>9. PICK old \in Tid \ {Idle} : old = current
  BY <1>3
<1>10. /\ current' = to
       /\ state'[to] \in {"READY", "RUNNING"}
       /\ \A u \in Tid \ {to} :
            \/ state'[u] = state[u]
            \/ u = old /\ state[u] = "RUNNING" /\ state'[u] = "READY"
  <2>1. CASE to = current
    BY <1>1, <1>3, <2>1 DEF Switch, SwitchTo, cpuVars
  <2>2. CASE to # current
    <3>1. current' = to
          /\ state' = [state EXCEPT ![current] = IF @ = "RUNNING" THEN "READY" ELSE @,
                                    ![to] = "RUNNING"]
      BY <1>1, <2>2 DEF Switch, SwitchTo
    <3> QED BY <1>3, <1>9, <2>2, <3>1
  <2> QED BY <2>1, <2>2
<1>11. Urgent'
  BY <1>3, <1>4, <1>5, <1>10 DEF ServeInv, Urgent, Alive
<1>12. Killer'
  BY <1>8 DEF Killer
<1>13. pc'[to] \in {"user", "creating", "waitResume", "halt"}
  BY <1>3, <1>4, <1>6, <1>8 DEF KernelInv, IdleInv, IdleLocal, StackInv, Parked
<1>14. Tested' /\ NextIdle' /\ WaitPoint'
  <2>1. Tested' /\ NextIdle'
    BY <1>10, <1>13 DEF Tested, NextIdle
  <2>2. state'[to] # "BLOCKED"
    BY <1>10
  <2> QED BY <1>10, <1>13, <2>1, <2>2 DEF WaitPoint
<1>15. Waiter'
  <2> SUFFICES ASSUME NEW q \in Tid, state'[q] = "BLOCKED"
               PROVE  /\ pc'[q] \in {"waiting", "waitResume"}
                      /\ waitTid'[q] = arg'[q] /\ parent'[arg'[q]] = q /\ ~Filling(arg[q])'
                      /\ arg'[q] = arg[q] /\ Alive(arg[q])'
    BY DEF Waiter
  <2>1. q # to /\ state[q] = "BLOCKED"
    BY <1>10
  <2>2. /\ pc[q] \in {"waiting", "waitResume"} /\ arg[q] \in Tid
        /\ waitTid[q] = arg[q] /\ parent[arg[q]] = q /\ Alive(arg[q])
    BY <1>3, <2>1 DEF ServeInv, Waiter, KernelInv, IdleInv, ArgNotIdle
  <2>3. pc'[q] \in {"waiting", "waitResume"}
    <3>1. CASE q = current
      <4>1. pc[current] = "waiting"
        BY <2>1, <3>1 DEF ServeInv, WaitPoint
      <4> QED BY <1>2, <1>6, <3>1, <4>1 DEF AfterSwitch
    <3>2. CASE q # current
      BY <1>6, <2>2, <3>2
    <3> QED BY <3>1, <3>2
  <2>4. state'[arg[q]] \notin {"FREE", "DEAD"}
    <3>1. state[arg[q]] \notin {"FREE", "DEAD"}
      BY <2>2 DEF Alive
    <3> QED BY <1>10, <2>2, <3>1
  <2>5. Alive(arg[q])'
    BY <1>4, <2>4 DEF Alive
  <2> QED BY <1>4, <1>7, <2>2, <2>3, <2>5
<1>16. Resumed'
  <2> SUFFICES ASSUME NEW q \in Tid \ {Idle}, pc'[q] = "waitResume"
               PROVE  /\ state'[q] # "SLEEPING"
                      /\ state'[q] \in {"READY", "RUNNING"} =>
                           state'[arg'[q]] = "DEAD" /\ parent'[arg'[q]] = q /\ current' # Idle
    BY DEF Resumed
  <2>1. CASE q = current
    <3>1. state[current] = "BLOCKED"
      BY <1>4, <1>6, <2>1 DEF ServeInv, WaitPoint
    <3>2. state'[q] = "BLOCKED"
      BY <1>3, <1>10, <2>1, <3>1
    <3> QED BY <3>2
  <2>2. CASE q # current
    <3>1. pc[q] = "waitResume" /\ arg[q] \in Tid
      BY <1>6, <2>2 DEF KernelInv, IdleInv, ArgNotIdle
    <3>2. state[q] # "SLEEPING" /\ (state[q] \in {"READY", "RUNNING"} =>
                           state[arg[q]] = "DEAD" /\ parent[arg[q]] = q)
      BY <1>5, <3>1 DEF ServeInv, Resumed
    <3>3. state'[q] # "SLEEPING"
      BY <1>10, <3>2
    <3>4. ASSUME state'[q] \in {"READY", "RUNNING"}
          PROVE  state'[arg[q]] = "DEAD" /\ parent[arg[q]] = q /\ to # Idle
      <4>1. state[q] = "READY"
        BY <1>3, <1>9, <1>10, <2>2, <3>4 DEF KernelInv, SchedInv, OnlyCurrentRuns
      <4>2. state[arg[q]] = "DEAD" /\ parent[arg[q]] = q
        BY <3>2, <4>1
      <4>3. state'[arg[q]] = "DEAD"
        BY <1>3, <1>10, <3>1, <4>2
      <4>4. to # Idle
        BY <1>1, <1>3, <4>1 DEF ServeInv, NextIdle
      <4> QED BY <4>2, <4>3, <4>4
    <3> QED BY <1>4, <1>10, <3>3, <3>4
  <2> QED BY <2>1, <2>2
<1> QED BY <1>11, <1>12, <1>14, <1>15, <1>16 DEF ServeInv

LEMMA ServeTimer ==
  ASSUME CreateUncut, KernelInv, ServeInv, Timer
  PROVE  ServeInv'
<1> USE IdleInTid
<1>1. /\ current = Idle /\ TimerLands /\ UNCHANGED <<pc, arg, parent, waitTid, prio, next>>
  BY TickFromIdle DEF KernelInv
<1>2. \A u \in Tid : pc[u] # "creating" /\ pc'[u] # "creating" /\ ~Filling(u) /\ ~Filling(u)'
  <2>1. pc[current] # "creating"
    BY <1>1 DEF CreateUncut, TimerLands
  <2>2. \A u \in Tid : pc[u] # "creating" /\ pc'[u] # "creating"
    BY <1>1, <2>1, NobodyFills DEF KernelInv, StackInv
  <2> QED BY <2>2 DEF Filling
<1>3. \A u \in Tid : pc[u] # "killing"
  BY <1>1 DEF ServeInv, Killer
<1>4. \A t \in Tid :
        \/ TickState[t] = "FREE" /\ Reapable(t)
        \/ TickState[t] = state[t]
        \/ TickState[t] = "READY" /\ state[t] = "SLEEPING"
  BY DEF TickState, Woken
<1>5. TickState \in [Tid -> States] /\ TickState[Idle] \in {"READY", "RUNNING"}
  BY <1>1, TimerLandsStep DEF KernelInv, TickState, Reapable, Woken, IdleInv, IdleSurvives
<1>6. PICK to \in Tid :
        /\ to = current' /\ state'[to] \in {"READY", "RUNNING"}
        /\ TickState[to] \in {"READY", "RUNNING"}
        /\ \A u \in Tid : u # Idle /\ u # to => state'[u] = TickState[u]
        /\ state'[Idle] \in {"READY", "RUNNING"}
  <2>1. CASE current' = Idle /\ state' = TickState
    BY <1>5, <2>1
  <2>2. CASE /\ current' \in Tid \ {Idle} /\ TickState[current'] = "READY"
             /\ state' = [TickState EXCEPT ![Idle] = "READY", ![current'] = "RUNNING"]
    <3>1. PICK to \in Tid \ {Idle} : to = current'
      BY <2>2
    <3> QED BY <1>5, <2>2, <3>1
  <2> QED BY <2>1, <2>2, TickFromIdle DEF KernelInv
<1>7. \A u \in Tid : Alive(u)' <=> Alive(u)
  BY <1>4, <1>5, <1>6 DEF Alive, Reapable, KernelInv, IdleInv, IdleSurvives
<1>8. pc'[to] \in {"user", "waitResume", "halt"}
  BY <1>1, <1>2, <1>3 DEF KernelInv, IdleInv, IdleLocal, StackInv, Parked
<1>9. Urgent' /\ Killer'
  BY <1>1, <1>2, <1>3, <1>7 DEF ServeInv, Urgent, Killer
<1>10. Tested' /\ NextIdle' /\ WaitPoint'
  <2>1. state'[to] # "BLOCKED"
    BY <1>6
  <2> QED BY <1>6, <1>8, <2>1 DEF Tested, NextIdle, WaitPoint
<1>11. Waiter'
  <2> SUFFICES ASSUME NEW q \in Tid, state'[q] = "BLOCKED"
               PROVE  /\ pc'[q] \in {"waiting", "waitResume"}
                      /\ waitTid'[q] = arg'[q] /\ parent'[arg'[q]] = q /\ ~Filling(arg[q])'
                      /\ arg'[q] = arg[q] /\ Alive(arg[q])'
    BY DEF Waiter
  <2>1. state[q] = "BLOCKED"
    BY <1>4, <1>6
  <2>2. /\ pc[q] \in {"waiting", "waitResume"} /\ arg[q] \in Tid
        /\ waitTid[q] = arg[q] /\ parent[arg[q]] = q /\ Alive(arg[q])
    <3>1. arg[q] \in Tid /\ pc[current] # "exiting"
      BY <1>1, <2>1 DEF ServeInv, Waiter, KernelInv, IdleInv, ArgNotIdle, IdleLocal
    <3> QED BY <1>1, <1>3, <2>1, <3>1 DEF ServeInv, Waiter
  <2> QED BY <1>1, <1>2, <1>7, <2>2
<1>12. Resumed'
  <2> SUFFICES ASSUME NEW q \in Tid \ {Idle}, pc'[q] = "waitResume"
               PROVE  state'[q] # "SLEEPING" /\ state'[q] \notin {"READY", "RUNNING"}
    BY DEF Resumed
  <2>1. pc[q] = "waitResume" /\ state[q] \notin {"SLEEPING", "READY", "RUNNING"}
    BY <1>1, <1>2 DEF ServeInv, Resumed
  <2> QED BY <1>4, <1>6, <2>1
<1> QED BY <1>9, <1>10, <1>11, <1>12 DEF ServeInv

LEMMA ServeNextInv ==
  ASSUME IdleNeverGivesUp, CreateUncut, OnlyWaitBlocks, KernelInv, ServeInv, [Next]_vars
  PROVE  ServeInv'
<1>1. CASE Continue
  BY <1>1, ServeCreateEnd, ServeSwitch, ServeNotify, ServePick, ServeWait, ServeWaitBlock
  DEF Continue
<1>2. CASE GiveUp
  BY <1>2, ServeGiveUp
<1>3. CASE Other
  <2>1. \A t \in Targets : ~(Block(t) \/ Unblock(t) \/ SigStop(t) \/ SigCont(t))
    BY DEF Block, Unblock, SigStop, SigCont, Calls, OnlyWaitBlocks
  <2> QED BY <1>3, <2>1, ServeCreateBegin, ServeKill, ServeWait, ServeSignal DEF Other
<1>4. CASE Timer
  BY <1>4, ServeTimer
<1>5. CASE UNCHANGED vars
  BY <1>5 DEF vars, taskVars, sigVars, cpuVars, codeVars, ServeInv, Urgent, Killer, Waiter,
              Tested, Resumed, WaitPoint, NextIdle, Filling, Alive
<1> QED BY <1>1, <1>2, <1>3, <1>4, <1>5 DEF Next

LEMMA ServeHolds ==
  ASSUME IdleNeverGivesUp, CreateUncut, OnlyWaitBlocks
  PROVE  Spec => [](KernelInv /\ ServeInv)
<1>1. Init => KernelInv /\ ServeInv
  BY InitInv, IdleInitInv, StackInitInv, ServeInitInv DEF KernelInv
<1>2. (KernelInv /\ ServeInv) /\ [Next]_vars => (KernelInv /\ ServeInv)'
  BY NextInv, IdleNextInv, StackNextInv, ServeNextInv DEF KernelInv
<1> QED BY <1>1, <1>2, PTL DEF Spec

\* A task blocked in sched_wait has a child that lives or whose death is about to be
\* announced, and one that goes on in sched_wait finds its child dead.
THEOREM NobodyWaitsInVain ==
  ASSUME IdleNeverGivesUp, CreateUncut, OnlyWaitBlocks
  PROVE  Spec => []WaitersServed
<1>1. KernelInv /\ ServeInv => WaitersServed
  <2> SUFFICES ASSUME KernelInv, ServeInv PROVE WaitersServed
    OBVIOUS
  <2>1. current \in Tid /\ state \in [Tid -> States]
    BY DEF KernelInv, SchedInv, TypeOK
  <2>2. WaiterWillBeWoken
    BY <2>1 DEF ServeInv, Waiter, WaiterWillBeWoken
  <2>3. ChildDeadOnResume
    <3> SUFFICES ASSUME pc[current] = "waitResume" PROVE state[arg[current]] = "DEAD"
      BY DEF ChildDeadOnResume
    <3>1. current # Idle /\ ~Filling(current)
      BY <2>1, NobodyFills DEF KernelInv, IdleInv, IdleLocal, StackInv
    <3>2. state[current] \in {"READY", "RUNNING"}
      BY <2>1 DEF KernelInv, StackInv, Works, ServeInv, WaitPoint, States
    <3> QED BY <2>1, <3>1, <3>2 DEF ServeInv, Resumed
  <2> QED BY <2>2, <2>3 DEF WaitersServed
<1> QED BY <1>1, ServeHolds, PTL

\* Of all steps, only the announcement of a death makes a BLOCKED task READY.
LEMMA OnlyDeathWakes ==
  ASSUME OnlyWaitBlocks, KernelInv, ServeInv, Next,
         NEW t \in Tid, state[t] = "BLOCKED", state'[t] = "READY"
  PROVE  ExitNotify \/ KillNotify
<1> USE IdleInTid
<1>1. current \in Tid /\ state \in [Tid -> States]
  BY DEF KernelInv, SchedInv, TypeOK
<1>2. CASE Continue
  <2>1. ASSUME NEW p \in TaskPrios, CreateEnd(p) PROVE FALSE
    BY <2>1 DEF CreateEnd
  <2>2. ASSUME Switch PROVE FALSE
    <3>1. PICK to \in Tid : to = next[current]
      BY <2>2 DEF Switch, KernelInv, SchedInv, NextKnown, TypeOK
    <3> QED BY <1>1, <2>2, <3>1 DEF Switch, SwitchTo
  <2>3. ASSUME ExitPick \/ KillSelf PROVE FALSE
    BY <2>3 DEF ExitPick, KillSelf, taskVars
  <2>4. ASSUME WaitBlock PROVE FALSE
    BY <1>1, <2>4 DEF WaitBlock
  <2>5. ASSUME WaitReap PROVE FALSE
    BY <1>1, <2>5 DEF WaitReap, Reaped
  <2> QED BY <1>2, <2>1, <2>2, <2>3, <2>4, <2>5 DEF Continue
<1>3. CASE GiveUp
  BY <1>1, <1>3 DEF GiveUp, Yield, Sleep, ExitBegin
<1>4. CASE Other
  <2>1. ASSUME CreateBegin PROVE FALSE
    BY <1>1, <2>1 DEF CreateBegin
  <2>2. ASSUME NEW u \in Tid, KillBegin(u) \/ WaitDead(u) \/ WaitTest(u) PROVE FALSE
    BY <1>1, <2>2 DEF KillBegin, WaitDead, WaitTest, Reaped, taskVars
  <2>3. \A u \in Targets : ~(Block(u) \/ Unblock(u) \/ SigStop(u) \/ SigCont(u))
    BY DEF Block, Unblock, SigStop, SigCont, Calls, OnlyWaitBlocks
  <2>4. ASSUME NEW u \in Targets, NEW s \in Signals, SigSend(u, s) PROVE FALSE
    BY <1>1, <2>4 DEF SigSend
  <2>5. ASSUME NEW s \in Signals, SigAction(s) PROVE FALSE
    BY <2>5 DEF SigAction, taskVars
  <2>6. ASSUME NEW S \in SUBSET Signals, MaskBlock(S) \/ MaskUnblock(S) PROVE FALSE
    BY <1>1, <2>6 DEF MaskBlock, MaskUnblock, taskVars
  <2> QED BY <1>4, <2>1, <2>2, <2>3, <2>4, <2>5, <2>6 DEF Other
<1>5. CASE Timer
  <2>1. t # Idle
    BY DEF KernelInv, IdleInv, IdleSurvives
  <2>2. TickState[t] = "BLOCKED"
    BY DEF TickState, Woken, Reapable
  <2>3. TickState \in [Tid -> States]
    BY <1>5, TickFromIdle, TimerLandsStep DEF KernelInv
  <2>4. CASE current' = Idle /\ state' = TickState
    BY <2>2, <2>4
  <2>5. CASE /\ current' \in Tid \ {Idle} /\ TickState[current'] = "READY"
             /\ state' = [TickState EXCEPT ![Idle] = "READY", ![current'] = "RUNNING"]
    <3>1. PICK to \in Tid \ {Idle} : to = current'
      BY <2>5
    <3> QED BY <2>1, <2>2, <2>3, <2>5, <3>1
  <2> QED BY <1>5, <2>4, <2>5, TickFromIdle DEF KernelInv
<1> QED BY <1>2, <1>3, <1>4, <1>5 DEF Next

\* A task that waits for its child is released by the child's death only: neither the
\* timer nor a signal nor another task's exit does it.
THEOREM ReleasedByDeathOnly ==
  ASSUME IdleNeverGivesUp, CreateUncut, OnlyWaitBlocks
  PROVE  Spec => WokenByChildDeath
<1>1. KernelInv /\ ServeInv /\ [Next]_vars =>
        [\A t \in Tid : /\ state[t] = "BLOCKED" /\ waitTid[t] \in Tid
                        /\ state'[t] = "READY"
                        => state'[waitTid[t]] = "DEAD"]_vars
  <2> SUFFICES ASSUME KernelInv, ServeInv, Next, NEW t \in Tid,
                      state[t] = "BLOCKED", waitTid[t] \in Tid, state'[t] = "READY"
               PROVE  state'[waitTid[t]] = "DEAD"
    BY Zenon
  <2>1. ExitNotify \/ KillNotify
    BY OnlyDeathWakes
  <2>2. state \in [Tid -> States] /\ current \in Tid
    BY DEF KernelInv, SchedInv, TypeOK
  <2>3. PICK c \in Tid : state[c] = "DEAD" /\ state' = NotifiedState(state, c)
    <3>1. CASE ExitNotify
      BY <2>2, <3>1 DEF ExitNotify, KernelInv, StackInv, Ends
    <3>2. CASE KillNotify
      BY <2>2, <3>2 DEF KillNotify, KernelInv, IdleInv, ArgNotIdle, ServeInv, Killer
    <3> QED BY <2>1, <3>1, <3>2
  <2>4. waitTid[t] = c /\ state'[c] = "DEAD"
    BY <2>2, <2>3, Notified
  <2> QED BY <2>4
<1> QED BY <1>1, ServeHolds, PTL DEF Spec, WokenByChildDeath

----------------------------------------------------------------------------
(* sched_reap                                                               *)

\* The switch that ends a tick leaves a dead task dead.
LEMMA SwitchKeepsDead ==
  ASSUME SchedInv, NEW st \in [Tid -> States], NEW sl, NEW c \in Tid, st[c] = "DEAD",
         NEW to \in Tid, to = current \/ st[to] \in {"READY", "RUNNING"},
         SwitchTo(st, sl, to, TRUE)
  PROVE  state'[c] = "DEAD"
<1>1. CASE to = current
  BY <1>1 DEF SwitchTo
<1>2. CASE to # current
  <2>1. state' = [st EXCEPT ![current] = IF @ = "RUNNING" THEN "READY" ELSE @,
                            ![to] = "RUNNING"]
    BY <1>2 DEF SwitchTo
  <2> QED BY <1>2, <2>1
<1> QED BY <1>1, <1>2

\* sched_reap, which runs in the timer interrupt, never takes a zombie away from the
\* parent that is blocked in sched_wait for it; for every window and every operation.
THEOREM ZombieIsHeld == Spec => ZombieHeld
<1>1. SchedInv /\ [Next]_vars =>
        [Timer => \A c \in Tid : state[c] = "DEAD" /\ WakesParent(state, c)
                                  => state'[c] = "DEAD"]_vars
  <2> SUFFICES ASSUME SchedInv, Timer, NEW c \in Tid, state[c] = "DEAD",
                      WakesParent(state, c)
               PROVE  state'[c] = "DEAD"
    BY Zenon
  <2>1. TimerLands
    BY DEF Timer, Tick, TickFatal, TickFatalIdle
  <2>2. ~Reapable(c)
    BY DEF Reapable, WakesParent, Alive
  <2>3. TickState[c] = "DEAD" /\ TickState \in [Tid -> States]
    BY <2>1, <2>2, TimerLandsStep DEF TickState, Woken
  <2>4. /\ prio \in [Tid -> Prio] /\ current \in Tid
    BY DEF SchedInv, TypeOK
  <2>5. CASE Tick
    <3>1. PICK sl, to : /\ to = current \/ to = PickNext(TickState)
                        /\ SwitchTo(TickState, sl, to, TRUE)
      BY <2>5 DEF Tick
    <3>2. to \in Tid /\ (to = current \/ TickState[to] \in {"READY", "RUNNING"})
      BY <2>4, <3>1, PickNextChoice
    <3> QED BY <2>3, <3>1, <3>2, SwitchKeepsDead
  <2>6. CASE TickFatal
    <3>1. PICK dead : dead = [TickState EXCEPT ![current] = "DEAD"]
      OBVIOUS
    <3>2. dead \in [Tid -> States] /\ dead[c] = "DEAD"
      BY <2>3, <2>4, <3>1 DEF States
    <3>3. PICK st : st = NotifiedState(dead, current)
      OBVIOUS
    <3>4. st \in [Tid -> States] /\ st[c] = "DEAD"
      BY <2>4, <3>2, <3>3, Notified
    <3>5. CASE PickNext(st) = current
      BY <2>6, <3>1, <3>3, <3>4, <3>5 DEF TickFatal
    <3>6. CASE PickNext(st) # current
      <4>1. SwitchTo(st, slice, PickNext(st), TRUE)
        BY <2>6, <3>1, <3>3, <3>6 DEF TickFatal
      <4>2. /\ PickNext(st) \in Tid
            /\ PickNext(st) = current \/ st[PickNext(st)] \in {"READY", "RUNNING"}
        BY <2>4, PickNextChoice
      <4> QED BY <3>4, <4>1, <4>2, SwitchKeepsDead
    <3> QED BY <3>5, <3>6
  <2>7. CASE TickFatalIdle
    BY <2>3, <2>7 DEF TickFatalIdle
  <2> QED BY <2>5, <2>6, <2>7 DEF Timer
<1> QED BY <1>1, SchedInvariant, PTL DEF Spec, ZombieHeld

============================================================================
