------------------------------- MODULE Sched -------------------------------
(***************************************************************************)
(* The preemptive scheduler: kernel/sched.c driven by irq0_handler of      *)
(* boot/kernel_stub.c.  One CPU; `current' executes, and every other task  *)
(* is suspended at the point where _switch_to took the CPU from it.        *)
(*                                                                         *)
(* Two facts of the machine shape the model:                               *)
(*  - the public functions run with interrupts enabled, so the timer may   *)
(*    land inside them; pc[t] names the places where that matters;         *)
(*  - irq0_handler calls sched_tick BEFORE it acknowledges the interrupt   *)
(*    controller.  When sched_tick switches away, the EOI is owed by the   *)
(*    suspended frame (inIrq) and the controller holds back every further  *)
(*    timer interrupt (isr) until that frame runs again.                   *)
(***************************************************************************)
EXTENDS Integers, FiniteSets

CONSTANTS
  MaxTasks,       \* SCHED_MAX_TASKS
  NumPrios,       \* SCHED_NUM_PRIOS
  Timeslice,      \* SCHED_TIMESLICE, in ticks
  ReapPeriod,     \* sched_reap runs when tick_count is a multiple of it (1024)
  TaskPrios,      \* the priorities that tasks are created with
  SleepTicks,     \* the arguments of sched_sleep that are explored
  Ops,            \* the operations that the created tasks of an instance call
  IdleOps,        \* those that the kernel main loop calls: it is the idle task
  Targets,        \* the tasks that signals, sched_block and sched_unblock name
  Windows         \* the points of Points at which the timer lands

\* Where a task's own code stands: outside the scheduler ("user"), in the hlt
\* loop at the end of sched_exit ("halt"), or inside a scheduler function at a
\* point where a timer interrupt makes a difference:
\*   creating     sched_create: slot READY, stack and context not yet stored
\*   waitTested   sched_wait: child found alive, caller not yet BLOCKED
\*   waitResume   sched_wait: CPU regained, child not yet reaped
\*   exiting      sched_exit: marked DEAD, parent not yet notified
\*   exited       sched_exit: parent notified, next task not yet picked
\*   killing      sched_kill: target marked DEAD, its parent not yet notified
\*   suicide      sched_kill on oneself: next task not yet picked
\*   yielding, waiting, leaving
\*                between _pick_next and _switch_to, on the way back to the
\*                caller, to the end of sched_wait, to the hlt of sched_exit
Points == {"user", "halt", "creating", "waitTested", "waitResume", "exiting",
           "exited", "killing", "suicide", "yielding", "waiting", "leaving"}

ASSUME SchedAssumption ==
  /\ MaxTasks \in Nat \ {0}
  /\ NumPrios \in Nat \ {0}
  /\ Timeslice \in Nat \ {0}
  /\ ReapPeriod \in Nat \ {0}
  /\ TaskPrios \subseteq 0 .. NumPrios - 1
  /\ SleepTicks \subseteq Nat
  /\ Windows \subseteq Points
  /\ Targets \subseteq 0 .. MaxTasks - 1

Tid     == 0 .. MaxTasks - 1
Idle    == 0
NoTid   == -1
Prio    == 0 .. NumPrios - 1
Signals == {"TERM", "USR"}   \* TERM stands for TERM and INT, USR for the rest

States == {"FREE", "READY", "RUNNING", "BLOCKED", "SLEEPING", "DEAD"}

VARIABLES
  state,     \* tasks[t].state
  prio,      \* tasks[t].priority
  parent,    \* tasks[t].parent_tid
  waitTid,   \* tasks[t].wait_tid
  slice,     \* tasks[t].timeslice
  wakeIn,    \* how far tasks[t].wake_tick lies ahead of tick_count
  stack,     \* tasks[t].stack_base is an allocated stack
  pending,   \* tasks[t].sig_pending
  masked,    \* tasks[t].sig_blocked
  handled,   \* the signals whose handler is SIG_IGN or a function that returns
  current,   \* current_tid
  phase,     \* tick_count modulo ReapPeriod
  isr,       \* IRQ0 in service: the controller withholds timer interrupts
  inIrq,     \* t is suspended inside irq0_handler and owes the EOI
  pc,        \* the point t's code stands at
  arg,       \* the tid that the function t is in works on
  next       \* the task _pick_next chose for t, while t is about to switch

sigVars  == <<pending, masked, handled>>
cpuVars  == <<current, isr, inIrq>>
codeVars == <<pc, arg, next>>
taskVars == <<state, prio, parent, waitTid, slice, wakeIn, stack>>
vars     == <<taskVars, sigVars, cpuVars, codeVars, phase>>

----------------------------------------------------------------------------
(* _pick_next *)

DistanceFromZero(t) == t + 1              \* mutant: the scan starts at slot 0

\* Steps of the round-robin scan from current to t; current itself comes last.
Distance(t) == IF t > current THEN t - current ELSE t - current + MaxTasks

\* mutants: a slot is taken unless it is known not to be runnable; the dead run on
Ready(st)    == {t \in Tid : st[t] = "READY"}
TopReady(st) == {t \in Ready(st) : \A u \in Ready(st) : prio[u] <= prio[t]}

PickNext(st) ==
  IF Ready(st) # {}
  THEN CHOOSE t \in TopReady(st) : \A u \in TopReady(st) : Distance(t) <= Distance(u)
  ELSE IF st[Idle] = "RUNNING" THEN Idle ELSE current

\* mutants of the switch: the old task stays RUNNING; the resumed frame's EOI is
\* not accounted for; the EOI is sent before sched_tick
SwitchKeepsRunning(st, sl, to, fromIrq) ==
  /\ state' = [st EXCEPT ![to] = "RUNNING"]
  /\ slice' = [sl EXCEPT ![to] = Timeslice]
  /\ current' = to
  /\ inIrq' = [inIrq EXCEPT ![current] = fromIrq /\ to # current, ![to] = FALSE]
  /\ isr' = (~inIrq[to] /\ (isr \/ (fromIrq /\ to # current)))

SwitchForgetsFrame(st, sl, to, fromIrq) ==
  IF to = current
  THEN /\ state' = st
       /\ slice' = sl
       /\ UNCHANGED cpuVars
  ELSE /\ state' = [st EXCEPT ![current] = IF @ = "RUNNING" THEN "READY" ELSE @,
                              ![to] = "RUNNING"]
       /\ slice' = [sl EXCEPT ![to] = Timeslice]
       /\ current' = to
       /\ inIrq' = [inIrq EXCEPT ![current] = fromIrq]
       /\ isr' = (isr \/ fromIrq)

SwitchAfterEoi(st, sl, to, fromIrq) ==
  /\ IF to = current THEN state' = st
     ELSE state' = [st EXCEPT ![current] = IF @ = "RUNNING" THEN "READY" ELSE @,
                              ![to] = "RUNNING"]
  /\ slice' = IF to = current THEN sl ELSE [sl EXCEPT ![to] = Timeslice]
  /\ current' = to
  /\ UNCHANGED <<isr, inIrq>>

(* _switch_to: the state changes and the stack swap.  A task resumed inside *)
(* irq0_handler sends its EOI; a fresh one, or one that gave the CPU up     *)
(* itself, does not.                                                        *)
SwitchTo(st, sl, to, fromIrq) ==
  IF to = current
  THEN /\ state' = st
       /\ slice' = sl
       /\ UNCHANGED cpuVars
  ELSE /\ state' = [st EXCEPT ![current] = IF @ = "RUNNING" THEN "READY" ELSE @,
                              ![to] = "RUNNING"]
       /\ slice' = [sl EXCEPT ![to] = Timeslice]
       /\ current' = to
       /\ inIrq' = [inIrq EXCEPT ![current] = fromIrq, ![to] = FALSE]
       /\ isr' = (~inIrq[to] /\ (isr \/ fromIrq))

\* mutant: the wait_tid of the child is looked at instead of the parent's
WakesWrongWait(st, t) ==
  parent[t] \in Tid /\ st[parent[t]] = "BLOCKED" /\ waitTid[t] = parent[t]

\* Marking t DEAD wakes a parent that is blocked waiting for t.
WakesParent(st, t) ==
  /\ parent[t] \in Tid
  /\ st[parent[t]] = "BLOCKED"
  /\ waitTid[parent[t]] = t

NotifiedState(st, t) ==
  IF WakesParent(st, t) THEN [st EXCEPT ![parent[t]] = "READY"] ELSE st

NotifiedWait(st, t) ==
  IF WakesParent(st, t) THEN [waitTid EXCEPT ![parent[t]] = NoTid] ELSE waitTid

----------------------------------------------------------------------------
(* sched_init *)
Init ==
  /\ state   = [t \in Tid |-> IF t = Idle THEN "RUNNING" ELSE "FREE"]
  /\ prio    = [t \in Tid |-> 0]
  /\ parent  = [t \in Tid |-> NoTid]
  /\ waitTid = [t \in Tid |-> NoTid]
  /\ slice   = [t \in Tid |-> Timeslice]
  /\ wakeIn  = [t \in Tid |-> 0]
  /\ stack   = [t \in Tid |-> FALSE]
  /\ pending = [t \in Tid |-> {}]
  /\ masked  = [t \in Tid |-> {}]
  /\ handled = [t \in Tid |-> {}]
  /\ current = Idle
  /\ phase   = 0
  /\ isr     = FALSE
  /\ inIrq   = [t \in Tid |-> FALSE]
  /\ pc      = [t \in Tid |-> "user"]
  /\ arg     = [t \in Tid |-> NoTid]
  /\ next    = [t \in Tid |-> NoTid]

\* The task on the CPU calls operation op.
Calls(op) ==
  /\ pc[current] = "user"
  /\ op \in IF current = Idle THEN IdleOps ELSE Ops

Alive(t) == state[t] \notin {"FREE", "DEAD"}

\* The caller moves to point p, or leaves the function it was in.
Goto(p)   == pc' = [pc EXCEPT ![current] = p]
Return    == /\ Goto("user")
             /\ arg' = [arg EXCEPT ![current] = NoTid]
             /\ next' = [next EXCEPT ![current] = NoTid]

\* next = _pick_next(), the task states being st, on the way to point p.
PickThen(st, p) ==
  /\ Goto(p)
  /\ next' = [next EXCEPT ![current] = PickNext(st)]

----------------------------------------------------------------------------
(* sched_create.  The slot becomes READY before its stack and its initial   *)
(* context are stored; until then the previous owner's fields are in it.    *)
CreateBegin ==
  /\ Calls("create")
  /\ \E t \in Tid \ {Idle} :
       /\ state[t] = "FREE"
       /\ \A u \in Tid \ {Idle} : u < t => state[u] # "FREE"
       /\ state' = [state EXCEPT ![t] = "READY"]
       /\ arg' = [arg EXCEPT ![current] = t]
  /\ Goto("creating")
  /\ UNCHANGED <<prio, parent, waitTid, slice, wakeIn, stack, sigVars, cpuVars,
                 phase, next>>

CreateEnd(p) ==
  LET t == arg[current] IN
  /\ pc[current] = "creating"
  /\ prio'    = [prio EXCEPT ![t] = p]
  /\ parent'  = [parent EXCEPT ![t] = current]
  /\ waitTid' = [waitTid EXCEPT ![t] = NoTid]
  /\ slice'   = [slice EXCEPT ![t] = Timeslice]
  /\ wakeIn'  = [wakeIn EXCEPT ![t] = 0]
  /\ stack'   = [stack EXCEPT ![t] = TRUE]
  /\ pending' = [pending EXCEPT ![t] = {}]
  /\ masked'  = [masked EXCEPT ![t] = {}]
  /\ handled' = [handled EXCEPT ![t] = {}]
  /\ inIrq'   = [inIrq EXCEPT ![t] = FALSE]
  /\ pc'      = [pc EXCEPT ![current] = "user", ![t] = "user"]
  /\ arg'     = [arg EXCEPT ![current] = NoTid, ![t] = NoTid]
  /\ next'    = [next EXCEPT ![t] = NoTid]
  /\ UNCHANGED <<state, current, isr, phase>>

(* sched_yield *)
Yield ==
  /\ Calls("yield")
  /\ slice' = [slice EXCEPT ![current] = 0]
  /\ PickThen(state, "yielding")
  /\ UNCHANGED <<state, prio, parent, waitTid, wakeIn, stack, sigVars, cpuVars,
                 phase, arg>>

\* mutant: no switch
SleepWithoutSwitch(ms) ==
  /\ Calls("sleep")
  /\ wakeIn' = [wakeIn EXCEPT ![current] = ms]
  /\ state' = [state EXCEPT ![current] = "SLEEPING"]
  /\ UNCHANGED <<prio, parent, waitTid, slice, stack, sigVars, cpuVars, phase, codeVars>>

(* sched_sleep *)
Sleep(ms) ==
  LET st == [state EXCEPT ![current] = "SLEEPING"] IN
  /\ Calls("sleep")
  /\ wakeIn' = [wakeIn EXCEPT ![current] = ms]
  /\ state' = st
  /\ PickThen(st, "yielding")
  /\ UNCHANGED <<prio, parent, waitTid, slice, stack, sigVars, cpuVars, phase, arg>>

\* What follows the switch when the caller runs again.
AfterSwitch == [yielding |-> "user", waiting |-> "waitResume", leaving |-> "halt"]

(* The call of _switch_to that ends sched_yield, sched_sleep, sched_block,  *)
(* sched_kill of oneself, sched_wait and sched_exit.                        *)
Switch ==
  /\ pc[current] \in {"yielding", "waiting", "leaving"}
  /\ SwitchTo(state, slice, next[current], FALSE)
  /\ Goto(AfterSwitch[pc[current]])
  /\ next' = [next EXCEPT ![current] = NoTid]
  /\ UNCHANGED <<prio, parent, waitTid, wakeIn, stack, sigVars, phase, arg>>

\* mutant: the exiting task frees its own stack
ExitFreesStack ==
  /\ Calls("exit")
  /\ current # Idle
  /\ Goto("exiting")
  /\ state' = [state EXCEPT ![current] = "DEAD"]
  /\ stack' = [stack EXCEPT ![current] = FALSE]
  /\ UNCHANGED <<prio, parent, waitTid, slice, wakeIn, sigVars, cpuVars,
                 phase, arg, next>>

(* sched_exit *)
ExitBegin ==
  /\ Calls("exit")
  /\ IF current = Idle
     THEN Goto("halt") /\ UNCHANGED state
     ELSE Goto("exiting") /\ state' = [state EXCEPT ![current] = "DEAD"]
  /\ UNCHANGED <<prio, parent, waitTid, slice, wakeIn, stack, sigVars, cpuVars,
                 phase, arg, next>>

ExitNotify ==
  /\ pc[current] = "exiting"
  /\ state' = NotifiedState(state, current)
  /\ waitTid' = NotifiedWait(state, current)
  /\ Goto("exited")
  /\ UNCHANGED <<prio, parent, slice, wakeIn, stack, sigVars, cpuVars, phase, arg, next>>

ExitPick ==
  /\ pc[current] = "exited"
  /\ PickThen(state, "leaving")
  /\ UNCHANGED <<taskVars, sigVars, cpuVars, phase, arg>>

(* sched_kill, also reached through sched_signal with SIG_KILL *)
KillBegin(t) ==
  /\ Calls("kill")
  /\ Alive(t) /\ t # Idle
  /\ state' = [state EXCEPT ![t] = "DEAD"]
  /\ Goto("killing")
  /\ arg' = [arg EXCEPT ![current] = t]
  /\ UNCHANGED <<prio, parent, waitTid, slice, wakeIn, stack, sigVars, cpuVars, phase, next>>

KillNotify ==
  LET t == arg[current] IN
  /\ pc[current] = "killing"
  /\ state' = NotifiedState(state, t)
  /\ waitTid' = NotifiedWait(state, t)
  /\ IF t = current THEN Goto("suicide") /\ UNCHANGED <<arg, next>> ELSE Return
  /\ UNCHANGED <<prio, parent, slice, wakeIn, stack, sigVars, cpuVars, phase>>

KillSelf ==
  /\ pc[current] = "suicide"
  /\ PickThen(state, "yielding")
  /\ UNCHANGED <<taskVars, sigVars, cpuVars, phase, arg>>

(* sched_wait *)
MayWaitFor(c) == state[c] # "FREE" /\ parent[c] = current

Reaped(c) ==
  /\ state' = [state EXCEPT ![c] = "FREE"]
  /\ stack' = [stack EXCEPT ![c] = FALSE]

WaitDead(c) ==
  /\ Calls("wait")
  /\ MayWaitFor(c) /\ state[c] = "DEAD"
  /\ Reaped(c)
  /\ UNCHANGED <<prio, parent, waitTid, slice, wakeIn, sigVars, cpuVars, phase, codeVars>>

WaitTest(c) ==
  /\ Calls("wait")
  /\ MayWaitFor(c) /\ state[c] # "DEAD"
  /\ Goto("waitTested")
  /\ arg' = [arg EXCEPT ![current] = c]
  /\ UNCHANGED <<taskVars, sigVars, cpuVars, phase, next>>

WaitBlock ==
  LET st == [state EXCEPT ![current] = "BLOCKED"] IN
  /\ pc[current] = "waitTested"
  /\ waitTid' = [waitTid EXCEPT ![current] = arg[current]]
  /\ state' = st
  /\ PickThen(st, "waiting")
  /\ UNCHANGED <<prio, parent, slice, wakeIn, stack, sigVars, cpuVars, phase, arg>>

WaitReap ==
  /\ pc[current] = "waitResume"
  /\ Reaped(arg[current])
  /\ Return
  /\ UNCHANGED <<prio, parent, waitTid, slice, wakeIn, sigVars, cpuVars, phase>>

(* sched_block, sched_unblock *)
Block(t) ==
  LET st == [state EXCEPT ![t] = "BLOCKED"] IN
  /\ Calls("block")
  /\ state[t] \in {"READY", "RUNNING"}
  /\ state' = st
  /\ IF t = current THEN PickThen(st, "yielding") ELSE UNCHANGED <<pc, next>>
  /\ UNCHANGED <<prio, parent, waitTid, slice, wakeIn, stack, sigVars, cpuVars, phase, arg>>

Unblock(t) ==
  /\ Calls("unblock")
  /\ state[t] = "BLOCKED"
  /\ state' = [state EXCEPT ![t] = "READY"]
  /\ UNCHANGED <<prio, parent, waitTid, slice, wakeIn, stack, sigVars, cpuVars,
                 phase, codeVars>>

----------------------------------------------------------------------------
(* sched_signal: SIG_STOP, SIG_CONT, and the signals that are made pending *)
SigStop(t) ==
  /\ Calls("stop")
  /\ Alive(t)
  /\ state' = IF state[t] \in {"RUNNING", "READY"}
              THEN [state EXCEPT ![t] = "BLOCKED"] ELSE state
  /\ UNCHANGED <<prio, parent, waitTid, slice, wakeIn, stack, sigVars, cpuVars,
                 phase, codeVars>>

SigCont(t) ==
  /\ Calls("cont")
  /\ state[t] = "BLOCKED"
  /\ state' = [state EXCEPT ![t] = "READY"]
  /\ UNCHANGED <<prio, parent, waitTid, slice, wakeIn, stack, sigVars, cpuVars,
                 phase, codeVars>>

SigSend(t, s) ==
  /\ Calls("signal")
  /\ Alive(t)
  /\ pending' = [pending EXCEPT ![t] = @ \cup {s}]
  /\ state' = IF state[t] = "SLEEPING" /\ s \notin masked[t]
              THEN [state EXCEPT ![t] = "READY"] ELSE state
  /\ UNCHANGED <<prio, parent, waitTid, slice, wakeIn, stack, masked, handled,
                 cpuVars, phase, codeVars>>

(* sched_sigaction, sched_sigmask_block *)
SigAction(s) ==
  /\ Calls("sigaction")
  /\ \E h \in {handled[current] \cup {s}, handled[current] \ {s}} :
       handled' = [handled EXCEPT ![current] = h]
  /\ UNCHANGED <<taskVars, pending, masked, cpuVars, phase, codeVars>>

MaskBlock(S) ==
  /\ Calls("sigmask")
  /\ masked' = [masked EXCEPT ![current] = @ \cup S]
  /\ UNCHANGED <<taskVars, pending, handled, cpuVars, phase, codeVars>>

(* sched_deliver_signals to the current task.  Signals are handled in       *)
(* numeric order, TERM before the others; a fatal one ends the loop.        *)
Deliverable(mask) ==
  IF Alive(current) THEN pending[current] \ mask ELSE {}

Fatal(mask) == "TERM" \in Deliverable(mask) /\ "TERM" \notin handled[current]

Delivered(mask) ==
  pending' = [pending EXCEPT
    ![current] = IF Fatal(mask) THEN @ \ {"TERM"} ELSE @ \ Deliverable(mask)]

(* sched_sigmask_unblock: a fatal signal calls sched_exit here and now *)
MaskUnblock(S) ==
  LET mask == masked[current] \ S IN
  /\ Calls("sigmask")
  /\ masked' = [masked EXCEPT ![current] = mask]
  /\ Delivered(mask)
  /\ IF ~Fatal(mask) THEN UNCHANGED <<state, pc>>
     ELSE IF current = Idle THEN Goto("halt") /\ UNCHANGED state
     ELSE Goto("exiting") /\ state' = [state EXCEPT ![current] = "DEAD"]
  /\ UNCHANGED <<prio, parent, waitTid, slice, wakeIn, stack, handled, cpuVars,
                 phase, arg, next>>

----------------------------------------------------------------------------
(* irq0_handler and sched_tick *)

\* mutants: the wake test is an equality; every kind of waiting times out
WokenAtTick(t) == IF state[t] = "SLEEPING" /\ wakeIn[t] = 1 THEN "READY" ELSE state[t]
WokenAny(t) ==
  IF state[t] \in {"SLEEPING", "BLOCKED"} /\ wakeIn[t] <= 1 THEN "READY" ELSE state[t]

\* Sleepers whose wake_tick has come become READY.
Woken(t) == IF state[t] = "SLEEPING" /\ wakeIn[t] <= 1 THEN "READY" ELSE state[t]

\* mutant: the parent is not looked at
ReapableAny(t) == state[t] = "DEAD" /\ t # Idle

\* sched_reap takes t: it is DEAD and no live parent has it as wait_tid.
Reapable(t) ==
  /\ state[t] = "DEAD" /\ t # Idle
  /\ ~(parent[t] \in Tid /\ Alive(parent[t]) /\ waitTid[parent[t]] = t)

ReapNow == (phase + 1) % ReapPeriod = 0

TickState ==
  [t \in Tid |-> IF ReapNow /\ Reapable(t) THEN "FREE" ELSE Woken(t)]

\* The timer lands: outside the scheduler, or at one of the open windows.
TimerLands ==
  /\ ~isr
  /\ pc[current] \in Windows \cup {"user", "halt"}
  /\ phase' = (phase + 1) % ReapPeriod
  /\ wakeIn' = [t \in Tid |-> IF wakeIn[t] > 0 THEN wakeIn[t] - 1 ELSE 0]
  /\ stack' = [t \in Tid |-> stack[t] /\ ~(ReapNow /\ Reapable(t))]
  /\ Delivered(masked[current])
  /\ UNCHANGED <<prio, parent, masked, handled, arg, next>>

\* mutant: timeslice is decremented without the test for zero and wraps round
SliceWraps == IF slice[current] = 0 THEN 2147483647 ELSE slice[current] - 1
SliceLeft  == IF slice[current] > 0 THEN slice[current] - 1 ELSE 0

\* The slice is counted down; when it is used up the next task is picked.
Tick ==
  LET st == TickState IN
  /\ ~Fatal(masked[current])
  /\ TimerLands
  /\ IF SliceLeft > 0
     THEN SwitchTo(st, [slice EXCEPT ![current] = SliceLeft], current, TRUE)
     ELSE SwitchTo(st, [slice EXCEPT ![current] = Timeslice], PickNext(st), TRUE)
  /\ UNCHANGED <<waitTid, pc>>

\* A fatal signal: sched_exit runs inside the interrupt handler and never
\* comes back to the EOI.
TickFatal ==
  LET dead == [TickState EXCEPT ![current] = "DEAD"]
      st   == NotifiedState(dead, current) IN
  /\ Fatal(masked[current])
  /\ current # Idle
  /\ TimerLands
  /\ waitTid' = NotifiedWait(dead, current)
  /\ IF PickNext(st) = current
     THEN /\ state' = st
          /\ isr' = TRUE
          /\ Goto("halt")
          /\ UNCHANGED <<slice, current, inIrq>>
     ELSE /\ SwitchTo(st, slice, PickNext(st), TRUE)
          /\ UNCHANGED pc

TickFatalIdle ==
  /\ Fatal(masked[current])
  /\ current = Idle
  /\ TimerLands
  /\ state' = TickState
  /\ isr' = TRUE
  /\ Goto("halt")
  /\ UNCHANGED <<waitTid, slice, current, inIrq>>

----------------------------------------------------------------------------
\* Steps that finish what the current task began.
Continue ==
  \/ \E p \in TaskPrios : CreateEnd(p)
  \/ Switch
  \/ ExitNotify \/ ExitPick
  \/ KillNotify \/ KillSelf
  \/ WaitBlock \/ WaitReap

\* Operations by which a task gives the CPU up.
GiveUp ==
  \/ Yield
  \/ \E ms \in SleepTicks : Sleep(ms)
  \/ ExitBegin

Other ==
  \/ CreateBegin
  \/ \E t \in Tid : KillBegin(t)
  \/ \E c \in Tid : WaitDead(c) \/ WaitTest(c)
  \/ \E t \in Targets : Block(t) \/ Unblock(t) \/ SigStop(t) \/ SigCont(t)
  \/ \E t \in Targets, s \in Signals : SigSend(t, s)
  \/ \E s \in Signals : SigAction(s)
  \/ \E S \in SUBSET Signals : MaskBlock(S) \/ MaskUnblock(S)

Timer == Tick \/ TickFatal \/ TickFatalIdle

Next == Continue \/ GiveUp \/ Other \/ Timer

Spec == Init /\ [][Next]_vars

\* The timer keeps ticking, and a function of the scheduler that was entered
\* is left: nothing is assumed of the tasks' own code.
TimerSpec == Spec /\ WF_vars(Timer) /\ WF_vars(Continue)

\* Besides, whoever is on the CPU (the idle loop excepted) gives it up one day.
CooperativeSpec == TimerSpec /\ WF_vars(current # Idle /\ GiveUp)


----------------------------------------------------------------------------
(* Properties *)

\* Every field has a value of its range.
TypeOK ==
  /\ state   \in [Tid -> States]
  /\ prio    \in [Tid -> Prio]
  /\ parent  \in [Tid -> Tid \cup {NoTid}]
  /\ waitTid \in [Tid -> Tid \cup {NoTid}]
  /\ slice   \in [Tid -> 0 .. Timeslice]
  /\ wakeIn  \in [Tid -> Nat]
  /\ stack   \in [Tid -> BOOLEAN]
  /\ pending \in [Tid -> SUBSET Signals]
  /\ masked  \in [Tid -> SUBSET Signals]
  /\ handled \in [Tid -> SUBSET Signals]
  /\ current \in Tid
  /\ phase   \in Nat
  /\ isr     \in BOOLEAN
  /\ inIrq   \in [Tid -> BOOLEAN]
  /\ pc      \in [Tid -> Points]
  /\ arg     \in [Tid -> Tid \cup {NoTid}]
  /\ next    \in [Tid -> Tid \cup {NoTid}]

\* No task but the one on the CPU is marked RUNNING, whatever point of the
\* scheduler the timer interrupted and whatever signals were sent: were two
\* RUNNING, _pick_next would never choose the other again.
OnlyCurrentRuns == \A t \in Tid : state[t] = "RUNNING" => t = current

\* The EOI of a timer interrupt is owed by at most one frame, and while one
\* owes it the interrupt is in service: it is never acknowledged twice.
EoiAccounting ==
  /\ \A t \in Tid : inIrq[t] => isr /\ t # current
  /\ \A t, u \in Tid : inIrq[t] /\ inIrq[u] => t = u

\* The timer can come back: it is not in service, or the frame that owes the
\* EOI belongs to a task that _pick_next may choose.
TimerRecoverable ==
  isr => \E t \in Tid : inIrq[t] /\ state[t] = "READY"

\* The timer never lands in a created task.  idle is switched away from inside
\* irq0_handler, owes the EOI from then on, and gives it only when it runs again;
\* until then every timer interrupt is withheld.  (Broken by anything that makes
\* idle give the CPU up by itself.)
TicksOnlyIdle == isr <=> current # Idle

\* The idle task is runnable at any time, so there is always a task to run.
IdleSurvives == state[Idle] \in {"READY", "RUNNING"}

\* The task on the CPU runs on a stack that has not been freed (idle runs on
\* the boot stack).
CurrentHasStack == current # Idle => stack[current]

\* Whoever is live has its stack, unless sched_create is still filling its slot.
LiveHasStack ==
  \A t \in Tid \ {Idle} :
    Alive(t) => stack[t] \/ \E u \in Tid : pc[u] = "creating" /\ arg[u] = t

\* Nobody runs, is switched to, or may be, without a stack of its own.
StacksHeld == CurrentHasStack /\ LiveHasStack

\* sched_reap leaves a zombie alone while its parent is blocked waiting for it.
ZombieHeld ==
  [][Timer => \A c \in Tid : state[c] = "DEAD" /\ WakesParent(state, c)
                             => state'[c] = "DEAD"]_vars

\* A task blocked in sched_wait is released by the death of the child it waits
\* for, and by nothing else.
WokenByChildDeath ==
  [][\A t \in Tid : /\ state[t] = "BLOCKED" /\ waitTid[t] \in Tid
                    /\ state'[t] = "READY"
                    => state'[waitTid[t]] = "DEAD"]_vars

\* A task blocked in sched_wait has a child whose death is still to be
\* announced: the child lives, or its killer is on the way to the notification.
WaiterWillBeWoken ==
  \A p \in Tid : state[p] = "BLOCKED" /\ waitTid[p] \in Tid =>
    \/ Alive(waitTid[p])
    \/ pc[waitTid[p]] = "exiting"
    \/ \E k \in Tid : pc[k] = "killing" /\ arg[k] = waitTid[p]

\* When sched_wait goes on after its switch the child is dead.
ChildDeadOnResume ==
  \A p \in Tid : p = current /\ pc[p] = "waitResume" => state[arg[p]] = "DEAD"

\* Whoever waits for a child will be told of its death, and not before.
WaitersServed == WaiterWillBeWoken /\ ChildDeadOnResume

\* sched_sleep does not come back before its caller has slept.
SleepKeepsOff == pc[current] = "user" => state[current] # "SLEEPING"

\* sched_exit does not come back from its last switch.
ExitNeverReturns == current # Idle => pc[current] # "halt"

\* Who goes to sleep, and who exits, does give the CPU up.
SwitchesAway == SleepKeepsOff /\ ExitNeverReturns

\* A sleeping task wakes.
SleepersWake == \A t \in Tid : (state[t] = "SLEEPING") ~> (state[t] # "SLEEPING")

\* A READY task of the highest priority gets the CPU (or is no longer READY).
TopPriorityRuns ==
  \A t \in Tid : (state[t] = "READY" /\ prio[t] = NumPrios - 1) ~> (state[t] # "READY")

============================================================================
