------------------------------- MODULE TaskPool -------------------------------
(***************************************************************************)
(* kernel/tasks.c: the pool of cooperative tasks, as operators on            *)
(* [pool, count, i], i the loop variable of tasks_tick.                      *)
(***************************************************************************)
EXTENDS Integers, FiniteSets, FiniteSetsExt

CONSTANTS
  MaxTasks,  \* MAX_TASKS
  Interval   \* of a periodic task, and the delay of a one-shot, in ticks

ASSUME TaskAssumption == MaxTasks \in Nat /\ Interval \in Nat

NoTask == [active |-> FALSE, oneshot |-> FALSE, due |-> 0, ran |-> FALSE]
NoTasks == [pool |-> [i \in 0 .. MaxTasks - 1 |-> NoTask], count |-> 0, i |-> 0]

Active(k) == {i \in DOMAIN k.pool : k.pool[i].active}
Idle(k) == DOMAIN k.pool \ Active(k)

\* task_create, task_create_oneshot
TaskCreate(k, oneshot) ==
  IF Idle(k) = {} THEN k
  ELSE [k EXCEPT !.count = @ + 1,
                 !.pool[Min(Idle(k))] = [active |-> TRUE, oneshot |-> oneshot, ran |-> FALSE,
                                         due |-> IF oneshot THEN Interval ELSE 0]]

\* task_remove.  Mutant: of a task that has gone as well
RemoveAgain(k, i) == [k EXCEPT !.pool[i].active = FALSE, !.count = @ - 1]
TaskRemove(k, i) ==
  IF i \in Active(k) THEN [k EXCEPT !.pool[i].active = FALSE, !.count = @ - 1] ELSE k

\* tasks_tick: time goes on; then each task that is due, in turn
Elapse(k) ==
  [k EXCEPT !.i = 0,
            !.pool = [i \in DOMAIN k.pool |-> [k.pool[i] EXCEPT !.due = Max({0, @ - 1})]]]
Due(k) == {i \in Active(k) : i >= k.i /\ k.pool[i].due = 0}

\* What a callback of task i does: nothing, or one call of the API.  A one-shot does
\* not remove itself.
Callbacks(k, i) ==
  {k, TaskCreate(k, TRUE), TaskCreate(k, FALSE)}
    \cup {TaskRemove(k, j) : j \in {j \in DOMAIN k.pool : j # i \/ ~k.pool[i].oneshot}}

\* After the callback, from c, what it has left
Ran(c, i) ==
  IF c.pool[i].oneshot
  THEN [c EXCEPT !.i = i + 1, !.pool[i].ran = TRUE, !.pool[i].active = FALSE, !.count = @ - 1]
  ELSE [c EXCEPT !.i = i + 1, !.pool[i].ran = TRUE, !.pool[i].due = Interval]

=============================================================================
