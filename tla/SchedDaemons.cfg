SPECIFICATION Spec
CONSTANTS
  MaxTasks = 4
  NumPrios = 2
  TaskPrios = {1}
  Timeslice = 2
  ReapPeriod = 2
  SleepTicks = {1}
  Ops = {"yield", "sleep", "exit", "wait", "create", "kill"}
  IdleOps = {"create"}
  Targets = {1, 2, 3}
  Windows = {"waitTested", "waitResume", "exiting", "exited", "killing", "suicide",
             "yielding", "waiting", "leaving"}
INVARIANTS
  TicksOnlyIdle
  StacksHeld
  WaitersServed
  SwitchesAway
PROPERTIES
  WokenByChildDeath
CHECK_DEADLOCK FALSE
