SPECIFICATION Spec
CONSTANTS
  MaxTasks = 3
  NumPrios = 1
  TaskPrios = {0}
  Timeslice = 1
  ReapPeriod = 2
  SleepTicks = {1}
  Ops = {"create", "yield", "sleep", "exit", "wait", "kill"}
  IdleOps = {"create", "sleep"}
  Targets = {1, 2}
  Windows = {"creating", "waitTested", "waitResume", "exiting", "exited", "killing", "suicide",
             "yielding", "waiting", "leaving"}
INVARIANTS
  TypeOK
  OnlyCurrentRuns
  EoiAccounting

  
CHECK_DEADLOCK FALSE
