SPECIFICATION Spec
CONSTANTS
  MaxTasks = 2
  NumPrios = 1
  TaskPrios = {0}
  Timeslice = 1
  ReapPeriod = 2
  SleepTicks = {1}
  Ops = {"sleep", "signal", "sigmask", "sigaction", "block", "unblock",
         "stop", "cont"}
  IdleOps = {"create", "sleep", "signal"}
  Targets = {0, 1}
  Windows = {"exiting", "yielding"}
INVARIANTS
  EoiAccounting
CHECK_DEADLOCK FALSE
