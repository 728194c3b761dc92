SPECIFICATION CooperativeSpec
CONSTANTS
  MaxTasks = 5
  NumPrios = 1
  TaskPrios = {0}
  Timeslice = 2
  ReapPeriod = 2
  SleepTicks = {0, 2}
  Ops = {"yield", "sleep", "exit"}
  IdleOps = {"create"}
  Targets = {1, 2}
  Windows = {}
PROPERTIES
  SleepersWake
  TopPriorityRuns
CHECK_DEADLOCK FALSE
