SPECIFICATION FairSpec
CONSTANTS
  Tasks = {a, b, c}
  MaxQueues = 1
  Capacity = 2
  MaxWaiters = 3
  Names = {x}
  Messages = {m, n}
  NoMsg = none
  Ops = {"create", "destroy", "send", "recv", "trySend", "tryRecv"}
  Windows = {"published", "advanced"}
INVARIANTS
  TypeOK
  NoWakeupLost
  NobodySleepsOnDestroyed
PROPERTIES
  FifoSpec
  ReceiversServed
CHECK_DEADLOCK FALSE
