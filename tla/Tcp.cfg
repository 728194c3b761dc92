SPECIFICATION Spec
CONSTANTS
  BufSize = 2
  MaxRetries = 2
  Roles = {"client", "server"}
  MaxSend = 2
  MaxBytes = 5
  MaxSeg = 2
  Windows = {"sending", "reading"}
INVARIANTS
  StreamKept
  
  
PROPERTIES
  TimersExpire
  ConnectionKept
CHECK_DEADLOCK FALSE
