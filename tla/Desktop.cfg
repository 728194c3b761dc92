SPECIFICATION Spec
CONSTANTS
  MaxWindows = 2
  Frames <- MCFrames
  Places = {0, 1}
  MaxTerms = 2
  MaxLines = 3
  Cols = 3
  CmdMax = 4
  HistSize = 2
  MaxTasks = 3
  Interval = 2
  RenderEvery = 2
  Chime = 2
  Mixes <- MCAll
INVARIANTS
  
  FrameComplete
  TerminalsOK
  Resyncs
  TasksCounted

  
CHECK_DEADLOCK FALSE
