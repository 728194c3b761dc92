SPECIFICATION Spec
CONSTANTS
  MaxNodes = 12
  MaxChildren = 4
  MaxContent = 3
  Short = {"home", "proc", "dev", "a", "b", "src", "main", "uptime", "meminfo", "tasks", "net", "random", "fb0"}
  Long = {"l"}
  BootDirs <- MCBootDirs
  BootFiles <- MCBootFiles
  GenFiles <- MCGenFiles
  NumFds = 4
  MaxPipes = 1
  PipeBuf = 3
  Mixes = {{"makes", "removes", "shell", "apps"}, {"term"},
           {"makes", "removes", "opens", "streams"}, {"opens", "seeks", "streams"},
           {"makes", "removes", "cats"}, {"pipes", "handles", "tables"},
           {"makes", "removes", "opens", "chdirs"}}
  Names = {"a", "l"}
  Paths <- MCPaths
  Datas <- MCDatas
  Counts = {1, 2}
  SeekTo = {0, 1, 3}
  MaxFed = 5
INVARIANTS
  FilesOK
  NamesFindTheirNode
  
PROPERTIES
  WriteKeepsRest
  CatShowsKernel
CHECK_DEADLOCK FALSE
