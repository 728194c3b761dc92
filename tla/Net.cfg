SPECIFICATION HttpSpec
CONSTANTS
  Ring = 1
  ArpSlots = 2
  MaxBinds = 2
  CacheSlots = 2
  MaxRetries = 1
  DefaultTtl = 2
  TsWrap = 2
  MaxNow = 3
  MaxQueries = 4
  Pings = 2
  MaxCmds = 2
  Hosts <- MCHosts
  Leases <- MCLeases
  Answers <- MCAnswers
  Targets = {"gw"}
  Windows = {}
  Mixes = {{"dhcp", "crowd"}, {"resolve", "age"}, {"ping"}, {"wget"}}
  Conns = 1
  Urls = {"b", "nohost"}
  RecvBuf = 2
  RespBuf = 3
  Rounds = 2
  Servers <- MCServers
INVARIANTS
  TablesTrue
  ResolvedTruth
  
  
PROPERTIES
  CommandsEnd
