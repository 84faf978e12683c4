SPECIFICATION Spec
CONSTANTS
  None = None
  \* AgentInstall
  InstSources = 2
  InstTotal = 2
  Budget = 1
  Connect = 1
  Retries = 0
  MaxAttempts = 2
  MaxInstReboots = 1
  \* AgentUpdate
  UpdApprovals = {"a1"}
  UpdCalls = {"c1", "c2"}
  UpdVersions = {1, 2}
  MaxUpdWrites = 2
  \* AgentArtifacts
  Digests = {"d1", "d2"}
  PlatformOf <- MCPlatformOf
  ArtReaders = {"r1", "r2"}
  ArtWriters = {"w1", "w2"}
  UpdPlans <- MCUpdPlans
  Preferred = {"m1"}
  Mirrors = {"m1"}
  MirrorHosts = {"h1"}
  StoreCap = 1
  CacheBudget = 1
  MaxInFlight = 2
  MaxSources = 2
  MaxArtWrites = 2
  \* SSHGuard
  Requests <- MCReqs
  MaxArms = 2
  MaxConfirms = 1
  MaxKills = 0
  MaxReboots = 1
  WindowCovers = TRUE
  \* FleetGroups
  GrpNodes = {"n1"}
  GrpIds = {"g1", "g2"}
  GrpPolicies = {"p1"}
  GrpCalls = {1, 2}
  Readable <- MCSee
  MaxNest = 1
  MaxGrpOps = 4
  MaxVersion = 4
  GroupRequests <- MCGroupReq
  PolicyRequests <- MCPolReq
  ParentRequests <- MCParents
  \* Machines
  MacIds = {"m1"}
  MacNodes = {"n1"}
  MacTerms <- MCTerms
  MonthStart <- MCMonths
  OverdueDays = 1
  MaxRollSteps = 6
  DefaultOffsets = {0, 2}
  LastDay = 4
  MaxMacOps = 2
  \* PluginPool
  Callers = {"c1", "c2"}
  Workers = {"w1", "w2"}
  Size = 1
  MaxOverflow = 0
  MaxUses = 2
  CrashThreshold = 1
  Stubborn = TRUE
  \* PluginRuntime
  Invokers = {"i1"}
  MaxGen = 4
INVARIANTS
  InstallHolds
  
  
  MachinesHold
  PoolHolds
  RuntimeHolds
PROPERTIES
  UpdatesHold
  
CHECK_DEADLOCK FALSE
