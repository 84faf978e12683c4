SPECIFICATION Spec
CONSTANTS
  None = None
  \* Incidents
  IncIds = {"i1"}
  Rules = {"r1"}
  QuietRules = {"r1"}
  FlapWindow = 0
  FlapsToDamp = 1
  DampEvery = 1
  EscalateAfter = 1
  SweepCrashes = TRUE
  MaxQueue = 1
  \* CheckPlans
  ChkNodes = {"a", "b"}
  ChkLegacy = {}
  ChkSpecs <- MCSpecs
  ChkConfigs <- MCConfigs
  ChkCans <- MCCans
  ChkBudget = 1
  ChkPausedMax = 1
  MaxChkOps = 3
  MaxChkFaults = 2
  \* PathHistory
  FineRes = 1
  CoarseRes = 2
  FineDays = {2, 4}
  DefaultDays = 2
  Slack = 0
  CoarseDays = 4
  PerPair = 2
  PerPairJSON = 2
  HistKinds = {"icmp", "tls"}
  HistMaxAge = 1
  SaveEvery = 2
  AlertAfter = 2
  PruneBatch = 1
  HistSpans = {4}
  MaxHistNow = 6
  MaxHistProbes = 3
  MaxHistBuf = 1
  MaxHistOps = 1
  HistSaveFails = FALSE
  HistMidCrash = FALSE
  HistResumes = FALSE
  HistUnkJSON = FALSE
  \* TraceStore
  TrcConn <- TrcConnsDef
  TrcEdges <- TrcEdgesDef
  TrcIPs <- TrcIPsDef
  TrcWindow = 1
  TrcBatches <- TrcBatchesDef
  TrcUploads = {{1}, {1, 2, 3}}
  TrcGens = {1}
  TrcSessions = {"s"}
  TrcMaxActive = 1
  TrcPageSizes = {1, 2}
  TrcMaxPages = 2
  TrcWorkers = 2
  TrcEvicts = {"records"}
  TrcLateResends = FALSE
  MaxTrcOps = 4
  \* HotStore
  HotIds = {"a"}
  HotLegacy = FALSE
  MaxHotOps = 3
  MaxHotCrashes = 2
  \* SubServe
  SubReqs = {"a"}
  MaxSubFetches = 2
  MaxSubOps = 5
  SubJoinerBound = FALSE
  \* SubPlans
  SplProcs = {"p"}
  SplShares = {"s"}
  SplIdents = {"x"}
  SplFirst = {"plain","fleet"}
  MaxSplRev = 4
  MaxSplPlans = 1
  MaxSplOps = 4
INVARIANTS
  IncidentsHold
  HistoryHolds
  HotStoreHolds
  
PROPERTIES
  ChecksHold
  TraceHolds
  
CHECK_DEADLOCK FALSE
