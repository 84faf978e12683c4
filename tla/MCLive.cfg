SPECIFICATION LiveSpec
CONSTANTS
  None = None
  \* TaskQueue: two tasks of one target, and no run ever reports back
  Nodes = {"n1"}
  Handlers = {"h1"}
  MaxTasks = 2
  MaxLeases = 4
  MaxAppended = 0
  PollLimit = 1
  MaxTaskLeaseAttempts = 2
  MaxTaskResults = 4
  QueueDeadline = FALSE
  UpdateTasks = {}
  WriteFaults = {}
  Crashes = {}
  MaxFaults = 0
  MaxCrashes = 0
  \* LineChain
  Lines = {"l1", "l2"}
  NodeOf <- ChainNodeOf
  ChainApprovals = {"a1"}
  MaxEdits <- ChainEdits
  HandEdits = 1
  AppendFails = TRUE
  \* TerminalBroker
  Terminals = {"s1", "s2"}
  TerminalNodes = {"n1"}
  Browsers = {"b1", "b2"}
  Dials = {"d1", "d2"}
  MaxActivePerNode = 1
  MaxSessions = 1
  InPlay <- TerminalsInPlay
  \* NetPolicyFlow
  Intents = {"i1"}
  PolApprovals = {"a1"}
  PolCalls = {"c1"}
  MaxFleet = 0
  MaxWrites = 2
  AutoRules = {"queue"}
  DailyCap = 1
  \* AgentInstall
  InstSources = 1
  InstTotal = 2
  Budget = 1
  Connect = 1
  Retries = 0
  MaxAttempts = 2
  MaxInstReboots = 0
  \* AgentUpdate
  UpdApprovals = {"a1"}
  UpdCalls = {"c1"}
  UpdVersions = {1, 2}
  MaxUpdWrites = 2
  \* Incidents
  IncIds = {"i1"}
  Rules = {"r1"}
  QuietRules = {}
  FlapWindow = 0
  FlapsToDamp = 1
  DampEvery = 1
  EscalateAfter = 0
  SweepCrashes = FALSE
  MaxQueue = 1
  \* PluginPool
  Callers = {"c1", "c2"}
  Workers = {"w1"}
  Size = 1
  MaxOverflow = 0
  MaxUses = 1
  CrashThreshold = 1
  Stubborn = FALSE
  \* PluginRuntime
  Invokers = {"i1"}
  MaxGen = 3
  \* SSHGuard
  Requests <- GuardRequests
  MaxArms = 1
  MaxConfirms = 1
  MaxKills = 1
  MaxReboots = 0
  WindowCovers = TRUE
  \* DnsPublish
  DnsNames = {"a"}
  DnsHost = "h"
  DnsTargets = {"t", "s"}
  DnsPorts = {}
  DnsEdits = {}
  DnsParts = {"ddns"}
  DnsOverlap = FALSE
  MaxDnsIps = 3
  MaxDnsOps = 2
  MaxDnsFaults = 1
PROPERTIES
  EveryDebtIsPaid
CHECK_DEADLOCK FALSE
