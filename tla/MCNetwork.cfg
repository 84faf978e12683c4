SPECIFICATION Spec
CONSTANTS
  None = None
  \* NetPolicyFlow
  Intents = {"i1"}
  PolApprovals = {"a1"}
  PolCalls = {"c1", "c2"}
  MaxFleet = 1
  MaxWrites = 2
  AutoRules = {"queue"}
  DailyCap = 1
  \* LineChain
  Lines = {"l1", "l2"}
  NodeOf <- ChainNodeOf
  ChainApprovals = {"a1", "a2"}
  MaxEdits <- ChainEdits
  HandEdits = 0
  AppendFails = FALSE
  \* ProxyCore
  PxcInbounds = {"i"}
  PxcUsers = {"u"}
  PxcPorts = {1}
  PxcManaged = {"u"}
  PxcManagers = {"systemd", "none"}
  MaxPxcOps = 4
  MaxPxcPlans = 2
  MaxPxcKills = 1
  \* LineUsers
  LuUsers = {"u"}
  LuLines = {"l"}
  LuMigrated = {"u"}
  LuByName = TRUE
  MaxLuOps = 3
  MaxLuPlans = 2
  MaxLuCreds = 1
  \* UsageMeter
  UseLines = {"l", "m"}
  UseUsers = {"u"}
  UseMonthly = {}
  UseLimit = 1
  UseDayLen = 1
  UsePeriod = 2
  UseHoldMax = 0
  UseRetention = 1
  UseStale = 0
  UseNamed = {"l"}
  UseEdges <- MCUseEdges
  UseWho <- MCUseWho
  UseCred <- MCUseNone
  UseSub <- MCUseSub
  UseExpires <- MCUseExp
  UseSplits = {TRUE}
  UseRebinds = FALSE
  MaxUseNow = 1
  MaxUseBytes = 1
  MaxUseFaults = 1
  \* DnsPublish
  DnsNames = {"a", "h"}
  DnsHost = "h"
  DnsTargets = {"t"}
  DnsPorts = {853, 443}
  DnsEdits = {"kind"}
  DnsParts = {"ddns", "deploy", "geo"}
  DnsOverlap = FALSE
  MaxDnsIps = 1
  MaxDnsOps = 3
  MaxDnsFaults = 1
  \* TerminalBroker
  Terminals = {"s1", "s2"}
  TerminalNodes = {"n1"}
  Browsers = {"b1", "b2"}
  Dials = {"d1", "d2"}
  MaxActivePerNode = 1
  MaxSessions = 1
  InPlay <- TerminalsInPlay
INVARIANTS
  PolicyFlowHolds
  
  
PROPERTIES
  ImplementsLineGraph
  ChainHolds
  LineUsersHold
  
  TerminalsHold
CHECK_DEADLOCK FALSE
