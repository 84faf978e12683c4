SPECIFICATION Spec
CONSTANTS
  a = a
  b = b
  f = f
  e1 = e1
  e2 = e2
  None = None
  Channels = {a, b, f}
  Events = {e1}
  Webhook = {e1}
  Broadcast = {}
  Critical = {e1}
  Urgent = {}
  Opens = {}
  RuleChannels = {a, b}
  RuleFallback = f
  QuietHours = FALSE
  Retries = 1
  MaxConcurrent = 2
  FailingAfter = 9
  LongTimes = {}
  Answers = {"ok", "transient"}
  MaxRows = 4
  MaxCrashes = 1
  MaxFaults = 1
  MaxEdits = 0
  MaxTests = 0
  MaxDisturbances = 1
  OpenOf <- NoRecoveries
  ChannelFallback <- HandsToF
CHECK_DEADLOCK FALSE
 
PROPERTY SettledIsFinal
