SPECIFICATION FairSpec
CONSTANTS
  a = a
  b = b
  f = f
  e1 = e1
  e2 = e2
  None = None
  Channels = {a}
  Events = {e1, e2}
  Webhook = {}
  Broadcast = {}
  Critical = {}
  Urgent = {}
  Opens = {e1}
  RuleChannels = {a}
  RuleFallback = None
  QuietHours = TRUE
  Retries = 1
  MaxConcurrent = 2
  FailingAfter = 9
  LongTimes = {}
  Answers = {"ok", "transient", "permanent"}
  MaxRows = 3
  MaxCrashes = 1
  MaxFaults = 1
  MaxEdits = 0
  MaxTests = 0
  MaxDisturbances = 2
  OpenOf <- Recovers
  ChannelFallback <- NoHandOff
CHECK_DEADLOCK FALSE
PROPERTY QuietSound
