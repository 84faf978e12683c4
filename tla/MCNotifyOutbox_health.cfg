SPECIFICATION Spec
CONSTANTS
  a = a
  b = b
  f = f
  e1 = e1
  e2 = e2
  None = None
  Channels = {a, b}
  Events = {e1}
  Webhook = {}
  Broadcast = {}
  Critical = {}
  Urgent = {}
  Opens = {}
  RuleChannels = {a}
  RuleFallback = b
  QuietHours = FALSE
  Retries = 0
  MaxConcurrent = 2
  FailingAfter = 2
  LongTimes = {"window"}
  Answers = {"ok", "transient"}
  MaxRows = 4
  MaxCrashes = 0
  MaxFaults = 0
  MaxEdits = 1
  MaxTests = 2
  MaxDisturbances = 2
  OpenOf <- NoRecoveries
  ChannelFallback <- NoHandOff
CHECK_DEADLOCK FALSE
PROPERTY HealthSound
