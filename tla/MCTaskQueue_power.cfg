SPECIFICATION Spec
CONSTANTS
  n1 = n1  n2 = n2  h1 = h1  h2 = h2
  Nodes = {n1}
  Handlers = {h1, h2}
  MaxTasks = 1
  MaxLeases = 3
  MaxAppended = 3
  PollLimit = 1
  MaxTaskLeaseAttempts = 2
  MaxTaskResults = 4
  QueueDeadline = TRUE
  UpdateTasks = {1}
  WriteFaults = {"write", "dirsync"}
  Crashes = {"kill", "power"}
  MaxFaults = 2
  MaxCrashes = 2
SYMMETRY Symmetry
INVARIANTS AckedKept
PROPERTIES  StallIsFinal
CHECK_DEADLOCK FALSE
