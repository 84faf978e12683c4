SPECIFICATION Spec
CONSTANTS
  n1 = n1  n2 = n2  h1 = h1  h2 = h2
  Nodes = {n1, n2}
  Handlers = {h1}
  MaxTasks = 1
  MaxLeases = 3
  MaxAppended = 3
  PollLimit = 1
  MaxTaskLeaseAttempts = 2
  MaxTaskResults = 4
  QueueDeadline = FALSE
  UpdateTasks = {}
  WriteFaults = {"write", "dirsync"}
  Crashes = {"kill"}
  MaxFaults = 1
  MaxCrashes = 1
SYMMETRY Symmetry
INVARIANTS OneLiveLease QueueSound
CHECK_DEADLOCK FALSE
