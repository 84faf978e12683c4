SPECIFICATION Spec
CONSTANTS
  r1 = r1
  r2 = r2
  d1 = d1
  d2 = d2
  h1 = h1
  h2 = h2
  Rules = {r1}
  Deps = {d1}
  Handlers = {h1, h2}
  Requests = {"plan", "legacy", "approve", "adopt", "edit", "delete", "result"}
  MaxApprovals = 2
  MaxTasks = 2
  MaxLeases = 2
  MaxChanges = 2
  MaxTransitionAttempts = 2
  WriteFaults = {}
  Crashes = {}
  MaxFaults = 0
  MaxCrashes = 0
SYMMETRY Symmetry
PROPERTY FreshLeaseAlone
CHECK_DEADLOCK FALSE
