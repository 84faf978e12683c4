SPECIFICATION Spec
CONSTANTS
  r1 = r1
  r2 = r2
  d1 = d1
  d2 = d2
  h1 = h1
  h2 = h2
  Rules = {r1}
  Deps = {d1, d2}
  Handlers = {h1, h2}
  Requests = {"plan", "approve", "reject", "cancel", "edit", "result"}
  MaxApprovals = 1
  MaxTasks = 1
  MaxLeases = 1
  MaxChanges = 1
  MaxTransitionAttempts = 2
  WriteFaults = {"write", "dirsync"}
  Crashes = {"kill", "power"}
  MaxFaults = 2
  MaxCrashes = 1
SYMMETRY Symmetry
CHECK_DEADLOCK FALSE
INVARIANT GuardSound
PROPERTY AppliedIsCurrent
