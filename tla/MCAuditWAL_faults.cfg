SPECIFICATION Spec
CONSTANTS
  Ids = {e1, e2}
  Bodies = {b1, b2}
  Faults = {"anchor", "short", "sync", "torn", "truncate"}
  Crashes = {"kill", "power"}
  MaxRecords = 3
  MaxFaults = 2
  MaxCrashes = 2
SYMMETRY BodySymmetry
INVARIANTS AckedSurvives ShippedStands Reopenable RecordsSound
CHECK_DEADLOCK FALSE
