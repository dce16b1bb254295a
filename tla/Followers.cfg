SPECIFICATION FairSpec
CONSTANTS
  Ids = {i1}
  Owners = {o1, o2}
  Callers = {p1, p2}
  Scenarios <- AllScenarios
  MaxEntries = 1
  MaxGen = 2
  MaxRev = 2
  MaxStream = 1
INVARIANTS EntriesExact
PROPERTIES WaitsEnd
CHECK_DEADLOCK FALSE
