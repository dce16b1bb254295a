SPECIFICATION FairSpec
CONSTANTS
  Requests = {r1, r2}
  Methods = {"thread/start", "turn/start", "turn/steer", "thread/archive"}
  AdmittedIDs = {0, 1}
  MaxThreads = 1
  MaxTurns = 1
  MaxPending = 2
  MaxFaults = 1
INVARIANTS TypeOK ReleasedOnlyIdle
PROPERTIES ImplementsLifetime EventuallyRetires
CHECK_DEADLOCK FALSE
