SPECIFICATION Spec
CONSTANTS
  Requests = {r1, r2}
  Methods = {"thread/start"}
  AdmittedIDs = {0}
  MaxThreads = 2
  MaxTurns = 0
  MaxPending = 2
  MaxFaults = 0
SYMMETRY RequestSymmetry
INVARIANT SingleTask
