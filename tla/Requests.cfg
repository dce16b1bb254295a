SPECIFICATION MCSpec
CONSTANTS
  c1 = c1
  c2 = c2
  Tasks = {t1}
  Conns = {1, 2, 3}
  Clients = {c1, c2}
  Callings <- AllCallings
  MaxPhase = 2
  EarlyReads = FALSE
  None = None
  Scenarios <- Jobs
  EventKinds = {"switch", "flip", "rebind", "narrow", "fail", "event"}
  Sessions = {1, 2}
  MaxReaders = 1
  MaxStreams = 1
  MaxCached = 1
  MaxUploads = 2
SYMMETRY Exchanged
INVARIANTS ShutdownFinal BoundDispatch WaitsOnTheLiving AnswerInScope AppliedAsAsked NothingHeld
CHECK_DEADLOCK FALSE
