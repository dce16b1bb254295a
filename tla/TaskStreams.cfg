SPECIFICATION FairSpec
CONSTANTS
  t1 = t1
  t2 = t2
  v1 = v1
  v2 = v2
  Tasks = {t1, t2}
  Views = {v1, v2}
  MaxSubscribers = 2
  MaxStreams = 1
  MaxVersion = 2
  MaxFaults = 2
  Scenarios <- AllScenarios
INVARIANTS StreamsOwned NoLostChange
PROPERTIES Fresh
CHECK_DEADLOCK FALSE
