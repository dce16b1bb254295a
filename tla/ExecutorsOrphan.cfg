SPECIFICATION FairSpec
CONSTANTS
  Execs = {e1}
  Tasks = {t1}
  Callers = {c1}
  Capacity = 1
  MaxFaults = 3
  None = None
PROPERTIES OrphanReleased
CHECK_DEADLOCK FALSE
