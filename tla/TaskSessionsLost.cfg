SPECIFICATION Spec
CONSTANTS
  c1 = c1
  c2 = c2
  Tasks = {t1}
  Conns = {1, 2}
  Clients = {c1, c2}
  Callings <- PublishingOnly
  MaxPhase = 1
  EarlyReads = FALSE
  None = None
INVARIANTS LostEntryForgotten
CHECK_DEADLOCK FALSE
