SPECIFICATION FairSpec
CONSTANTS
  q1 = q1
  q2 = q2
  n1 = n1
  Requests = {q1}
  Sends = {n1}
  Size <- OneByte
  MaxWrites = 1
  MaxBytes = 3
INVARIANTS RequestsAccounted
PROPERTIES NoExpiredWrite EverythingEnds
CHECK_DEADLOCK FALSE
