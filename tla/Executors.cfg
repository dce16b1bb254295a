SPECIFICATION Spec
CONSTANTS
  Execs = {e1, e2}
  Tasks = {t1}
  Callers = {c1}
  Capacity = 2
  MaxFaults = 3
  None = None
SYMMETRY ExecSymmetry
INVARIANTS RecordsTrue SingleWriter NoTurnKilled
CHECK_DEADLOCK FALSE
