SPECIFICATION MCSpec
CONSTANTS
  p1 = p1
  p2 = p2
  o1 = o1
  o2 = o2
  Callers = {c1, c2}
  Budgets <- AllBudgets
  MaxWrites = 2
  MaxQueued = 2
  Requesters = {p1, p2}
  Owners = {o1, o2}
  Scenarios <- AllScenarios
  Accounts = {"s", "t"}
  Efforts = {"low", "high"}
  MaxGen = 3
SYMMETRY CallerSymmetry
INVARIANTS NeverMigrates ConnectionsAccounted DispatchedAsSeen SettingsTrue NoSecondWriter OneSharedLoad
PROPERTIES NoAbandonedWrite
CHECK_DEADLOCK FALSE
