SPECIFICATION MCSpec
CONSTANTS
  p1 = p1
  p2 = p2
  p3 = p3
  None = None
  Callers = {p1, p2}
  Clients = {"a", "b"}
  Scenarios <- Bridges
  Requests = {p1, p2, p3}
  Inputs = {"a", "b", "c"}
  Stories <- AllStories
  MaxInputs = 2
  MaxEvents = 4
  MaxBatch = 3
  MaxSessions = 3
  MaxControls = 2
  MaxCreations = 3
  MaxLive = 2
  MaxRows = 3
  MaxText = 4
  MaxTool = 5
  MaxBytes = 9
  MaxRepeats = 1
  ItemLimit = 2
  PageMessages = 2
  PageBytes = 7
  PartUnits = 2
  CacheBytes = 5
  Window = 6
  Anchor = 3
  PageRows = 2
  MaxIds = 3
  MaxPending = 2
  MaxStored = 5
  ReceiptSize = 2
  MaxFaults = 2
INVARIANTS OnceWhileWanted OutcomeTrue EventsOnce AnsweredTruly StopHitsItsTurn Capacity NobodyWaitsOnTheDead RowsTrue WalkExact LoadTrue StoreTrue
CHECK_DEADLOCK FALSE
