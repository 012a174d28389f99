SPECIFICATION ReplaySpec
CONSTANTS
  MaxLogLines = 5
  MaxBrowsed = 5
  MaxFiles = 2
  MaxRaw = 2
  StoreReplays <- MCStoreReplays
  Filters = {"turn", "tag"}
INVARIANTS
  EventsExact
  GamesExact
  LinesKept
  ShownStep
CHECK_DEADLOCK FALSE
