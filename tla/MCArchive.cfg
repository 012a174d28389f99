SPECIFICATION BothSpec
CONSTANTS
  MaxCreates = 2
  MaxSessions = 2
  MaxTime = 2
  MaxRestarts = 1
  MaxFailures = 1
  MaxGames = 4
  MaxLoads = 1
  PageSize = 1
  DefaultLimit = 2
  Viewed = {1}
  Results <- Kinds
INVARIANTS
  OneEntryPerWholeGame
  StoredUnderOwnID
  HistoryExact
PROPERTIES
  EndedGamesAreStored
CHECK_DEADLOCK FALSE
