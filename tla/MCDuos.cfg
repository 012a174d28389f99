SPECIFICATION DuosSpec
CONSTANTS
  MaxBoard = 2
  MaxFoes = 1
  MaxEntities = 4
  MaxStat = 2
  LastTurn = 3
  MaxCounts = 2
  Base = 1
INVARIANTS
  BoardsOfTheFight
  SplitExact
CHECK_DEADLOCK FALSE
