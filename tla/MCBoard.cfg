SPECIFICATION Spec
CONSTANTS
  Cards = {a, b}
  MaxStat = 2
  MaxBoard = 2
  MaxEntities = 4
  MaxForced = 3
  MaxTurn = 4
SYMMETRY Symmetry
INVARIANTS
  RecruitBoardRestored
  StatsRecovered
  SoldExact
CHECK_DEADLOCK FALSE
