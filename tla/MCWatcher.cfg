SPECIFICATION Spec
CONSTANTS
  MaxSessions = 2
  MaxLines = 2
  Capacity = 1
INVARIANTS
  ClosedMeansQuiet
  WholeFromTheStart
PROPERTIES
  StopReturns
  LinesArrive
CHECK_DEADLOCK FALSE
