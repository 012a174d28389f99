SPECIFICATION Spec
CONSTANTS
  NumGames = 2
  MaxLog = 5
  MaxFrames = 1
  MaxStarts = 2
INVARIANTS
  NoHistoricSession
PROPERTIES
  FramesKept
  LiveGamesCaptured
CHECK_DEADLOCK FALSE
