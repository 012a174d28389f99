SPECIFICATION Spec
CONSTANTS
  MaxCreates = 3
  MaxTurn = 5
  Places = {1}
  NoStash = NoStash
INVARIANTS
  GameIdentity
  SnapshotsMatchTurns
PROPERTIES
  RestoreSameGame
  AbandonedGameCloses
  RoutedAsPlayed
CHECK_DEADLOCK FALSE
