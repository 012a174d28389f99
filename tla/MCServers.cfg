SPECIFICATION ServersSpec
CONSTANTS
  Requests = {r1, r2}
  FanOutCap = 1
  SubCap = 1
INVARIANTS
  StoreOutlivesUsers
PROPERTIES
  ShutdownEnds
CHECK_DEADLOCK FALSE
