SPECIFICATION Spec
CONSTANTS
  Ws = {w1, w2}
  MaxEvents = 2
  BroadcastCap = 1
  UnregCap = 1
  SendCap = 1
INVARIANTS
  ClosedOnce
PROPERTIES
  ImplementsFeed
  HubHoldsNoOne
  EvictedEnd
CHECK_DEADLOCK FALSE
