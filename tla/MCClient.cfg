SPECIFICATION ClientSpec
CONSTANTS
  Clients = {1, 2}
  MaxGen = 2
  MaxVersion = 2
  MaxQueued = 1
  MaxFetch = 2
INVARIANTS
  OneChain
  NoLeak
PROPERTIES
  CaughtUp
