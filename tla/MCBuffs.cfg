SPECIFICATION Spec
CONSTANTS
  Dnts = {"absolute", "shop", "elemental", "sticker", "beast"}
  Cards = {"c1", "c2"}
  MaxGrowth = 3
  MaxGold = 1
  MaxTurn = 3
  MaxRejoins = 1
INVARIANTS
  BuffsShown
  DeltasAddUp
  
CHECK_DEADLOCK FALSE
