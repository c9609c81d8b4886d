SPECIFICATION FairSpec
CONSTANTS
  PVs = {x, y}
  Protocols = {"ca"}
  Setups <- Alone
  BatchSize = 2
  MaxVal = 2
  MaxFlips = 2
  MaxQueue = 3
  MaxFaults = 1
  x = x
  y = y
CHECK_DEADLOCK FALSE
INVARIANTS
  TypeOK
PROPERTIES
  ValueNeverRegresses
  CacheCatchesUp
