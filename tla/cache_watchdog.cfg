SPECIFICATION FairSpec
CONSTANTS
  PVs = {x}
  Protocols = {"ca"}
  Setups <- AlsoRequested
  BatchSize = 2
  MaxVal = 2
  MaxFlips = 2
  MaxQueue = 2
  MaxFaults = 1
  x = x
CHECK_DEADLOCK FALSE
INVARIANTS
  DisconnectedIsListed
  PublishedMatchesHash
PROPERTIES
  StaleIsNoticed
  DeadIsNoticed
