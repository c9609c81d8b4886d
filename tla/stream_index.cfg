SPECIFICATION FairSpec
CONSTANTS
  Clients = {c1, c2}
  PVs = {x}
  MaxVal = 2
  MaxWire = 1
  MaxOutages = 0
  MaxFailures = 0
  MaxHangups = 2
  SlowClose = TRUE
  NoClient = NoClient
  c1 = c1
  c2 = c2
  x = x
CHECK_DEADLOCK FALSE
INVARIANTS
  IndexConsistent
PROPERTIES
  BrokenIsForgotten
