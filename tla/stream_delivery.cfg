SPECIFICATION FairSpec
CONSTANTS
  Clients = {c1}
  PVs = {x}
  MaxVal = 4
  MaxWire = 2
  MaxOutages = 1
  MaxFailures = 1
  MaxHangups = 1
  SlowClose = FALSE
  NoClient = NoClient
  c1 = c1
  x = x
CHECK_DEADLOCK FALSE
INVARIANTS
  TypeOK
PROPERTIES
  DiffsInOrder
  UpdatesReachClients
