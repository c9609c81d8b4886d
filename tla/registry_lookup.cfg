SPECIFICATION Spec
CONSTANTS
  Instances = {i1, i2}
  Clients = {c1, c2}
  PVs = {x}
  KeyTTL = 2
  BeatTTL = 1
  DeadAge = 2
  Overlap = {c1}
  MaxFaults = 1
  NoInstance = NoInstance
  i1 = i1
  i2 = i2
  c1 = c1
  c2 = c2
  x = x
SYMMETRY InterchangeableInstances
INVARIANTS
  TypeOK
  
  LookupComplete
  UnregisteredIsGone
