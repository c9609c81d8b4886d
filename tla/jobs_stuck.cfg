SPECIFICATION Spec
CONSTANTS
  Jobs = {j1}
  Chunks = 1
  MaxTries = 3
  MaxSnaps = 4
  Faults = {"delete"}
  MaxFaults = 1
  j1 = j1
CHECK_DEADLOCK FALSE
INVARIANTS
  AlwaysSettled
