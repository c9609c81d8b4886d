SPECIFICATION FairSpec
CONSTANTS
  Jobs = {j1}
  Chunks = 2
  MaxTries = 3
  MaxSnaps = 5
  Faults = {"service", "database", "timeout", "worker", "api", "enqueue", "delete"}
  MaxFaults = 3
  j1 = j1
CHECK_DEADLOCK FALSE
INVARIANTS
  TypeOK
  CompletedIsWhole
  OneSnapshotPerJob
PROPERTIES
  JobsEnd
