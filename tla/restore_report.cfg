SPECIFICATION Spec
CONSTANTS
  Jobs = {j1, j2}
  CA = {c}
  PVA = {p, q}
  Bare = {b}
  ReadOnly = {c}
  Fallback = TRUE
  Selections = {{b, c, p}}
  ChunkSize = 2
  Listed = 1
  MaxTries = 2
  Faults = {"put", "batch", "database", "timeout", "worker", "api", "enqueue", "delete", "operator"}
  MaxFaults = 1
  All = All
  Operator = Operator
  j1 = j1
  j2 = j2
  p = p
  q = q
  b = b
  c = c
CHECK_DEADLOCK FALSE
CONSTRAINT OneOfAll
SYMMETRY InterchangeableJobs
INVARIANTS
  TypeOK
  EveryWriteHasAnOutcome
  RestoredUnlessOverwritten
  ReportIsComplete
  AbandonedIsCompleted
