SPECIFICATION Spec
CONSTANTS
  Instances = {m1, m2, m3}
  Timely = {m1, m2, m3}
  Components = {"ca", "pva", "wd"}
  TTL = 3
  MaxLate = 1
  MaxFaults = 2
  Nobody = Nobody
  Gone = Gone
  m1 = m1
  m2 = m2
  m3 = m3
SYMMETRY Interchangeable
INVARIANTS
  TypeOK
  OneMonitor
  LeaderHoldsLock
PROPERTIES
  ReleaseOnlyOwn
  ImplementsLease
