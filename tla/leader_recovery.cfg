SPECIFICATION FairSpec
CONSTANTS
  Instances = {m1, m2}
  Timely = {}
  Components = {"ca", "wd"}
  TTL = 3
  MaxLate = 1
  MaxFaults = 2
  Nobody = Nobody
  Gone = Gone
  m1 = m1
  m2 = m2
INVARIANTS
  LockExpires
  ReleasedIsFree
PROPERTIES
  Recovery
