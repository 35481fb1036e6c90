CONSTANTS
  r1 = r1  r2 = r2
  Reports = {r1, r2}
  TTLs = {0, 2}
  NoReport = NoReport  Idle = Idle
  MaxTime = 4
  MaxWrites = 2
  MaxFaults = 1
SPECIFICATION FairSpec
INVARIANT ExpiryScheduled
PROPERTY ExpiredAreDeleted
CHECK_DEADLOCK FALSE
