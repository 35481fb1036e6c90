CONSTANTS
  p1 = p1  p2 = p2  t1 = t1
  Scans = {p1, p2}
  Targets = {t1}
  TargetOf <- SameTarget
  Private = {t1}
  Timeout = TRUE
  DeleteScanJob = TRUE
  Nobody = Nobody  NoJob = NoJob
  MaxFaults = 1
  MaxUserDeletes = 1
SPECIFICATION FairSpec
INVARIANTS OwnResults JobHasSecret
PROPERTIES ExclusiveAccess Returns
CHECK_DEADLOCK FALSE
