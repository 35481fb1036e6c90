CONSTANTS
  c1 = c1  c2 = c2  c3 = c3  k1 = k1  k2 = k2
  Controls = {c1, c2, c3}
  Checks = {k1, k2}
  ScannerOf <- Scanners
  KindsOf <- ControlKinds
  ChecksOf <- ControlChecksOf
  DefaultStatus <- Defaults
  Items <- TwoItems
  ItemScanner <- ItemScanners
  ItemKind <- ItemKinds
  Statuses = {"PASS", "FAIL"}
  FailEntriesLimit = 1
  Period = 2
  NoDetail = NoDetail  Idle = Idle
  MaxTime = 4
  MaxEdits = 1
  MaxFaults = 1
SPECIFICATION FairSpec
INVARIANT FailuresHaveDetails
PROPERTY EveryActivationReports
CHECK_DEADLOCK FALSE
