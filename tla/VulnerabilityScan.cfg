CONSTANTS
  w1 = w1  k1 = k1  s1 = s1  s2 = s2  c1 = c1
  Workloads = {w1}
  Kinds = {k1}
  KindOf <- SingleWorkload
  Ignored = {}
  Private = {w1}
  Specs = {s1, s2}  InitSpecs = {s1}
  Containers = {c1}
  ContainersOf <- OneContainer
  ConcurrentScanJobsLimit = 1
  Outputs = {"good", "bad"}
  NoWorkload = NoWorkload  NoJob = NoJob  NoReport = NoReport  Idle = Idle
  MaxEdits = 1
  MaxFaults = 1
SPECIFICATION ResyncSpec
INVARIANTS JobHasSecret LabelledAsScanned
PROPERTIES FollowsProtocol NoResultLost SettledIsStable Converges
