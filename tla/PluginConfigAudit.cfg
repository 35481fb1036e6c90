CONSTANTS
  r1 = r1  s1 = s1  c1 = c1  c2 = c2  c3 = c3  p1 = p1  p2 = p2
  Resources = {r1}
  Specs = {s1}
  Configs = {c1, c2, c3, p1, p2}
  InitConfigs = {c1, p1}
  Applicable = {c1, c2, p1, p2}
  Conftest = {c1, c2, c3}
  Refused <- RefusedOfOne
  ConcurrentScanJobsLimit = 1
  BatchDeleteLimit = 1
  Gone = Gone  NoJob = NoJob  NoReport = NoReport  Idle = Idle
  MaxEdits = 1
  MaxFaults = 1
SPECIFICATION ResyncSpec
INVARIANT JobHasPolicies
PROPERTIES FollowsProtocol Converges
CHECK_DEADLOCK FALSE
