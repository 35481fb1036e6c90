CONSTANTS
  n1 = n1
  Nodes = {n1}
  ConcurrentScanJobsLimit = 1
  NoJob = NoJob  NoReport = NoReport  Idle = Idle
  MaxEdits = 2
  MaxFaults = 1
SPECIFICATION FairSpec
PROPERTIES FollowsProtocol Benchmarked NoResultLost
CHECK_DEADLOCK FALSE
