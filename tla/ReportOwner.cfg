CONSTANTS
  dep = dep  rs = rs  pod1 = pod1  cron = cron  job1 = job1  pod2 = pod2  sts = sts  pod3 = pod3
  fw = fw  pod4 = pod4  scanJob = scanJob
  Objects <- Hierarchies
  Kind <- Kinds
  Name <- Names
  Namespace <- Namespaces
  Controller <- Controllers
  Containers <- ContainersOf
  Managed <- ScanObjects
  CurrentRS <- ReplicaSetOf
  Configs <- AllModes
  ClusterScope = ClusterScope
  MaxLabel = 4
  None = None
  MaxScans = 1
  MaxDeletes = 1
SPECIFICATION FairSpec
INVARIANTS OneOwner ScopeRespected ScanThenGet
PROPERTY EveryPodReported
CHECK_DEADLOCK FALSE
