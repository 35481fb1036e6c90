SPECIFICATION Spec
INVARIANTS HashIdentifiesResults OneCheckPerPolicy
CONSTANTS
  Policies = {p1, p2}  Libraries = {l1}  Colliding <- SameName
  Kinds = {Pod, Role}  WorkloadKinds = {Pod}  KindLists <- Lists
  Scripts = {both, minor, list, broken}  MaxEdits = 4
  p1 = p1  p2 = p2  l1 = l1  deny = deny  both = both  mixed = mixed  minor = minor  list = list
  broken = broken  Pod = Pod  Role = Role
  Meaning <- Meanings
  NoReport = NoReport  NoJob = NoJob  Error = Error
CHECK_DEADLOCK FALSE
