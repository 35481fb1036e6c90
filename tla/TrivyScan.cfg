SPECIFICATION FairSpec
INVARIANT OwnCredentials
PROPERTY Scanned
CONSTANTS
  Containers = {c1, c2}  RegistryOf <- TwoRegistries  Accepts <- NeedLogin  SelfSigned = {quay}
  PodSecrets <- One  AccountSecrets <- Two  SecretContents <- HubSecrets
  Configs <- AllConfigs  InitConfigs <- Initially  SameNamespace = FALSE
  Pods = {p1}  Nodes = {n1, n2}  MaxEdits = 3  MaxFaults = 1
  c1 = c1  c2 = c2  hub = hub  quay = quay  corp = corp  p1 = p1
  n1 = n1  n2 = n2  u1 = u1  u2 = u2  q1 = q1  s1 = s1  s2 = s2
  Registries = {hub, quay, corp}  Extends <- PrefixNames
  Anonymous = Anonymous  Missing = Missing  NoRegistry = NoRegistry
  NoNode = NoNode  NoJob = NoJob  NoReport = NoReport
CHECK_DEADLOCK FALSE
