SPECIFICATION FairSpec
PROPERTIES ScansOnlyUnknown Scanned
CONSTANTS
  Containers = {c1, c2}  ImageOf <- TwoImages  Configs <- AllConfigs  Secrets = {"valid", "outdated"}
  MaxEdits = 2  MaxFaults = 1
  c1 = c1  c2 = c2  i1 = i1  i2 = i2  app = app  RepositoryOf <- OneRepository
  Images = {i1, i2}  RegistryCount = 2  HasPrefix <- Prefixes
  Missing = Missing  Unset = Unset  NoJob = NoJob  NoReport = NoReport  Idle = Idle
CHECK_DEADLOCK FALSE
