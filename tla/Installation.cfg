CONSTANTS
  cli = cli  operator = operator
  Procs = {cli, operator}
  Commands <- CLIAndOperator
  Initially <- EmptyOrUpgrade
  OperatorPlugins = {"vulnerability"}
  Idle = Idle
  MaxDisturbances = 1
SPECIFICATION FairSpec
PROPERTIES InstallComplete UninstallRemovesAll RetriesSucceed
CHECK_DEADLOCK FALSE
