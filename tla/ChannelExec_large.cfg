SPECIFICATION FairSpec
CONSTANTS
  Outputs <- LargeOutputs
  ExitCodes = {0}
  Window = 3
  ReadSize = 2
  LinkFaults = {}
PROPERTY
  ExecReturns
CHECK_DEADLOCK FALSE
