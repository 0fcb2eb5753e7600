SPECIFICATION FairSpec
CONSTANTS
  Outputs <- LargeOutputs
  ExitCodes = {0, 1}
  Window = 3
  ReadSize = 2
  LinkFaults = {"broken", "silent"}
INVARIANTS
  TypeOK
  CompleteOnStatus
  ChannelReleased
  DrainedBeforeExit
PROPERTIES
  ImplementsRemoteExec
  FittingExecReturns
  BrokenLinkEndsExec
CHECK_DEADLOCK FALSE
