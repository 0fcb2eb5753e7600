SPECIFICATION Spec
CONSTANTS
  Outputs <- SmallOutputs
  ExitCodes = {0, 3, 255}
  Runtimes <- AnyRuntime
INVARIANTS
  SuccessIsComplete
  FailsClosed
  DocumentFaithful
  PlainShownOnceInOrder
