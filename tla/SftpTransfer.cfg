SPECIFICATION Spec
CONSTANTS
  Names = {"a", "b"}
  Handles = {1}
  Target = "a"
  MaxSize = 4
  OtherSize = 2
  kChunkSize = 2
INVARIANTS
  ReturnedMeansDone
  HandleClosed
PROPERTIES
  ImplementsTransfer
