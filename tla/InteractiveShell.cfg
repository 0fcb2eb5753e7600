SPECIFICATION FairSpec
CONSTANTS
  MaxTyped = 3
  MaxPrinted = 2
  ReadSize = 2
  InWindow = 2
  OutWindow = 2
  LinkFaults = {"broken", "silent"}
INVARIANTS
  TerminalRestored
  LastWordsShown
  InputNotLost
PROPERTIES
  ShellEndReturns
  EndOfInputReturns
  TypedIsEchoed
CHECK_DEADLOCK FALSE
