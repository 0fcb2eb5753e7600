SPECIFICATION Spec
CONSTANTS
  MaxTokens = 4
  Starts <- MCStarts
INVARIANTS
  PayloadIsKept
  RequestIsRunnable
  LoadedIsWhole
  ConnectsAsConfigured
  RefusalHasReason
