SPECIFICATION MCSpec
CONSTANTS
  Width = 3
  PauseThreshold = 6
  ResumeThreshold = 2
  HighWatermark = 5
  Rates = {0, 2, 3}
  TicksPerSecond = 4
  MaxBytes = 3
  MaxTicks = 7
INVARIANTS HoldsAtMostWatermark PauseIsExact WithinRate WaitIsEnough
