CONSTANTS
  RestartTolerance = 1
  OffsetJump = 3
  Smoothing = 2
  MaxLatency = 2
  MaxTime = 13
SPECIFICATION ClockSpec
INVARIANT StampsAreAccurate
