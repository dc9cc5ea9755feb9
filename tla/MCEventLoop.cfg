SPECIFICATION FairSpec
CONSTANTS
  None = None
  Intervals = {1, 2}
  MinScreenOff = 1
  RequireOff = TRUE
  RetryInitial = 1
  RetryMax = 2
  MaxTime = 4
  MaxCauses = 2
INVARIANTS
  AttemptInSight
  NoSpinning
  ScreenInSync
  ScreenOnPreempts
PROPERTIES
  ScreenOnNoticed
