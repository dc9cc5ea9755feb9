SPECIFICATION Spec
CONSTANTS
  Procs = {p1, p2, p3}
  None = None
  MaxCrashes = 1
  MaxReused = 1
SYMMETRY PidSymmetry
INVARIANTS
  OneHolder
  FilesNameHolder
  StopHitsHolders
  StopLeavesNone
CHECK_DEADLOCK FALSE
