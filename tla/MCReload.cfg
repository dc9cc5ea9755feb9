SPECIFICATION Spec
CONSTANTS
  Procs = {p1}
  NoProc = NoProc
  Paths <- FlatPaths
  Dirs = {}
  Root = ""
  Parent <- FlatParent
  Below <- FlatBelow
  Order <- FlatOrder
  Idents = {i1, i2}
  Absent = Absent
  MaxJob = 1
  MaxAttempt = 2
  MaxOp = 1
  MaxStoreErrors = 0
  MaxAppMoves = 0
  MaxCrashes = 0
  MaxConfigGen = 2
INVARIANT ReloadKeepsCleaning
