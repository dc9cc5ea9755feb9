SPECIFICATION Spec
CONSTANTS
  Procs = {p1, p2}
  NoProc = NoProc
  Paths <- FlatPaths
  Dirs = {}
  Root = ""
  Parent <- FlatParent
  Below <- FlatBelow
  Order <- FlatOrder
  Idents = {i1, i2}
  Absent = Absent
  MaxJob = 1
  MaxAttempt = 1
  MaxOp = 1
  MaxStoreErrors = 0
  MaxAppMoves = 0
  MaxCrashes = 2
  MaxConfigGen = 1
INVARIANTS IntentBeforeMutation ExecutesUnderLock
PROPERTY ImplementsLedger
SYMMETRY MCSymmetry
