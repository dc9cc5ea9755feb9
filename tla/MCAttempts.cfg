SPECIFICATION FairSpec
CONSTANTS
  Procs = {p1}
  NoProc = NoProc
  Paths <- FlatPaths
  Dirs = {}
  Root = ""
  Parent <- FlatParent
  Below <- FlatBelow
  Order <- FlatOrder
  Idents = {i1}
  Absent = Absent
  MaxJob = 2
  MaxAttempt = 2
  MaxOp = 1
  MaxStoreErrors = 1
  MaxAppMoves = 0
  MaxCrashes = 1
  MaxConfigGen = 1
INVARIANT RecoveredIsBacked
PROPERTIES AttemptsStayClosed ReconciliationEnds ExecutionEnds ImplementsLedger
