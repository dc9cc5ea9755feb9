SPECIFICATION Spec
CONSTANTS
  Procs = {p1}
  NoProc = NoProc
  Paths <- MCPaths
  Dirs <- MCDirs
  Root = ""
  Parent <- MCParent
  Below <- MCBelow
  Order <- MCOrder
  Idents = {i1, i2, i3}
  Absent = Absent
  MaxJob = 1
  MaxAttempt = 1
  MaxOp = 2
  MaxStoreErrors = 1
  MaxAppMoves = 1
  MaxCrashes = 1
  MaxConfigGen = 2
INVARIANT TypeOK
SYMMETRY MCSymmetry
INVARIANTS IntentBeforeMutation SuccessIsObserved ReconciledMeansDeleted RemovalAccounted DirAfterContents
