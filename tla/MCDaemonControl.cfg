SPECIFICATION Spec
CONSTANTS
  Main = Main
  Handlers = {h1, h2}
  MaxRuns = 2
  MaxBatch = 2
  MaxSpawnErrors = 1
SYMMETRY HandlerSymmetry
INVARIANTS
  TypeOK
  CleaningHasOneOwner
  StatusBacked
PROPERTIES
  CancelStands
