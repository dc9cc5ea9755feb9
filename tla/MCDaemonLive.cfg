SPECIFICATION FairSpec
CONSTANTS
  Main = Main
  Handlers = {h1}
  MaxRuns = 2
  MaxBatch = 1
  MaxSpawnErrors = 1
PROPERTIES
  JobEnds
  ShutdownEnds
