SPECIFICATION Spec
CONSTANTS
  Scanners = {s1}
  Executors = {e1, e2}
  Targets = {x, y}
  NoTarget = NoTarget
  MaxFds = 2
  MaxDepth = 2
  MaxReservations = 3
  Rates = {0, 1, 3}
  MaxBurst = 2
  MaxClock = 4
  Conns = {c1, c2, c3}
  NoConn = NoConn
  MaxWorkers = 2
  Snapshot <- MCSnapshot
  JobTargets <- MCJobTargets
  Paths <- MCPaths
  PathOrder <- MCPathOrder
  Trees <- MCTrees
  Config <- MCConfig
  ProtectedRoots <- MCRoots
  Bytecode = {"x"}
  CodeCacheNames = {"f"}
  ScanDepth = 3
  MaxCandidates = 4
  MaxOperations = 4
  Now = 2
  MaxChanges = 1
  Users = {0, 10}
  Caches <- MCCaches
  ProbeLimit = 1
  MaxTargets = 2
  MaxGen = 2
  MaxMoves = 1
  Workers = {w1, w2}
  ZoneReads <- MCZones
  Percents = {NoReading, 19, 70}
  Pressures = {NoReading, 2, 10}
  NoReading = NoReading
  Contents <- MCContents
  Default <- MCDefault
  Reloaders = {r1, r2}
  NaN = NaN
  Missing = Missing
  Torn = Torn
  Nothing = Nothing
  MaxGeneration = 3
  MaxEdits = 1
INVARIANTS
  TypeOK
  PermitsExact
  NoLostWakeup
  BurstBounded
  WorkersExact
  PlanExecutable
  PlanKeepsRules
  SnapshotSound
  VerdictSafe
  ConfigSound
PROPERTIES
  WaitEnds
CHECK_DEADLOCK FALSE
