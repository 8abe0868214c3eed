SPECIFICATION FairSpec
CONSTANTS
  a = a  b = b
  Keys = {1, 2, 3, 4}
  Values = {a, b}
  NoRow = NoRow  NoTable = NoTable
  ChunkValue <- SharedValue
  ScopeValue <- SharedValue
  InitSources <- AllRows
  InitTargets <- SomeRows
  UseDynamicTasks = TRUE
  TaskChunkSize = 2
  BatchSize = 2
  DeleteMissing = TRUE
  FaultKinds = {"source", "target"}
  MaxFaults = 1
  MaxChanges = 1
INVARIANTS TypeOK RunCopiesSource KeysInvariant RunInvariant
PROPERTIES DeletesOnlyMissing TargetCatchesUp
CHECK_DEADLOCK FALSE
