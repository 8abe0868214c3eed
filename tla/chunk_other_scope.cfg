SPECIFICATION Spec
CONSTANTS
  a = a  b = b
  Keys = {1, 2, 3, 4}
  Values = {a, b}
  NoRow = NoRow  NoTable = NoTable
  ChunkValue <- KeyItself
  ScopeValue <- Backwards
  InitSources <- AllRows
  InitTargets <- SomeRows
  UseDynamicTasks = TRUE
  TaskChunkSize = 2
  BatchSize = 2
  DeleteMissing = TRUE
  FaultKinds = {}
  MaxFaults = 0
  MaxChanges = 0
PROPERTIES DeletesOnlyMissing
CHECK_DEADLOCK FALSE
