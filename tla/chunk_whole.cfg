SPECIFICATION Spec
CONSTANTS
  a = a  b = b
  Keys = {1, 2, 3}
  Values = {a, b}
  NoRow = NoRow  NoTable = NoTable
  ChunkValue <- SharedValue
  ScopeValue <- SharedValue
  InitSources <- AllButTwo
  InitTargets <- OldRows
  UseDynamicTasks = FALSE
  TaskChunkSize = 2
  BatchSize = 2
  DeleteMissing = TRUE
  FaultKinds = {"source", "target", "lost"}
  MaxFaults = 2
  MaxChanges = 2
INVARIANTS RunRemovesOrphans RunInvariant
CHECK_DEADLOCK FALSE
