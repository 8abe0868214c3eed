CONSTANTS
  a = a
  b = b
  c = c
  d = d
  Keys = {1, 2, 3, 4}
  Values = {a, b, c, d}
  NullValue = NullValue
  NoRow = NoRow
  NoTable = NoTable
  Null = Null
  Configurations <- AllDirections
  InitSources <- Sources
  InitTargets <- Targets
  Versions = {1, 2}
  TaskChunkSize = 2
  BatchSize = 2
  FaultKinds = {"link", "code", "deadlock", "died", "lost"}
  MaxFaults = 1
  Changes <- SomeChanges
  MaxChanges = 1
  MinExpectedRecords = 3
SPECIFICATION Spec
INVARIANTS
  TypeOK
  RunInvariant
  RunCopiesSource
  RunRemovesOrphans
  ReportCountsRows
PROPERTIES
  SyncedRowsStay
  RejectedOnlyOnSharedRows
CHECK_DEADLOCK FALSE
