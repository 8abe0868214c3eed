CONSTANTS
  a = a
  b = b
  c = c
  d = d
  Keys = {1, 2, 3, 4}
  Values = {a, b, NullValue}
  NullValue = NullValue
  NoRow = NoRow
  NoTable = NoTable
  Null = Null
  Configurations <- OneTask
  InitSources <- NullSources
  InitTargets <- NullTargets
  Versions = {1, 2}
  TaskChunkSize = 2
  BatchSize = 1
  FaultKinds = {"link", "code", "deadlock", "died", "lost"}
  MaxFaults = 0
  Changes = {}
  MaxChanges = 0
  MinExpectedRecords = 3
SPECIFICATION Spec
INVARIANTS
  RunCopiesSource
CHECK_DEADLOCK FALSE
