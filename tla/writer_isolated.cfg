SPECIFICATION Spec
CONSTANTS
  s1 = s1  s2 = s2  k1 = k1  k2 = k2  k3 = k3
  u1 = u1  u2 = u2  u3 = u3  null = null  v1 = v1  v2 = v2  stg1 = stg1  stg2 = stg2
  Sessions = {s1, s2}
  Keys = {k1, k2, k3}
  UniqueValues = {u1, u2, u3}
  Values = {v1, v2}
  StagingTables = {stg1, stg2}
  StagingTable <- OwnStaging
  Batches <- IsolatedBatches
  InitTargets <- StaleTargets
  NoRow = NoRow  Untouched = Untouched  NoTable = NoTable  NullValue = null
  ResolveUniqueKeys = {s1}
  FilteredIndex = FALSE
  InsertOnly = {s2}
  MaxAttempts = 2
  FaultKinds = {"statement", "commit", "drop", "connection", "crash"}
  MaxFaults = 2
INVARIANTS TypeOK ReportedRowsPresent WriterInvariant
PROPERTIES WritesComeFromOpenCall DeletesOnlyConflicts ImplementsContract FailedCallIsRolledBack InsertOnlyKeepsRows
CHECK_DEADLOCK FALSE
