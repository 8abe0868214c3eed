SPECIFICATION Spec
CONSTANTS
  p1 = p1  p2 = p2  t1 = t1  t2 = t2  a = a  b = b  c = c  x = x
  Partitions = {p1}
  Keys = {1, 2, 3}
  Values = {a, b, c, x}
  Log <- SnapshotLog
  Poison = Poison
  InitTarget <- OldTarget
  Tasks = {t1}
  Assigned <- OneTask
  Suffixes = {"chunk_1"}
  Suffix <- OneSuffix
  NoRow = NoRow  NoTable = NoTable
  BatchSize = 2
  MaxIdlePolls = 2
  MaxMessagesPerRun = 0
  DeleteMissing = FALSE
  FaultKinds = {"lost"}
  MaxFaults = 1
INVARIANTS AtLeastOnce
CHECK_DEADLOCK FALSE
