SPECIFICATION FairSpec
CONSTANTS
  p1 = p1  p2 = p2  t1 = t1  t2 = t2  a = a  b = b  c = c  x = x
  Partitions = {p1, p2}
  Keys = {1, 3}
  Values = {a, b, c, x}
  Log <- TwoPartitionLog
  Poison = Poison
  InitTarget <- OldTarget
  Tasks = {t1, t2}
  Assigned <- OneTaskPerPartition
  Suffixes = {"chunk_1", "chunk_2"}
  Suffix <- SuffixPerTask
  NoRow = NoRow  NoTable = NoTable
  BatchSize = 2
  MaxIdlePolls = 2
  MaxMessagesPerRun = 0
  DeleteMissing = FALSE
  FaultKinds = {"kafka", "upsert", "crash"}
  MaxFaults = 2
INVARIANTS TypeOK AtLeastOnce CommittedRowsNotStale DeliveryInvariant
PROPERTIES OffsetsNeverGoBack EverythingGetsCommitted
CHECK_DEADLOCK FALSE
