SPECIFICATION Spec
CONSTANTS
  p1 = p1  p2 = p2  t1 = t1  t2 = t2  a = a  b = b  c = c  x = x
  Partitions = {p1}
  Keys = {1, 2}
  Values = {a, b, c, x}
  Log <- BrokenLog
  Poison = Poison
  InitTarget <- OldTarget
  Tasks = {t1, t2}
  Assigned <- TwoRunsOfOneChunk
  Suffixes = {"chunk_1"}
  Suffix <- SameSuffix
  NoRow = NoRow  NoTable = NoTable
  BatchSize = 2
  MaxIdlePolls = 2
  MaxMessagesPerRun = 0
  DeleteMissing = TRUE
  FaultKinds = {"kafka", "upsert", "lost", "crash"}
  MaxFaults = 1
INVARIANTS UnreadableNotSkipped RowsComeFromTopic
CHECK_DEADLOCK FALSE
