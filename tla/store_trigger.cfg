CONSTANTS
  Stores = {"s1", "s2"}
  Dags = {"d1", "d2"}
  Retries = 1
  Configurations <- EveryWay
  MaxCalls = 2
  MaxFaults = 2
  MaxOthers = 1
SPECIFICATION Spec
INVARIANTS
  TypeOK
  SuccessMeansSynced
  FailedRunWasRetried
  SerialOrderKept
  TriggerInvariant
PROPERTIES
  ActiveRunNotReplaced
  CallEnds
CHECK_DEADLOCK FALSE
