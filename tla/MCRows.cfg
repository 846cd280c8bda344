SPECIFICATION MCSpec
CONSTANTS
  None = None
  Runner = {1, 2}
  Row = {"a", "b"}
  MaxValue = 2
  BatchSize = 2
  MaxRetry = 1
  Environment <- MCEnvironment
  Parts = {"http", "stream", "consumer", "bulk view", "calc view"}
CHECK_DEADLOCK FALSE
INVARIANTS StoreAgrees DoneIsWhole
PROPERTIES NothingHangs
