SPECIFICATION MCSpec
CONSTANTS
  None = None
  Runner = {1, 2}
  Row = {"a", "b"}
  MaxValue = 2
  BatchSize = 2
  MaxRetry = 1
  Environment <- MCEnvironment
  Parts = {"crash"}
CHECK_DEADLOCK FALSE
INVARIANT ReplayRepairs
