SPECIFICATION MCSpec
CONSTANTS
  Request = {q1, q2}
  heavyLimit = 1
  lightLimit = 1
  Redis = {t1, t2}
  NumWorkers = 2
  RedisTarget = {"r1", "r2"}
  Producer = {"p1", "p2"}
  RowsOf <- MCRowsOf
  MaxRuntimes = 2
  Cells = 2
  Capacity = 1
  MaxJobs = 2
  MaxSwitch = 1
  Caller = {q1, q2}
  Server = {t1, t2}
  Regime = {low, high}
  Question = {"whole"}
  MaxRetarget = 1
  MaxFlush = 2
  Row <- MCRow
  RiskBucket = {"1", "2"}
  Desk = {"d1", "d2"}
  Book = {"k1", "k2"}
  Region = {"r1", "r2", "r3"}
  RegionOf <- MCRegionOf
  MaxFilters = 2
CHECK_DEADLOCK FALSE
SYMMETRY Symmetry
INVARIANTS
  CountersAreSlots
  ProgressIsOwn
  StaleOnlyByOverlap
  ChargeOfRowsAsked
  ChargeIsKernel
  ChargeIsBounded
  ResumeIsStored
