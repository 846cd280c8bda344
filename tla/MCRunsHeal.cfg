SPECIFICATION MCSpec
CONSTANTS
  Target = {t1, t2}
  NoTarget = NoTarget
  Heal = {h1}
  Admin = {"flush", "rebuild"}
  Environment <- MCEnvironment
  MaxSwitch = 3
  Runs = {"r1", "r2"}
  None = None
  MaxTicks = 1
  MaxLoads = 1
  Rows = 2
  IngestRun = {1}
  Files <- MCFiles
  Absent = Absent
  Parts = {"heal"}
CHECK_DEADLOCK FALSE
INVARIANT HealedIsActive
