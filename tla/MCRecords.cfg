SPECIFICATION MCSpec
CONSTANTS
  x1 = x1
  x2 = x2
  y1 = y1
  y2 = y2
  Worlds <- MCWorlds
  Runs = {x1, x2}
  Rows = 2
  Admins = {"a1"}
  Endpoint = {x1, x2}
  Label = {"l1"}
  Cred = {y1, y2, NoPassword}
  Service = {"ingest"}
  Stranger = {}
  NoTarget = NoTarget
  MaxSwitch = 3
  MaxAck = 0
  Profile = {"p1", "p2"}
  Absent = Absent
  NoPassword = NoPassword
  MaxEdit = 2
  Boots = {y1, y2}
  Nodes = {x1, x2}
  Schemas = {"a", "b"}
  ClassesOf <- MCClassesOf
  Modes = {"on"}
  Slim = TRUE
  MaxBoots = 2
  MaxFails = 1
  MaxTurns = 1
CHECK_DEADLOCK FALSE
SYMMETRY Symmetry
INVARIANTS ServedIndexIsSound EndedIsOver RemovedIsDrained FlushedUnlessForced StoreAndTargetAgree
PROPERTIES ShownNeverFalls TerminalIsFinal LockoutHolds
