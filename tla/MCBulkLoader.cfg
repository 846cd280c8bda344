SPECIFICATION MCSpec
CONSTANTS
  b1 = b1
  b2 = b2
  Endpoint = {e1, e2}
  Label = {l1}
  Cred = {c1}
  NoTarget = NoTarget
  NumWorkers = 2
  BatchSize = 2
  HighWater = 3
  MaxRetries = 2
  Body = {b1, b2}
  RowsOf <- MCRowsOf
  Malformed <- MCMalformed
  MaxPosts = 1
  MaxSwitches = 1
CHECK_DEADLOCK FALSE
INVARIANTS InFlightIsHeld AcceptedIsKept FailsLoud
PROPERTIES RowsSettle FollowsOrRefuses
