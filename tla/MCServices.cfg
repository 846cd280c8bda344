SPECIFICATION MCSpec
CONSTANTS
  Run = {1, 2}
  Stop = {k1}
  Probe = {1, 2}
  NoRun = NoRun
  NoTarget = NoTarget
  Environment <- MCEnvironment
  Poller = {1, 2}
  MaxSwitch = 2
  MaxConsumer = 3
  Try = 2
  Endpoint <- MCEndpoint
  Label = {"l1"}
  Cred = {"c1", "c2"}
  CredOf <- MCCredOf
  Follower = {"follower"}
  Poll = {1, 2}
  MaxActivate = 3
  MaxRestart = 1
  Parts = {"lockout", "follow", "swap"}
CHECK_DEADLOCK FALSE
INVARIANTS OnlyLateAnswersUnlock SameVersionSameRedis OneConsumer
PROPERTIES LockReleased FollowersConverge ShardsConverge
