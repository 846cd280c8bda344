SPECIFICATION MCSpec
CONSTANTS
  Endpoint = {e1}
  Label = {l1}
  Cred = {c1}
  Service = {ingest}
  Stranger = {}
  NoTarget = NoTarget
  MaxSwitch = 3
  MaxAck = 1
  r1 = r1
  r2 = r2
CHECK_DEADLOCK FALSE
INVARIANTS VersionsIdentifyCommits StatusBackedByAnswer
PROPERTIES ImplementsActiveTarget SupersededRecordClosed EverySwitchCommits HandedTargetAsked PoolRecovers
