CONSTANTS
  Rows = 3
  BatchSize = 1
  MaxInFlight = 1
  PollEvery = 2
SPECIFICATION Spec
INVARIANT AwaitsWhenSaturated
CHECK_DEADLOCK FALSE
