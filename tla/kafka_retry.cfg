SPECIFICATION Spec
CONSTANTS
  Consumer = {c1}
  BatchSize = 2
  Poison = {1}
  MaxMessages = 4
  MaxInterruptions = 0
INVARIANTS FailedIsRetried
CHECK_DEADLOCK FALSE
