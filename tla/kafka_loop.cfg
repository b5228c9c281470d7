SPECIFICATION FairSpec
CONSTANTS
  Consumer = {c1, c2}
  BatchSize = 2
  Poison = {1}
  MaxMessages = 3
  MaxInterruptions = 2
INVARIANTS TypeOK IInv NeverSkippedUntried
PROPERTIES EveryMessageIsTried
CHECK_DEADLOCK FALSE
