SPECIFICATION Spec
CONSTANTS
  reader = reader
  writer = writer
  Client = {reader, writer}
  Entity = {1, 2, 3}
  Series = {1}
  ThisMonth = 13
  MaxIds = 2
  MaxPoints = 2
  Absent = Absent
  Malformed = Malformed
  Pairs <- MCPairs
  Start <- MCStart
  Offered <- MCOffered
  MaxWrites = 2
  Faulty = TRUE
CHECK_DEADLOCK FALSE
INVARIANTS IInv AnswerIsTheNeighbourhood EveryMatchIsShown NewestPointsStay OnlyCyclesKill
