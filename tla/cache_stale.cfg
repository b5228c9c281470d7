SPECIFICATION Spec
CONSTANTS
  e1 = e1
  e2 = e2
  byId = byId
  byProperty = byProperty
  Entity = {e1, e2}
  Query = {byId}
  Reader = {r1}
  GraphWriter = {g1}
  TemporalWriter = {}
  Members <- MCMembers
  Faulty = FALSE
INVARIANTS ChangeInvalidatesItsQueries
CHECK_DEADLOCK FALSE
