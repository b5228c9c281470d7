SPECIFICATION Spec
CONSTANTS
  e1 = e1
  e2 = e2
  byId = byId
  byProperty = byProperty
  Entity = {e1, e2}
  Query = {byId}
  Reader = {r1}
  GraphWriter = {g1}
  TemporalWriter = {t1}
  Members <- MCMembers
  Faulty = FALSE
INVARIANTS TypeOK QuietEntryIsCoherent
CHECK_DEADLOCK FALSE
