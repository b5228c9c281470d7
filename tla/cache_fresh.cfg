SPECIFICATION FairSpec
CONSTANTS
  e1 = e1
  e2 = e2
  byId = byId
  byProperty = byProperty
  Entity = {e1, e2}
  Query = {byId, byProperty}
  Reader = {r1}
  GraphWriter = {g1}
  TemporalWriter = {}
  Members <- MCMembers
  Faulty = TRUE
INVARIANTS IInv
PROPERTIES QuietFillNeverGoesBack EventuallyUpToDate
CHECK_DEADLOCK FALSE
