SPECIFICATION Spec
CONSTANTS
  a1 = a1
  a2 = a2
  b = b
  A = A
  B = B
  f = f
  tpv = tpv
  jan = jan
  feb = feb
  v = v
  w = w
  knows = knows
  owns = owns
  c1 = c1
  c2 = c2
  Consumer = {c1, c2}
  BatchSize = 2
  MaxMessages = 3
  MaxInterruptions = 1
  Entity = {a1, a2, b}
  Reference = {A, B}
  RefOf <- MCRefOf
  LinkType = {knows, owns}
  Period = {jan, feb}
  NoPeriod = NoPeriod
  Field = {f}
  Value <- MCValue
  Null = Null
  NoRow = NoRow
  Series = {tpv}
  PeriodOf <- MCPeriodOf
  Raw = {v, w}
  MaxDate = 1
  NoDate = NoDate
  Incomplete = Incomplete
  Invalid = Invalid
  Offered <- MCOffered
  Faulty = TRUE
INVARIANTS HandledIsStored PassedIsStored NewestWins
PROPERTIES StoresAreCalls
SYMMETRY ConsumerSymmetry
CHECK_DEADLOCK FALSE
