SPECIFICATION Spec
CONSTANTS
  a1 = a1
  b1 = b1
  b2 = b2
  A = A
  B = B
  f = f
  one = one
  two = two
  knows = knows
  owns = owns
  jan = jan
  w1 = w1
  w2 = w2
  w3 = w3
  Entity = {a1, b1, b2}
  Reference = {A, B}
  RefOf <- MCRefOf
  LinkType = {knows, owns}
  Period = {jan}
  NoPeriod = NoPeriod
  Field = {f}
  Value = {one, two}
  Null = Null
  NoRow = NoRow
  Writer = {w1, w2, w3}
  Requests <- MCRequests
  Faulty = TRUE
INVARIANTS AllInvolvedAreFound
CHECK_DEADLOCK FALSE
