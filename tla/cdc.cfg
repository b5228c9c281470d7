SPECIFICATION Spec
CONSTANTS
  c1 = c1
  c2 = c2
  Consumer = {c1, c2}
  BatchSize = 2
  MaxMessages = 3
  MaxInterruptions = 1
  Entities <- JustUser
  Edges = {}
  Points <- JustReading
  Field = {"name", "value", "reference_date"}
  u = u
  v = v
  w = w
  d1 = d1
  d2 = d2
  Value = {u, v, w, d1, d2}
  Null = Null
  NoImage = NoImage
  IncludeTables = {"entities", "temporal_properties"}
  Images <- MCImages
  Sightless = {"temporal_properties"}
  Unparsable = {0}
  MaxSecond = 1
  Faulty = TRUE
INVARIANTS IInv PassedIsPublished OrderedUnlessDisturbed ReaderFollowsTheRow
SYMMETRY Symmetry
CHECK_DEADLOCK FALSE
