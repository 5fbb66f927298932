SPECIFICATION Spec
CONSTANTS
  r1 = r1
  r2 = r2
  c1 = c1
  d1 = d1
  d2 = d2
  Runs = {r1, r2}
  Readers = {c1}
  Deleters = {d1, d2}
  MaxStops = 1
SYMMETRY Symmetry
INVARIANTS
  TypeOK
  ReadersSeeWholeRuns
  ClearedRunsAreGone
PROPERTIES
  ImplementsRunHistory
CHECK_DEADLOCK FALSE
