CONSTANTS
  g1 = g1  g2 = g2  k1 = k1  k2 = k2  v1 = v1  v2 = v2  p = p  q = q  c = c
  Missing = Missing  NoTuple = NoTuple
  Goroutines = {g1, g2}
  Keys = {k1, k2}
  Values = {v1}
  Originals = {p, q}
  Children = {c}
  CacheSize = 1
  MaxReads = 3
SPECIFICATION Spec
INVARIANTS ReadIsReported DuplicatesExplained OnlyAccessedIsExact
SYMMETRY Interchangeable
CHECK_DEADLOCK FALSE
