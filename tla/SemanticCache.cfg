SPECIFICATION Spec
CONSTANTS
  Requests = {r1, r2, r3, r4}
  Sigs = {s1}
  Prompts = {p1}
  Embedders = {m1, m2}
  Similarity <- MCSimilarity
  Threshold = 1
  TTL = 0
  MaxEntries = 2
  MaxTime = 1
  MaxReloads = 1
SYMMETRY Interchangeable
CHECK_DEADLOCK FALSE
INVARIANT
  TypeOK
  CountersExact
PROPERTY
  MemoPromise
