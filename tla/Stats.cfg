SPECIFICATION Spec
CONSTANTS
  NewLine = NewLine
  Models = {m1, m2}
  Tasks = {t1, t2}
  RingSize = 2
  Retention = 2
  Minute = 2
  MaxNow = 4
  MaxRecords = 3
  MaxClears = 1
  MaxFaults = 1
SYMMETRY Interchangeable
CHECK_DEADLOCK FALSE
INVARIANTS
  TypeOK
  SnapshotExact
  MemoryBounded
  SurvivesRestart
