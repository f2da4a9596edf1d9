SPECIFICATION Spec
CONSTANTS
  NewLine = NewLine
  Models = {m1, m2}
  Tasks = {t1, t2}
  RingSize = 2
  Retention = 2
  Minute = 2
  MaxNow = 4
  MaxRecords = 3
  MaxClears = 1
  MaxFaults = 0
SYMMETRY Interchangeable
CHECK_DEADLOCK FALSE
INVARIANT
  ClearForgets
