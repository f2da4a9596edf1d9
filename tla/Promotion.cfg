SPECIFICATION Spec
CONSTANTS
  NewLine = NewLine
  Labels = {code}
  Tasks = {t1, t2}
  Window = 4
  NMin = 2
  PromoteLb <- LowBar
  DemotePass <- Half
  Soak = 1
  Recent = 2
  MaxJudgments = 5
  MaxFaults = 1
SYMMETRY Slots
CHECK_DEADLOCK FALSE
INVARIANTS
  TypeOK
  ServedWithinLimits
  ServingIsEarned
  RestartChangesNothing
