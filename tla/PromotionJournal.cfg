SPECIFICATION Spec
CONSTANTS
  NewLine = NewLine
  Labels = {code}
  Tasks = {t1, t2}
  Window = 4
  NMin = 2
  PromoteLb <- LowBar
  DemotePass <- Half
  Soak = 1
  Recent = 2
  MaxJudgments = 2
  MaxFaults = 0
CHECK_DEADLOCK FALSE
INVARIANT
  JudgmentsReplayed
