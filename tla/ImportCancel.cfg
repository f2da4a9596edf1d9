SPECIFICATION FairSpec
CONSTANTS
  NoOutput = NoOutput
  Jobs = {j1, j2}
  Outputs = {o1, o2}
  Downloads = {j1}
  MaxRestarts = 0
CHECK_DEADLOCK FALSE
PROPERTY CancelAlways
