SPECIFICATION Spec
CONSTANTS
  NoOutput = NoOutput
  Jobs = {j1, j2}
  Outputs = {o1}
  Downloads = {j1}
  MaxRestarts = 0
CHECK_DEADLOCK FALSE
INVARIANT DoneKeepsOutput
