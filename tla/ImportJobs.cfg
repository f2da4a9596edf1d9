SPECIFICATION FairSpec
CONSTANTS
  NoOutput = NoOutput
  Jobs = {j1, j2}
  Outputs = {o1}
  Downloads = {j1}
  MaxRestarts = 1
CHECK_DEADLOCK FALSE
INVARIANT
  TypeOK
  ConverterReachable
  OutputMatchesState
PROPERTY
  ServicePromise
  CancelEffective
