SPECIFICATION Spec
CONSTANTS
  a = a
  b = b
  NoId = NoId
  Ids = {a, b}
  Ports = {1, 2}
  Configs <- MCConfigs
  AutoInstall = TRUE
  MaxReloads = 1
  MaxProcs = 3
  MaxDeaths = 1
INVARIANT
  RunningMeansAlive
