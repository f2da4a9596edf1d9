SPECIFICATION Spec
CONSTANTS
  small = small
  twin = twin
  noid = noid
  key = key
  sk = sk
  nosk = nosk
  weights = weights
  absolute = absolute
  relative = relative
  nopath = nopath
  Ids <- MCIds
  NoId = noid
  Keys = {key}
  Values = {sk}
  NoValue = nosk
  Files = {weights}
  Paths <- OnePath
  NoPath = nopath
  FileAt <- MCFileAt
  StaticPath <- MCPath
  ServerPath <- MCPath
  Bodies <- RaceBodies
  CmfBodies <- MCCmfBodies
  Routings <- MCRoutings
  Handlers = {h1, h2}
  MaxRequests = 2
  MaxOverlapping = 2
  MaxCrashes = 0
CHECK_DEADLOCK FALSE
INVARIANT FailedReloadLeavesFile
