SPECIFICATION Spec
CONSTANTS
  small = small
  twin = twin
  noid = noid
  key = key
  sk = sk
  nosk = nosk
  weights = weights
  absolute = absolute
  relative = relative
  nopath = nopath
  Ids <- MCIds
  NoId = noid
  Keys = {key}
  Values = {sk}
  NoValue = nosk
  Files = {weights}
  Paths <- OnePath
  NoPath = nopath
  FileAt <- MCFileAt
  StaticPath <- MCPath
  ServerPath <- MCPath
  Bodies <- MCBodies
  CmfBodies <- MCCmfBodies
  Routings <- MCRoutings
  Handlers = {h1, h2}
  MaxRequests = 3
  MaxOverlapping = 2
  MaxCrashes = 1
SYMMETRY Slots
CHECK_DEADLOCK FALSE
INVARIANTS
  TypeOK
  LiveServable
  Restartable
  MemoryMatchesDisk
PROPERTY SharedFilesKept
