SPECIFICATION Spec
CONSTANTS
  small = small
  twin = twin
  noid = noid
  key = key
  sk = sk
  nosk = nosk
  weights = weights
  absolute = absolute
  relative = relative
  nopath = nopath
  Ids <- MCIds
  NoId = noid
  Keys = {key}
  Values = {sk}
  NoValue = nosk
  Files = {weights}
  Paths <- TwoPaths
  NoPath = nopath
  FileAt <- AliasFileAt
  StaticPath <- RelativePath
  ServerPath <- MCPath
  Bodies <- MCBodies
  CmfBodies <- MCCmfBodies
  Routings <- MCRoutings
  Handlers = {h1}
  MaxRequests = 3
  MaxOverlapping = 0
  MaxCrashes = 0
CHECK_DEADLOCK FALSE
PROPERTY SharedFilesKept
