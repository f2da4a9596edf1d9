SPECIFICATION Spec
CONSTANTS
  cloud = cloud
  local = local
  spare = spare
  none = none
  Models <- MCModels
  NoModel = none
  Tiers <- MCTiers
  HardTiers <- MCHardTiers
  Labels <- MCLabels
  Configs <- MCConfigs
  Asks <- MCAsks
  Requests = {r1, r2}
  CacheOn = TRUE
  MaxReloads = 1
SYMMETRY Slots
INVARIANTS
  TypeOK
  PreferenceRespected
  FailureExhaustive
  LedgerExact
  PinDivertedOnlyByLocalOnly
PROPERTY ServicePromise
