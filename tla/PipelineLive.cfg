SPECIFICATION FairSpec
CONSTANTS
  cloud = cloud
  local = local
  spare = spare
  none = none
  Models <- MCModels
  NoModel = none
  Tiers <- MCTiers
  HardTiers <- MCHardTiers
  Labels <- MCLabels
  Configs <- LiveConfigs
  Asks <- LiveAsks
  Requests = {r1, r2}
  CacheOn = FALSE
  MaxReloads = 1
PROPERTIES
  EveryRequestSettles
  EveryShadowEnds
