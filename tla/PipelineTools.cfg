SPECIFICATION Spec
CONSTANTS
  cloud = cloud
  local = local
  spare = spare
  none = none
  Models <- MCModels
  NoModel = none
  Tiers <- MCTiers
  HardTiers <- MCHardTiers
  Labels <- MCLabels
  Configs <- MCConfigs
  Asks <- ToolAsks
  Requests = {r1, r2}
  CacheOn = TRUE
  MaxReloads = 1
INVARIANT ToolsHonoured
