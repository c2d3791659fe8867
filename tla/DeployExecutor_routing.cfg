SPECIFICATION Spec
CONSTANTS
  NoFile = NoFile
  Torn = Torn
  Deployers = {d1}
  Services <- MCServices
  Plans <- MCPlans
  Configs <- MCConfigs
  MaxDeploys = 1
INVARIANTS ApiReachesBackend
CHECK_DEADLOCK FALSE
