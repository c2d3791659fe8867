SPECIFICATION Spec
CONSTANTS
  NoFile = NoFile
  Torn = Torn
  Deployers = {d1, d2}
  Services <- MCServices
  Plans <- MCPlans
  Configs <- MCConfigs
  MaxDeploys = 2
INVARIANTS ExecutorTypeOK ReleaseAfterReady SuccessMeansUp FailureRollsBack ForeignRewritesKept
PROPERTIES ReleaseIsWired DeploymentsEnd
CHECK_DEADLOCK FALSE
