SPECIFICATION FairSpec
CONSTANTS
  Logs = {1, 2}
  Delay = 2
  MaxTime = 6
  MaxReports = 1
  MaxErrors = 1
  Deployments <- MCDeployments
  Quiet = 1
INVARIANTS
  TypeOK
  FeedOrder
  Distribution
  WarningsApart
  TornOnlyByStatus
PROPERTIES
  IntakeGoesOn
  SilenceReported
CHECK_DEADLOCK FALSE
