SPECIFICATION FairSpec
CONSTANTS
    FailureThreshold = 1
    SuccessThreshold = 1
    CounterMax = 1
    MaxRuns = 2
    MaxRestarts = 1
    MaxQueue = 1
    HasLiveness = TRUE
    StartPeriod = FALSE
CHECK_DEADLOCK FALSE
INVARIANTS
  AckOnce
  HealthMatchesPid
  StopOkMeansDead
PROPERTIES
  TimedOutNeverReady
  StartupResolves
  ProbeAnswered
  DropEndsInstance
