\* One behaviour per part beside the manager.
SPECIFICATION Spec
CONSTANTS
  \* record assembler and printed lines
  MaxContinuations = 2
  MaxText = 6
  HeaderBytes = 2
  LineShapes <- ShapeTable
  MaxLines = 4
  Samples <- SampleTable
  DayHours = 24
  MaxInstant = 80
  StepBack = 2
  \* log archive
  Capacity = 1
  MaxBatch = 2
  MaxBytes = 2
  FileBudgets = {1, 2}
  MaxFrames = 3
  MaxSinkRuns = 2
  MaxSinkFaults = 1
  \* configuration changes and the runtime store
  Cases <- CaseTable
  StoreEpochs = {1}
  MaxStages = 3
  MaxStoreFaults = 2
  \* clash API client
  MaxRetries = 2
  ProxyTimeoutMax = 2
  GroupTimeoutMax = 4
  IntervalMax = 5
  BodyCap = 3
  MaxFeed = 3
  \* health tracker
  FailureThreshold = 3
  SuccessThreshold = 2
  CounterMax = 4
  MaxResults = 9
\* Every part is bounded and ends.
CHECK_DEADLOCK FALSE
INVARIANTS
  RecordsFaithful
  HeadersReadBack
  DateFollows
  ArchiveSound
  InPlaceTakesEffect
  OverlapIsSafe
  StoreSound
  ClientSound
  TrackerFollowsHistory
PROPERTIES
  RetentionConverges
  NothingLeftBehind
