SPECIFICATION Spec
CONSTANTS
    NoSpec = NoSpec
    Specs = {a, b}
    GracefulSpecs = {b}
    MaxEpoch = 3
    MaxGen = 2
    MaxCrashes = 1
    MaxFaults = 1
    MaxKills = 1
    CallerDrops = FALSE
CHECK_DEADLOCK FALSE
INVARIANTS
  OneServingCore
  LiveHasRecord
  LiveIsOwned
  CommittedRevision
  StatusUntilFault
  BackupsUntilFault
PROPERTIES
  ImplementsServingSlot
  QuarantineBlocksLaunch
