SPECIFICATION Spec
CONSTANTS
    NoSpec = NoSpec
    Specs = {a, b}
    GracefulSpecs = {b}
    MaxEpoch = 2
    MaxGen = 2
    MaxCrashes = 1
    MaxFaults = 1
    MaxKills = 0
    CallerDrops = FALSE
INVARIANT RetainedIsPublished
CHECK_DEADLOCK FALSE
