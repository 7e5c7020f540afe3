SPECIFICATION Spec
CONSTANTS
    NoSpec = NoSpec
    Specs = {a, b}
    GracefulSpecs = {b}
    MaxEpoch = 2
    MaxGen = 2
    MaxCrashes = 0
    MaxFaults = 0
    MaxKills = 0
    CallerDrops = TRUE
INVARIANT LiveIsOwned
CHECK_DEADLOCK FALSE
