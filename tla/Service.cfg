SPECIFICATION Spec
CONSTANTS
    EchoTypes = {t}
    NoEcho = NoEcho
    RingCapacity = 2
    MaxChanges = 3
    Clients = {p, q}
    CoreTypes = {t, u}
    NoType = NoType
    MaxChecks = 1
    MaxRequests = 4
    MacosBuilds = {TRUE, FALSE}
    LogCapacity = 2
    MaxLogLines = 3
    MaxIpcCalls = 2
CHECK_DEADLOCK FALSE
INVARIANTS
  QuiescentClientIsCurrent
  LegacyIsCurrent
  NoCoreAfterShutdown
  EchoMatchesCore
  ChecksAccounted
  AnswersFaithful
PROPERTIES
  ClientConverges
  ShutdownCompletes
