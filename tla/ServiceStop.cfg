SPECIFICATION Spec
CONSTANTS
  Platforms = {"windows"}
  Versions = {1, 2}
  MaxLaunches = 2
  MaxFaults = 1
  Clis = {c1}
  MaxCommands = 1
CHECK_DEADLOCK FALSE
PROPERTY StopReachesServer
