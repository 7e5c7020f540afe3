SPECIFICATION Spec
CONSTANTS
  Platforms = {"windows", "linux", "macos"}
  Versions = {1, 2}
  MaxLaunches = 2
  MaxFaults = 1
  Clis = {c1, c2}
  MaxCommands = 2
CHECK_DEADLOCK FALSE
PROPERTIES
  DefinitionUsable
  StopHolds
  ReportsAreTrue
  StopsEnd
  LaunchedServes
