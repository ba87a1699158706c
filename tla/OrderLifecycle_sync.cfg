SPECIFICATION ScenesSpec
CONSTANTS
  b1 = b1
  b2 = b2
  Basic = {}
  Algo = {a1}
  SnapshotTasks = {}
  PluginConnected = TRUE
  StrictTime = TRUE
  ExStatuses = {"new", "filled", "canceled"}
  StaleAfter = 1
  MaxClock = 3
  MaxTouch = 1
  MaxFault = 1
  MaxStream = 2
PROPERTIES SweepSparesAlgo GhostsLeave
CHECK_DEADLOCK FALSE
