SPECIFICATION Spec
CONSTANTS
  b1 = b1
  b2 = b2
  a1 = a1
  Basic = {b1}
  Algo = {}
  SnapshotTasks = {"rest"}
  PluginConnected = TRUE
  StrictTime = TRUE
  ExStatuses = {"new","filled"}
  StaleAfter = 1
  MaxClock = 4
  MaxTouch = 0
  MaxFault = 0
  MaxStream = 1
PROPERTIES SweepSparesBasic
CHECK_DEADLOCK FALSE
