SPECIFICATION Spec
CONSTANTS
  b1 = b1
  b2 = b2
  a1 = a1
  Basic = {b1}
  Algo = {}
  SnapshotTasks = {"rest"}
  PluginConnected = TRUE
  StrictTime = TRUE
  ExStatuses = {"new","partially_filled","filled"}
  StaleAfter = 1
  MaxClock = 3
  MaxTouch = 1
  MaxFault = 1
  MaxStream = 2
INVARIANTS TypeOK CacheCoherent
PROPERTIES StampMonotone FollowsMachine ClosedStaysClosed
CHECK_DEADLOCK FALSE
