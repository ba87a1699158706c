SPECIFICATION LiveSpec
CONSTANTS
  Sockets = {1,2}
  MaxTimers = 2
  MaxChange <- MCMaxChange
  MaxFaults = 2
INVARIANTS NeverStranded 
PROPERTIES Resyncs
CHECK_DEADLOCK FALSE
