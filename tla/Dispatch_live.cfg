SPECIFICATION LiveSpec
CONSTANTS
  Trades = {1,2}
  SymbolOf <- MCSymbolOf
  Permits = 1
  Callers = {"fallback"}
  MaxLight = 1
  MaxFaults = 1
  MaxCalls = 1
INVARIANTS Balanced BackfillComplete
PROPERTIES Drains 
CHECK_DEADLOCK FALSE
