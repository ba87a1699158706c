SPECIFICATION Spec
CONSTANTS
  home = home
  other = other
  Home = home
  Accounts <- MCAccounts
  Configured <- MCConfigured
  Levels <- MCFewLevels
  Warn = 2
  Limit = 4
  RecNum = 1
  RecDen = 2
  Faults = {"switch","restart","hello"}
INVARIANT GateOwnState
PROPERTY StickyLimit
