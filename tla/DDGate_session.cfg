SPECIFICATION LiveSpec
CONSTANTS
  home = home
  other = other
  Home = home
  Accounts <- MCAccounts
  Configured <- MCConfigured
  Levels <- MCLevels
  Warn = 2
  Limit = 4
  RecNum = 1
  RecDen = 2
  Faults = {"settings"}
INVARIANTS BlockedByRule ShadowOnce EngineRemembers
PROPERTIES OverrideEnds Unblocks
