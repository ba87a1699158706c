SPECIFICATION MachinesSpec
CONSTANTS
  Wallets = {2}
  Prices = {1, 4}
  Window = 2
  Latency = 1
  MaxTrades = 2
  MaxDay = 2
  MaxAsked = 1
  MaxSent = 1
  MaxRestart = 1
  FileAccounts = {"a", "b"}
  Scripts <- MCScripts
  MaxVersion = 3
  MaxCrash = 2
  Ids = {1, 2}
  MaxPar = 1
  MaxWork = 2
  MaxDeaths = 1
  MaxQty = 2
  MaxFills = 4
  Jobs = {1, 2}
  Days = {1, 2, 4}
  Page = 2
  MaxCandle = 5
  MaxTries = 1
  MaxTime = 3
  MaxMade = 4
  MaxStarts = 2
  Symbols = {1, 2}
  Bars = 3
  Initial = 16
  RiskDen = 4
  Reward = 2
  Sizes = {3}
  FeeDen = 12
  MaxCount = 2
  MaxExposure = 3
  Watched <- MCWatched
  Buffer = 4
  DbEvery = 2
  BackEvery = 3
  Plans <- MCPlans
  Entries = {"limit", "market"}
  Market = {"market"}
  OrderSide <- MCSide
  Price <- MCPrice
  Exits = {"above", "below"}
  Kind <- MCKind
  Triggers = {1, 5}
  Positions = {1}
  Executions = {1, 2}
  OrderOf <- MCOrderOf
  Tolerance = 0
  MaxPlans = 2
  MaxTasks = 2
  MaxUpdates = 4
INVARIANTS  SourcesAgree  PagesWhole TestSound  
PROPERTIES FilesWhole AlertsFollow LinksHold 
CHECK_DEADLOCK FALSE
