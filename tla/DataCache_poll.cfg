SPECIFICATION LiveSpec
CONSTANTS
  btc = btc
  eth = eth
  NoTicker = NoTicker
  Tickers = {btc}
  Pollers = {"loop"}
  Refreshers = {"fill"}
  Window = 3
  Latency = 1
  Delay = 1
  MaxMoves = 2
  MoveBy = 1
  MaxClock = 5
  Faults = {"drop","fail","plugin"}
PROPERTIES PollKeepsNewer Converges
