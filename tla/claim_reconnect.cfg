SPECIFICATION FairSpec
CONSTANTS
  btc = btc
  eth = eth
  Spelling = {"btc", "BTC", "ETH"}
  Symbol = {btc, eth}
  Upper <- MCUpper
  RetryMayFail = TRUE
  MaxSockets = 1
  MaxTick = 1
  MaxFrames = 2
  MaxTickers = 1
  MaxDrops = 2
PROPERTY CloseReconnects
CHECK_DEADLOCK FALSE
