SPECIFICATION FairSpec
CONSTANTS
  btc = btc
  eth = eth
  r1 = r1
  r2 = r2
  Spelling = {"BTC"}
  Symbol = {btc}
  Request = {r1, r2}
  Upper <- MCUpper
  RetryMayFail = FALSE
  MaxSockets = 2
  MaxTick = 3
  MaxFrames = 1
  MaxTickers = 2
  MaxDrops = 2
PROPERTIES PricesImplemented HeldIsStreamed PricesAnswered
CHECK_DEADLOCK FALSE
