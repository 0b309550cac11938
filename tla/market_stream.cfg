SPECIFICATION Spec
CONSTANTS
  btc = btc
  eth = eth
  Spelling = {"btc", "BTC", "ETH"}
  Symbol = {btc, eth}
  Upper <- MCUpper
  RetryMayFail = TRUE
  MaxSockets = 2
  MaxTick = 3
  MaxFrames = 2
  MaxTickers = 1
  MaxDrops = 2
INVARIANTS TypeOK RefCounts Mirrored UpstreamAgrees
PROPERTIES SentInOrder SubscriptionsImplemented
CHECK_DEADLOCK FALSE
