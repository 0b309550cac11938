SPECIFICATION FairSpec
CONSTANTS
  Symbol = {btc, eth}
  Request = {r1, r2}
  MaxTick = 3
INVARIANT InFlightAgrees
PROPERTIES BackOnlyBetweenPaths PricesAnswered
CHECK_DEADLOCK FALSE
