SPECIFICATION BRSpec
CONSTANTS
  btc = btc
  eth = eth
  sol = sol
  CoinbaseSpot <- MCCoinbaseSpot
  KrakenSpot <- MCKrakenSpot
  DayHours = 2
  PageRows = 3
  Closes = {1, 2}
  MaxHour = 6
  MaxTroubles = 2
  Idle = Idle
CHECK_DEADLOCK FALSE
INVARIANT StoredFinal
