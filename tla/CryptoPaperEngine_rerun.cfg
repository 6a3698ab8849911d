SPECIFICATION FairSpec
CONSTANTS
  Symbols <- MCSymbols
  Targets <- MCTargets
  Equities = {100, 97}
  StartEquity = 100
  Routable = {"coinbase", "kraken"}
  Reruns = TRUE
  MaxDays = 2
  MaxCrashes = 1
  PositionCap = 2
  StrategyCap = 8
  VenueCap = 8
  NotionalPercent = 100
  StaleAfter = 1
  None = None
CHECK_DEADLOCK FALSE
INVARIANT EngineSafe
 
PROPERTY CompletedIsClosed
PROPERTY DailyCycle
