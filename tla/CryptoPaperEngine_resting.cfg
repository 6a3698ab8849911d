SPECIFICATION Spec
CONSTANTS
  Symbols <- MCOneSymbol
  Targets <- MCTargets
  Equities = {100, 97}
  StartEquity = 100
  Routable = {"coinbase"}
  Reruns = FALSE
  MaxDays = 3
  MaxCrashes = 1
  PositionCap = 2
  StrategyCap = 8
  VenueCap = 8
  NotionalPercent = 100
  StaleAfter = 1
  None = None
CHECK_DEADLOCK FALSE
INVARIANT NeverShort
