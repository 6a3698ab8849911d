SPECIFICATION Spec
CONSTANTS
  Ids = {o1, o2}
  Orders <- MCOrders
  Snapshots <- MCSnapshots
  Live = TRUE
  MaxEdits = 2
  PositionCap = 4
  StrategyCap = 500
  VenueCap = 400
  NotionalPercent = 15
  StaleAfter = 5
  None = None
INVARIANT KillHolds
INVARIANT VerdictIsTheTable
INVARIANT FlattenWindow
