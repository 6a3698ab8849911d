SPECIFICATION Spec
CONSTANTS
  Callers = {c1, c2}
  Limit = limit
  Market = market
  Stops = {}
  Alone = {limit}
  Quantity = 2
  Retries = 2
  MaxCrashes = 1
  None = None
SYMMETRY CallerSymmetry
INVARIANT OneOrderPerId
INVARIANT FallbackExclusive
PROPERTY RecordedNeverResent
PROPERTY CallsAdvance
