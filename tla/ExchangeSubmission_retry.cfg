SPECIFICATION Spec
CONSTANTS
  k1 = k1
  k2 = k2
  c1 = c1
  auditor = auditor
  KrakenIds = {k1, k2}
  CoinbaseIds = {c1}
  Auditor = auditor
  Workloads <- MCWorkloads
  Payloads = {p, q}
  MaxNonce = 6
  Clock = {1, 3, 6}
  MaxCrashes = 1
  None = None
SYMMETRY PayloadSymmetry
CHECK_DEADLOCK FALSE
INVARIANT ExchangeInv
INVARIANT OneOrderPerId
INVARIANT RefusalIsFinal
INVARIANT HistoryComplete
