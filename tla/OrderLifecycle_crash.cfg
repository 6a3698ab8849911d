\* Two venues, no stream consumer: the deployed engine.
CONSTANTS
  ClientIds = {o1, o2}
  Venues = {coinbase, kraken}
  Quantities <- MCQuantities
  MarketIds = {}
  Monitored = {}
  RecoverOnStart = TRUE
  MaxCrashes = 2
  MaxDrops = 0
  None = None
SPECIFICATION FairSpec
INVARIANT EngineInv
INVARIANT RecordsAgree
INVARIANT UnknownMeansUnseen
INVARIANT PositionIsFills
PROPERTY ImplementsRegistry
PROPERTY SubmissionResolved
PROPERTY FillLearned
