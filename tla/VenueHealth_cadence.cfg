SPECIFICATION FairSpec
CONSTANTS
  Sources <- MCSources
  StaleAfter <- MCStaleAfter
  CheckInterval = 2
  ErrorWindow = 1
  MinSamples = 2
  MaxRequests = 3
  Forced = TRUE
  None = None
PROPERTY StaleNoticed
PROPERTY Recovers
