\* One venue, a bare OrderManager that monitors its stream, LIMIT and MARKET
\* orders, restarted without recover().
CONSTANTS
  ClientIds = {o1, o2}
  Venues = {coinbase}
  Quantities <- MCBuy
  MarketIds = {o2}
  Monitored = {coinbase}
  RecoverOnStart = FALSE
  MaxCrashes = 2
  MaxDrops = 1
  None = None
SPECIFICATION Spec
PROPERTY TerminalIsFinal
