SPECIFICATION MCSpec
CONSTANTS
  Coinbase = {coinbase}
  Kraken = {kraken}
  Levels <- MCLevels
  QueueSize = 1
  BatchSize = 2
  MaxMinutes = 2
  MaxMoves = 1
  MaxFaults = 1
  None = None
  MonthLengths <- MCMonthLengths
  Symbols <- MCSymbols
  FirstMonths <- MCFirstMonths
  Contracts = 3
  Holidays <- MCHolidays
  Prices <- MCPrices
  Quantity = 1
  Nothing = Nothing
CHECK_DEADLOCK FALSE
INVARIANT RowsInv
INVARIANT BookFollows
INVARIANT CalendarInv
INVARIANT ExposureKept
PROPERTY RowsReachDisk
PROPERTY NoRollGap
