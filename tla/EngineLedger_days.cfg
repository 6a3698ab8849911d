SPECIFICATION FairSpec
CONSTANTS
  Equities <- MCEquities
  Initial = 1
  Positions = {flat, long}
  Flat = flat
  WeekDays = 2
  Demotes = FALSE
  MaxDays = 3
  MaxStarts = 3
  None = None
CHECK_DEADLOCK FALSE
INVARIANT LedgerInv
INVARIANT BaselinesAreCloses
PROPERTY LedgerGrows
PROPERTY PositionLearned
