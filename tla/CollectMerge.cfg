SPECIFICATION Spec
CONSTANTS
  PERIOD = 4
  DETACH_TIME = 1
  LATE_WINDOW = 5
  SEC = 2
  Symbols = {btc}
  Quotes <- MCMerge
  SkipEmptyQuote = FALSE
  Feeds = 2
  Skew = 5
  MaxLag = 1
  MinTime = 1
  MaxTime = 18
INVARIANTS
  TypeOK
  OnGrid
  MessageWindow
  PeriodsInOrder
  MergedOnce
  NothingLost
PROPERTIES
  ConsumerView
