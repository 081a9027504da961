SPECIFICATION FairSpec
CONSTANTS
  PERIOD = 4
  DETACH_TIME = 1
  LATE_WINDOW = 5
  SEC = 2
  Symbols = {btc, eth}
  Quotes <- MCPair
  SkipEmptyQuote = TRUE
  Feeds = 1
  Skew = 5
  MaxLag = 1
  MinTime = 1
  MaxTime = 18
INVARIANTS
  Lockstep
  PeriodStamp
PROPERTIES
  FrontPublished
