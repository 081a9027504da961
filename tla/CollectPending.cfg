SPECIFICATION Spec
CONSTANTS
  PERIOD = 4
  DETACH_TIME = 1
  LATE_WINDOW = 5
  SEC = 2
  Symbols = {btc}
  Quotes <- MCEarly
  SkipEmptyQuote = TRUE
  Feeds = 1
  Skew = 5
  MaxLag = 1
  MinTime = 1
  MaxTime = 18
INVARIANTS
  PendingTaken
