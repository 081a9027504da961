SPECIFICATION FairSpec
CHECK_DEADLOCK FALSE
CONSTANTS
  Symbols = {"btc", "eth"}
  Streams = {"inc", "trade"}
  MaxSymbolNumPerConn = 2
  DataEncodeType = "PB"
  ChanCap = 1
  MaxList = 7
  MaxEvents = 2
  MaxRounds = 2
INVARIANTS
  TypeOK
  Subscribed
  BookRebuildable
  StreamInOrder
PROPERTIES
  SnapshotsServed
