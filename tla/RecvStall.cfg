SPECIFICATION FairSpec
CHECK_DEADLOCK FALSE
CONSTANTS
  MaxConn = 3
  MaxFail = 1
PROPERTIES
  Reconnects
