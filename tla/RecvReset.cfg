SPECIFICATION FairSpec
CHECK_DEADLOCK FALSE
CONSTANTS
  MaxConn = 3
  MaxFail = 2
INVARIANTS
  TypeOK
  StopIsCurrent
  TimeoutStops
PROPERTIES
  TimeoutReconnects
