SPECIFICATION FairSpec
CHECK_DEADLOCK FALSE
CONSTANTS
  None = None
  Users = {u1}
  Clients = {c1}
  Windows = {1, 2}
  Cache = 1
  LiveCap = 1
  MaxMsg = 4
  Reloads = 0
INVARIANTS
  TypeOK
  Conserved
  NoGap
PROPERTIES
  LossEnds
  Reaped
