SPECIFICATION Spec
SYMMETRY ClientSymmetry
CHECK_DEADLOCK FALSE
CONSTANTS
  None = None
  Users = {u1, u2}
  Clients = {c1, c2, c3}
  Windows = {}
  Cache = 1
  LiveCap = 1
  MaxMsg = 1
  Reloads = 1
INVARIANTS
  Exclusive
