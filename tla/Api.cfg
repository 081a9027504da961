SPECIFICATION FairSpec
CONSTANTS
  Day = 4
  Window <- MCWindow
  Limit <- MCLimit
  Callers = {c1, c2}
  Costs <- MCCosts
  MaxReq = 2
INVARIANTS
  TypeOK
  WindowBound
PROPERTIES
  Answered
  LimitRecovers
