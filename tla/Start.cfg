SPECIFICATION FairSpec
CONSTANTS
  a1 = a1
  a2 = a2
  r1 = r1
  s1 = s1
  s2 = s2
  Procs = {a1, a2, r1}
  Service <- MCService
  Symbols = {s1, s2}
  Confs <- MCConfs
  MaxStarts = 3
  MaxFails = 1
  MaxFlips = 1
INVARIANTS
  TypeOK
  OneInstance
  SymbolsAgree
PROPERTIES
  ComesUp
CHECK_DEADLOCK FALSE
