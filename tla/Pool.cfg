SPECIFICATION FairSpec
CONSTANTS
  None = None
  Clients = {c1, c2}
  Workers = {w1, w2}
  Configs <- TwoConfigs
  ClientsStopFirst = TRUE
  MaxGets = 2  MaxStarts = 2  MaxCalls = 3
CHECK_DEADLOCK FALSE
INVARIANTS LiveCountIsExact OneOwner
PROPERTIES ShutdownEnds
