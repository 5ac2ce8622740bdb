\* With every connection placed there is nothing left to do.
SPECIFICATION PoolFairSpec
CONSTANTS
  ThreadNum = 3
  MaxPicks = 3
INVARIANTS
  PoolTypeOK
  RunsConstructed
  PoolLoopsReady
  Balanced
PROPERTIES
  InitEnds
CHECK_DEADLOCK FALSE
