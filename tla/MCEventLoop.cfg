SPECIFICATION FairSpec
CONSTANTS
  a = a
  b = b
  c = c
  main = main
  worker = worker
  Threads <- MCThreads
  Loops <- MCLoops
  Creator <- MCCreator
  MayDrive <- MCMayDrive
  GivesTo <- MCGivesTo
  None = None
  MaxCalls = 2
  MaxInline = 1
INVARIANTS
  OnceInOrder
  OnLoopThread
  OnlyMutualGivingDeadlocks
PROPERTIES
  AddedRuns
  StopEnds
\* Drains that give functions to each other do deadlock, which
\* OnlyMutualGivingDeadlocks is about.
CHECK_DEADLOCK FALSE
