\* Posters may stop posting and the loop then waits for good: no deadlock check.
SPECIFICATION FairSpec
CONSTANTS
  t1 = t1
  t2 = t2
  lt = lt
  c1 = c1
  c2 = c2
  Threads <- MCThreads
  LoopThread = lt
  Callback <- MCCallback
  MaxPosts = 4
  CounterMax = 2
INVARIANTS
  ExactlyOnceInOrder
  NoLostWakeUp
PROPERTIES
  RoundIsClosed
  EveryPostRuns
  ImplementsService
CHECK_DEADLOCK FALSE
