SPECIFICATION Spec
CONSTANTS
  th = th
  lt = lt
  a = a
  b = b
  c = c
  Threads <- MCThreads
  LoopThread = lt
  Timers <- MCTimers
  Intervals <- MCIntervals
  MinInterval = 1
  MaxInterval = 2
  MaxLate = 3
  Wrap = 100
INVARIANTS
  EarlierTimersAreArmed
