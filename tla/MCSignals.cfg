\* A process that was terminated takes no more steps.
SPECIFICATION FairSpec
CONSTANTS
  Signals = {hup, term}
  Monitors = {m1, m2}
  Threads = {main, other}
  Main = main
  None = none
  MaxArrivals = 2
INVARIANTS
  HandledIsBlocked
  StrayAfterRaceOnly
PROPERTIES
  SignalIsHandled
CHECK_DEADLOCK FALSE
