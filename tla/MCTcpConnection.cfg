\* A connection that is gone takes no more steps.
SPECIFICATION FairSpec
CONSTANTS
  MaxGiven = 3
  MaxArrived = 2
INVARIANTS
  StreamInOrder
  WritingIffBuffered
  ReferencesKeepAlive
  EndReported
PROPERTIES
  ClosedForGood
  EndIsNoticed
CHECK_DEADLOCK FALSE
