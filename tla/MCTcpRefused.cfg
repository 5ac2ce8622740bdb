SPECIFICATION Spec
CONSTANTS
  MaxGiven = 2
  MaxArrived = 1
INVARIANT
  RefusalMeansFailure
CHECK_DEADLOCK FALSE
