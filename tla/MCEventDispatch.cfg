\* With nothing registered and no file left to open the loop waits for good.
SPECIFICATION FairSpec
CONSTANTS
  f1 = f1
  f2 = f2
  Fds <- MCFds
  MaxOpens = 3
  Requests <- MCRequests
  Masks <- MCMasks
  Conditions <- MCConditions
INVARIANTS
  TypeOK
  RegistryInStep
  InterestHasHandler
PROPERTIES
  HandlesOpenFile
  ReadyIsHandled
CHECK_DEADLOCK FALSE
