\* Four calls, two of whose frames may be lost.
SPECIFICATION FairSpec
CONSTANTS
  MaxCalls = 4
  MaxLosses = 2
CHECK_DEADLOCK FALSE
INVARIANTS
  TypeOK
  InOrderOnce
  ResultsGenuine
PROPERTIES
  ImplementsService
  LosslessServiceIsLive
