\* Two calls, no frame is lost.
SPECIFICATION FairSpec
CONSTANTS
  MaxCalls = 2
  MaxLosses = 0
CHECK_DEADLOCK FALSE
PROPERTIES
  EveryCallReturns
