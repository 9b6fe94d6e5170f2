\* Two threads that reset the flag after they read.
SPECIFICATION FairSpec
CONSTANTS
  NoThread = NoThread
  MainThread = MainThread
  Thread = {t1, t2}
  ReadsPerLock = 1
  UsesUnlock = {FALSE}
  Resets = {"after a read"}
  Stopper = {}
  MaxLocks = 2
  MaxVersion = 0
CHECK_DEADLOCK FALSE
PROPERTIES
  BlockingReadReturns
