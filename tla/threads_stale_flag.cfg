\* One thread that reads twice.
SPECIFICATION Spec
CONSTANTS
  NoThread = NoThread
  MainThread = MainThread
  Thread = {t1}
  ReadsPerLock = 2
  UsesUnlock = {FALSE}
  Resets = {"never"}
  Stopper = {}
  MaxLocks = 1
  MaxVersion = 1
CHECK_DEADLOCK FALSE
INVARIANTS
  BlockingReadIsFresh
