\* Two threads that stop the background thread, and take no lock.
SPECIFICATION Spec
CONSTANTS
  NoThread = NoThread
  MainThread = MainThread
  Thread = {t1, t2}
  ReadsPerLock = 1
  UsesUnlock = {FALSE}
  Resets = {"never"}
  Stopper = {t1, t2}
  MaxLocks = 0
  MaxVersion = 0
CHECK_DEADLOCK FALSE
INVARIANTS
  JoinedOnce
