\* Two threads; one reads twice under one lock.
SPECIFICATION Spec
CONSTANTS
  NoThread = NoThread
  MainThread = MainThread
  Thread = {t1, t2}
  ReadsPerLock = 2
  UsesUnlock = {FALSE}
  Resets = {"never"}
  Stopper = {}
  MaxLocks = 2
  MaxVersion = 0
CHECK_DEADLOCK FALSE
INVARIANTS
  NoReadThrows
