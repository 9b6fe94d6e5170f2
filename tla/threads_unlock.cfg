\* Two threads that call unlock.
SPECIFICATION Spec
CONSTANTS
  NoThread = NoThread
  MainThread = MainThread
  Thread = {t1, t2}
  ReadsPerLock = 1
  UsesUnlock = {TRUE}
  Resets = {"never"}
  Stopper = {}
  MaxLocks = 2
  MaxVersion = 0
CHECK_DEADLOCK FALSE
INVARIANTS
  NoReadThrows
