\* Two threads of programs that do or do not use unlock, and reset the flag
\* before a read or never.
SPECIFICATION FairSpec
CONSTANTS
  NoThread = NoThread
  MainThread = MainThread
  Thread = {t1, t2}
  ReadsPerLock = 1
  UsesUnlock = {TRUE, FALSE}
  Resets = {"before a read", "never"}
  Stopper = {t1, t2}
  MaxLocks = 3
  MaxVersion = 1
CHECK_DEADLOCK FALSE
INVARIANTS
  TypeOK
  HolderFindsItsLock
  WakeUpIsComing
PROPERTIES
  HeldLockFreezesTree
  BlockingReadReturns
  StopReturns
