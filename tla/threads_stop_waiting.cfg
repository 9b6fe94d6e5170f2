\* A thread that stops the background thread while another waits in a read.
SPECIFICATION FairSpec
CONSTANTS
  NoThread = NoThread
  MainThread = MainThread
  Thread = {t1, t2}
  ReadsPerLock = 1
  UsesUnlock = {FALSE}
  Resets = {"before a read"}
  Stopper = {t1, t2}
  MaxLocks = 3
  MaxVersion = 1
CHECK_DEADLOCK FALSE
PROPERTY BlockingReadSurvivesStop
