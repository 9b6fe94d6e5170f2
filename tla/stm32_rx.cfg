\* A buffer of two frames behind a FIFO of one.
SPECIFICATION Spec
CONSTANTS
  RxBufferLen = 2
  FifoLen = 1
  MaxFrames = 6
  MaxTxErrors = 2
CHECK_DEADLOCK FALSE
INVARIANTS
  TypeOK
  InOrderOrLost
  NoFalseAlarm
