\* A buffer of one frame behind a FIFO of one.
SPECIFICATION FairSpec
CONSTANTS
  RxBufferLen = 1
  FifoLen = 1
  MaxFrames = 4
  MaxTxErrors = 0
CHECK_DEADLOCK FALSE
PROPERTIES
  LossGetsReported
