\* A failed transmission after the overrun of a FIFO of one.
SPECIFICATION Spec
CONSTANTS
  RxBufferLen = 1
  FifoLen = 1
  MaxFrames = 3
  MaxTxErrors = 1
CHECK_DEADLOCK FALSE
INVARIANT
  OnlyLossesReported
