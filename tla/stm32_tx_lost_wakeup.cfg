\* A buffer that never overflows.
SPECIFICATION FairSpec
CONSTANTS
  Mailboxes = 2
  TxBufferLen = 6
  Reserved = 1
  MaxCalls = 5
  MaxFailures = 0
CHECK_DEADLOCK FALSE
PROPERTIES
  AcceptedGetsSent
