\* Three mailboxes, as in the hardware.
SPECIFICATION Spec
CONSTANTS
  Mailboxes = 3
  TxBufferLen = 4
  Reserved = 1
  MaxCalls = 5
  MaxFailures = 0
CHECK_DEADLOCK FALSE
INVARIANTS
  SentInOrder
