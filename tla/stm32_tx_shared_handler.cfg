\* Two mailboxes and room for two messages beside the reserve; nothing fails.
SPECIFICATION Spec
CONSTANTS
  Mailboxes = 2
  TxBufferLen = 3
  Reserved = 1
  MaxCalls = 5
  MaxFailures = 0
CHECK_DEADLOCK FALSE
INVARIANT
  NoFrameTwice
