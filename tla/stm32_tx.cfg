\* Two mailboxes and room for two messages beside the reserve.
SPECIFICATION FairSpec
CONSTANTS
  Mailboxes = 2
  TxBufferLen = 3
  Reserved = 1
  MaxCalls = 7
  MaxFailures = 1
CHECK_DEADLOCK FALSE
INVARIANTS
  TypeOK
  EachFrameOnce
  OverflowRemembered
  InterruptOffOnlyWhenFull
PROPERTIES
  SendingTerminates
