\* One mailbox and room for one message beside the reserve.
SPECIFICATION FairSpec
CONSTANTS
  Mailboxes = 1
  TxBufferLen = 2
  Reserved = 1
  MaxCalls = 5
  MaxFailures = 0
CHECK_DEADLOCK FALSE
PROPERTIES
  MailboxServed
