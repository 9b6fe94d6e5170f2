\* Clients 3 and 7, two nodes, the same program everywhere, one value or read
\* request of an application.
SPECIFICATION Spec
CONSTANTS
  n1 = n1
  n2 = n2
  n3 = n3
  NoNode = NoNode
  Unset = Unset
  NotFound = NotFound
  BehindTable = BehindTable
  ByteSize = 256
  Client = {3, 7}
  Node = {n1, n2}
  NodesOf <- SameNodes
  Size <- Sizes
  MaxReconnect = 1
  MaxRestarts = 1
  MaxSend = 1
CHECK_DEADLOCK FALSE
INVARIANTS
  MasterCopyGenuine
  ClientTreeGenuine
PROPERTIES
  ImplementsLink
