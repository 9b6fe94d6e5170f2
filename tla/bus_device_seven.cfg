\* A client that is not connected yet sends to device 7.
SPECIFICATION Spec
CONSTANTS
  n1 = n1
  n2 = n2
  n3 = n3
  NoNode = NoNode
  Unset = Unset
  NotFound = NotFound
  BehindTable = BehindTable
  ByteSize = 256
  Client = {3, 7}
  Node = {n1, n2}
  NodesOf <- SameNodes
  Size <- Sizes
  MaxReconnect = 1
  MaxRestarts = 1
  MaxSend = 1
CHECK_DEADLOCK FALSE
INVARIANT
  OnlyMasterWrites
