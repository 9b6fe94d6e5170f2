\* One client, whose def file lacks the last node of that of the master.
SPECIFICATION Spec
CONSTANTS
  n1 = n1
  n2 = n2
  n3 = n3
  NoNode = NoNode
  Unset = Unset
  NotFound = NotFound
  BehindTable = BehindTable
  ByteSize = 256
  Client = {3}
  Node = {n1, n2, n3}
  NodesOf <- NewerMaster
  Size <- Sizes
  MaxReconnect = 1
  MaxRestarts = 1
  MaxSend = 1
CHECK_DEADLOCK FALSE
INVARIANT
  LookUpsDefined
