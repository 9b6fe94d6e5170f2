\* One client, every kind of fault, at most two of them.
SPECIFICATION FaultFairSpec
CONSTANTS
  c1 = c1
  c2 = c2
  meta1 = meta1
  value = value
  NoNode = NoNode
  Client = {c1}
  Node = {meta1, value}
  MetaNodes <- OneMeta
  MaxReconnect = 2
  MaxSend = 1
  FaultKinds <- AllFaults
  MaxFaults = 2
CHECK_DEADLOCK FALSE
INVARIANTS
  AttemptSettlesConnected
PROPERTIES
  AttemptConnects
