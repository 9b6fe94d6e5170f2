\* One client; the master restarts.
SPECIFICATION FaultSpec
CONSTANTS
  c1 = c1
  c2 = c2
  meta1 = meta1
  value = value
  NoNode = NoNode
  Client = {c1}
  Node = {meta1, value}
  MetaNodes <- OneMeta
  MaxReconnect = 1
  MaxSend = 0
  FaultKinds <- MasterFaults
  MaxFaults = 1
CHECK_DEADLOCK FALSE
INVARIANT SendersAreKnown
