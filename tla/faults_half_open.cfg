\* One client, which restarts.
SPECIFICATION FaultFairSpec
CONSTANTS
  c1 = c1
  c2 = c2
  meta1 = meta1
  value = value
  NoNode = NoNode
  Client = {c1}
  Node = {meta1, value}
  MetaNodes <- OneMeta
  MaxReconnect = 1
  MaxSend = 0
  FaultKinds <- ClientFaults
  MaxFaults = 1
CHECK_DEADLOCK FALSE
PROPERTY HalfOpenIsNoticed
