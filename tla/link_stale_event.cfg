\* One client; the application reconnects before it looks at the event.
SPECIFICATION Spec
CONSTANTS
  c1 = c1
  c2 = c2
  meta1 = meta1
  meta2 = meta2
  NoNode = NoNode
  Client = {c1}
  Node = {meta1}
  MetaNodes <- OneMeta
  MaxReconnect = 1
  MaxSend = 0
CHECK_DEADLOCK FALSE
INVARIANT MasterEventFresh
