\* Two clients, a _meta node and another one.
SPECIFICATION FairSpec
CONSTANTS
  c1 = c1
  c2 = c2
  meta1 = meta1
  meta2 = meta2
  NoNode = NoNode
  Client = {c1, c2}
  Node = {meta1, meta2}
  MetaNodes <- OneMeta
  MaxReconnect = 2
  MaxSend = 1
CHECK_DEADLOCK FALSE
INVARIANTS
  TypeOK
  QuietMeansConnected
  NothingIgnored
  MetaBeforeConnected
  ClientEventFresh
  LinkInv
PROPERTIES
  AddedGetsConnected
  ReadGetsAnswered
