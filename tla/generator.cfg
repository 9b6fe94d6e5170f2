\* Four value nodes and two edits, with names that may repeat: the largest
\* trees are refused.
SPECIFICATION ToolSpec
CONSTANTS
  ByteSize = 8
  NotFound = NotFound
  BehindTable = BehindTable
  Nothing = Nothing
  Name = {"a", "b", "c", "d"}
  CallName = {"f", "g"}
  MaxDepth = 2
  FirstTree <- GroupsThenValues
  MaxEdits = 2
CHECK_DEADLOCK FALSE
INVARIANTS
  TablesComplete
  AppendKeepsIds
  CallsFindTheirTable
