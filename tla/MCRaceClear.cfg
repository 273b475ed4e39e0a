\* As a database uses it: nothing keeps Set and the background Clear apart.
CONSTANTS
  Keys = {1, 2}
  Values = {v1}
  Nodes = {n1, n2, n3}
  dummyHead = head
  dummyTail = tail
  NULL = null
  LIST_HEIGHT = 2
  SizeModulus = 8
  MaxNodes = 3
  TableOps = {"set", "clear"}
  AllocMayFail = FALSE
  MaxCalls = 4
  Readers = {}
  Writers = {client, background}
  Conflicts = {}
SPECIFICATION SharedSpec
INVARIANT TableIsLocked
CHECK_DEADLOCK FALSE
