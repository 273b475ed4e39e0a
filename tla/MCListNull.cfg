\* Ascending keys reach the NULL link of a node that is not high enough.
CONSTANTS
  Keys = {1, 2, 3}
  Values = {v1}
  Nodes = {n1, n2, n3}
  dummyHead = head
  dummyTail = tail
  NULL = null
  LIST_HEIGHT = 3
  SizeModulus = 8
  MaxNodes = 3
  TableOps = {"set"}
  AllocMayFail = FALSE
SPECIFICATION ListSpec
INVARIANT WalksEndAtTail
CHECK_DEADLOCK FALSE
