\* Delete leaves nodes linked; a fourth node gets the key of a deleted one.
CONSTANTS
  Keys = {1, 2, 3}
  Values = {v1}
  Nodes = {n1, n2, n3, n4}
  dummyHead = head
  dummyTail = tail
  NULL = null
  LIST_HEIGHT = 2
  SizeModulus = 8
  MaxNodes = 4
  TableOps = {"set", "delete", "clear"}
  AllocMayFail = TRUE
SPECIFICATION ListSpec
INVARIANTS NoDanglingLink SearchesMeetNoNULL SetIsReadBack
PROPERTY SizeContract
CHECK_DEADLOCK FALSE
