\* A Set loops for ever on a key that is there, but that its search has missed.
CONSTANTS
  Keys = {1, 2, 3, 4, 5, 6, 7}
  Values = {v1}
  Nodes = {n1, n2, n3, n4, n5, n6, n7, n8}
  dummyHead = head
  dummyTail = tail
  NULL = null
  LIST_HEIGHT = 3
  SizeModulus = 16
  MaxNodes = 8
  TableOps = {"set", "delete"}
  AllocMayFail = FALSE
SPECIFICATION HangSpec
INVARIANT NeverMeetsKey
CHECK_DEADLOCK FALSE
