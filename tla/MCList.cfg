\* Without Delete: the list is the map it promises to be, until it crashes.
CONSTANTS
  Keys = {1, 2, 3}
  Values = {v1, v2}
  Nodes = {n1, n2, n3}
  dummyHead = head
  dummyTail = tail
  NULL = null
  LIST_HEIGHT = 3
  SizeModulus = 8
  MaxNodes = 3
  TableOps = {"set", "get", "clear"}
  AllocMayFail = TRUE
SPECIFICATION ListSpec
INVARIANTS ListTypeOK LevelsAscend LevelsNest CountedAndOwned NeverMeetsKey
PROPERTY ImplementsMap
CHECK_DEADLOCK FALSE
