\* A writer, with a reader inside its calls, except inside Clear.
CONSTANTS
  Keys = {1, 2, 3}
  Values = {v1}
  Nodes = {n1, n2, n3}
  dummyHead = head
  dummyTail = tail
  NULL = null
  LIST_HEIGHT = 2
  SizeModulus = 8
  MaxNodes = 3
  TableOps = {"set", "get", "delete", "clear", "iterate", "print"}
  AllocMayFail = TRUE
  MaxCalls = 4
  Readers = {r}
  Writers = {w}
  Conflicts = {{"clear", "get"}, {"clear", "iterate"}, {"clear", "print"}}
SPECIFICATION SharedSpec
INVARIANTS SharedTypeOK ReadersAreSafe GetAnswersTruly WalkAscends WalkIsComplete TableIsLocked
PROPERTY ImplementsList
CHECK_DEADLOCK FALSE
