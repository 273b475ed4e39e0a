\* A database whose only key was deleted is closed.
CONSTANTS
  Clients = {c1}
  BG = bg
  NoThread = none
  Tasks = {d1}
  NoTask = nil
  CreateMayFail = FALSE
  QueueBound = 2
  SizeModulus = 4
  MaxNodes = 2
  Ops = {"set", "delete"}
  MaxCalls = 4
SPECIFICATION FairSpec
PROPERTY CloseReturns
CHECK_DEADLOCK FALSE
