\* Two clients share one database that is only set.
CONSTANTS
  Clients = {c1, c2}
  BG = bg
  NoThread = none
  Tasks = {d1}
  NoTask = nil
  CreateMayFail = FALSE
  QueueBound = 2
  SizeModulus = 2
  MaxNodes = 1
  Ops = {"set"}
  MaxCalls = 3
SPECIFICATION FairSpec
PROPERTIES SetReturns NonEmptyIsCompacted CloseReturns
CHECK_DEADLOCK FALSE
