\* Two clients share one database; thread creation may fail.
CONSTANTS
  Clients = {c1, c2}
  BG = bg
  NoThread = none
  Tasks = {d1}
  NoTask = nil
  CreateMayFail = TRUE
  QueueBound = 2
  SizeModulus = 4
  MaxNodes = 2
  Ops = {"set", "get", "delete"}
  MaxCalls = 3
SPECIFICATION Spec
INVARIANTS TypeOK ScheduledOnce AssertionHolds NoUseAfterClose DestructorWillBeWoken
PROPERTY ImplementsCompaction
CHECK_DEADLOCK FALSE
