\* One client, two databases that share the background thread.
CONSTANTS
  Clients = {c1}
  BG = bg
  NoThread = none
  Tasks = {d1, d2}
  NoTask = nil
  CreateMayFail = FALSE
  QueueBound = 2
  SizeModulus = 4
  MaxNodes = 2
  Ops = {"set"}
  MaxCalls = 5
SPECIFICATION FairSpec
PROPERTIES QueuedIsRun AcceptedIsCarriedOut
CHECK_DEADLOCK FALSE
