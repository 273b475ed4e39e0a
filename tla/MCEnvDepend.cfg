\* Two clients, two tasks, a queue of up to three.
CONSTANTS
  Clients = {c1, c2}
  BG = bg
  NoThread = none
  Tasks = {k1, k2}
  NoTask = nil
  CreateMayFail = FALSE
  QueueBound = 3
SPECIFICATION EnvFairSpec
INVARIANTS EnvTypeOK NoLostWakeup EnvMutexOwned
PROPERTIES ScheduledTaskRuns ImplementsRunner
