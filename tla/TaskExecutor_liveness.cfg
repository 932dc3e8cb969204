SPECIFICATION FairSpec
CONSTANTS
  t1 = t1
  t2 = t2
  t3 = t3
  Task = {t1, t2}
  NoTask = NoTask
  Exec = {e1, e2}
  NoExec = NoExec
  Slot = {w1}
  Loop = Loop
  Target <- Targets
  Ingress <- Board
  DependsOn <- NoDeps
  Priority <- Flat
  MaxRetries <- T1Retries
  MaxCrashes = 1
  MaxReruns = 0
  ClientStatuses = {}
  GraphCancels = FALSE
  WaitCapExpires = FALSE
PROPERTIES
  EveryTaskSettles
  PermitsReturn
  FailedIsRetried
CHECK_DEADLOCK FALSE
