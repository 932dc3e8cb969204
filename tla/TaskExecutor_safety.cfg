SPECIFICATION Spec
CONSTANTS
  t1 = t1
  t2 = t2
  t3 = t3
  Task = {t1, t2, t3}
  NoTask = NoTask
  Exec = {e1, e2, e3}
  NoExec = NoExec
  Slot = {w1, w2}
  Loop = Loop
  Target <- Targets
  Ingress <- Board
  DependsOn <- Child
  Priority <- Flat
  MaxRetries <- OneRetry
  MaxCrashes = 0
  MaxReruns = 0
  ClientStatuses = {}
  GraphCancels = TRUE
  WaitCapExpires = FALSE
SYMMETRY Symmetry
INVARIANTS
  RunningIsHeld
  OneRunPerTask
  DepsStayMet
CHECK_DEADLOCK FALSE
