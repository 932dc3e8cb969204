SPECIFICATION Spec
CONSTANTS
  t1 = t1
  t2 = t2
  t3 = t3
  Task = {t1, t2}
  NoTask = NoTask
  Exec = {e1, e2}
  NoExec = NoExec
  Slot = {w1, w2}
  Loop = Loop
  Target <- Targets
  Ingress <- MixedWays
  DependsOn <- NoDeps
  Priority <- Flat
  MaxRetries <- OneRetry
  MaxCrashes = 1
  MaxReruns = 1
  ClientStatuses = {"running"}
  GraphCancels = TRUE
  WaitCapExpires = TRUE
SYMMETRY Symmetry
INVARIANTS
  ClaimExclusive
  RetryBudget
PROPERTY
  ImplementsClaims
CHECK_DEADLOCK FALSE
