SPECIFICATION FairSpec
CONSTANTS
  once = once
  loop = loop
  again = again
  event = event
  x = x
  y = y
  z = z
  Job = {once, event}
  Id = {x, z}
  NoRow = NoRow
  IdOf <- Ids
  Mode <- Modes
  MaxIterations <- Caps
  MaxRetries <- Retries
  Budgeted = {event}
  MaxEvents = 2
  MaxRestarts = 1
INVARIANTS
  RegisteredIsOnDisk
PROPERTIES
  DueJobRuns
CHECK_DEADLOCK FALSE
