SPECIFICATION Spec
CONSTANTS
  once = once
  loop = loop
  again = again
  event = event
  x = x
  y = y
  z = z
  Job = {loop, again}
  Id = {y}
  NoRow = NoRow
  IdOf <- Ids
  Mode <- Modes
  MaxIterations <- Caps
  MaxRetries <- Retries
  Budgeted = {}
  MaxEvents = 2
  MaxRestarts = 2
INVARIANTS
  TasksWithinCap
CHECK_DEADLOCK FALSE
