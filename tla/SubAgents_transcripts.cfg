SPECIFICATION Spec
CONSTANTS
  MaxCalls = 3
  Waiters = {w1}
  NoCtx = none
  MaxMsgs = 2
  MaxCrash = 0
INVARIANT TranscriptsIndependent
CHECK_DEADLOCK FALSE
