SPECIFICATION FairSpec
CONSTANTS
  MaxCalls = 2
  Waiters = {w1}
  NoCtx = none
  MaxMsgs = 3
  MaxCrash = 1
INVARIANTS
  TranscriptsAlone
  RosterIsLive
PROPERTIES
  TranscriptsSettle
CHECK_DEADLOCK FALSE
