SPECIFICATION FairSpec
CONSTANTS
  NoModel = NoModel
  Callers = {s1, c1}
  Sessions = {s1}
  Clients = {c1}
  Ranked <- MCRanked
  Named = {"large", "default"}
  HasCompactor = TRUE
  Threshold = 2
  Limit = 1
  MaxInputs = 4
INVARIANTS
  PermitsKept
  TripsMatch
  InputsAreRun
  EndedIsIdle
PROPERTIES
  SessionsEnd
CHECK_DEADLOCK FALSE
