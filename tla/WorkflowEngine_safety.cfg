SPECIFICATION FairSpec
CONSTANTS
  Runs = {"w1","w2"}
  Phases <- MCPhases
  Reports = {0, 2}
  Limit = 1
  Faulty = {"w1"}
  MaxCrash = 1
INVARIANTS
  CompletedIsWhole
  RowAgrees
PROPERTIES
  EndedStaysEnded
  ExecutionsEnd
CHECK_DEADLOCK FALSE
