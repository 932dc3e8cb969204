SPECIFICATION FairSpec
CONSTANTS
  NoNode = NoNode
  Roots = {"r1", "r2"}
  Sessions = {s1}
  Flows = {"agent", "batch", "human", "fork", "each", "tool", "review", "plan", "survey"}
  GraphOf <- MCGraphOf
  FlowOf <- MCFlowOf
  Rounds <- MCRounds
  Back <- MCBack
  Agents = {"think"}
  AtOnce = {"batch"}
  Retries <- MCRetries
  Labelled = {"send", "look"}
  Gated = {"plan"}
  Resident = {"watch"}
  OnError = {"wrong"}
  Captured = {"peek", "send"}
  Asserted = {"peek"}
  Replies <- MCReplies
  Verdicts <- MCVerdicts
  ReadOnly = {"read", "peek"}
  Sub = "sub_graph"
  ExitPlan = "exit"
  Screenshot = "screenshot"
  AutoCheckpoint = FALSE
  Budgeted = TRUE
  TimeoutApproves = FALSE
  MaxIter = 4
  MaxChain = 1
  MaxDepth = 2
  MaxCrash = 1
  Starts <- MCStarts
INVARIANTS
  HopsBounded
  FuturesHaveWaiters
  PauseIsSaved
PROPERTIES
  OnlyGrantedToolsRun
  PlanModeHolds
  StopsCascade
  RunsEnd
CHECK_DEADLOCK FALSE
