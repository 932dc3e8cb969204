SPECIFICATION Spec
CONSTANTS
  NoNode = NoNode
  Names = {n1, n2, n3, n4}
  First = n1
  Labels = {"", "yes", "no"}
  Results = {"true", "no", "other"}
  MaxEdges = 5
INVARIANTS
  MergeIsNearest
  BranchesAreValid
  NoNodeLost
  ResultNeverFlips
CHECK_DEADLOCK FALSE
