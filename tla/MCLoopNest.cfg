SPECIFICATION Spec
CONSTANTS
  NumOps = 4
  MaxDepth = 2
  MaxRank = 2
  UserNames = {"A", "B", "loop_0"}
  LoopNames <- MCLoopNames
  FreshNames <- MCFreshNames
  NullNest = null
  Programs <- MCPrograms
INVARIANTS
  VerdictIsRight
  CarriedLoopsAreOpen
  DefaultsKeepTree
CHECK_DEADLOCK FALSE
