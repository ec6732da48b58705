SPECIFICATION Spec
CONSTANTS
  NumOps = 4
  MaxDepth = 2
  LoopNames <- MCLoopNames
  InnerUsers = FALSE
  AnyIter = FALSE
  NullOp = null
  MaxRewritten = 1
  Ops <- MCOps
  Programs <- MCPrograms
INVARIANTS
  CodeIsKept
  
PROPERTIES
  PassEnds
CHECK_DEADLOCK FALSE
