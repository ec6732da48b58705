SPECIFICATION Spec
CONSTANTS
  Ops <- MCOps
  NullOp = null
  SharedOperand = FALSE
  Programs <- MCPrograms
INVARIANTS
  CutVerdict
  OrderIsValid
  RefusalIsJustified
  RerunAgrees
PROPERTIES
  SequencingEnds
CHECK_DEADLOCK FALSE
