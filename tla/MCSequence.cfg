SPECIFICATION Spec
CONSTANTS
  ComputeOps = {a, b, c, d}
  ImplicitOps = {proj}
  NullOp = null
  MaxInitial = 3
  InitialSequences <- MCInitialSequences
INVARIANTS
  VectorMatchesMap
PROPERTIES
  InsertHonoursPoint
  ImplementsOrder
SYMMETRY MCSymmetry
