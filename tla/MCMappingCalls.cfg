SPECIFICATION Spec
CONSTANTS
  Mappings <- MCAllMappings
  MaxCalls = 2
  MaxIndex = 7
  AnyUnify = FALSE
INVARIANTS
  InverseLeadsBack
  CanonicalizeKeepsIndices
  UnifyIsAJoin
  
CHECK_DEADLOCK FALSE
