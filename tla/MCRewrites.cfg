SPECIFICATION Spec
CONSTANTS
  MaxRewrites = 30
  InvariantFby = FALSE
  LooseChains = FALSE
  Programs <- MCPrograms
INVARIANTS
  IRVerifies
  OutcomeIsKept
PROPERTIES
  RewritesAreConfluent
  Terminates
