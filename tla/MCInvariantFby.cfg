SPECIFICATION Spec
CONSTANTS
  MaxRewrites = 30
  InvariantFby = TRUE
  LooseChains = FALSE
  Programs <- MCFbys
INVARIANT
  OutcomeIsKept
