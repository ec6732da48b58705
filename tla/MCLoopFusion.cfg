SPECIFICATION Spec

CONSTANTS
  Programs <- MCPrograms
  Names = {"A", "B"}
  LongUnStripes = FALSE

INVARIANTS
  VerdictIgnoresOrder
  ClassesAreConsistent
  FusedLoopsAgree
  
