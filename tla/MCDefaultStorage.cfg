SPECIFICATION Spec
CONSTANTS
  Programs <- MCPrograms
INVARIANTS
  StoragesAreConsistent
  PassCompletesProgram
  AcceptedProgramsCompute
PROPERTIES
  Terminates
