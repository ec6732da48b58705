SPECIFICATION Spec
CONSTANTS
  LoopNames = {"A", "B"}
  MaxDepth = 2
  BufferedCarry = FALSE
  DynamicSizes = "outer"
  ExitReadsMemory = FALSE
  Programs <- MCPrograms
INVARIANTS
  MemoryIsUsedInOrder
  TreeIsKept
  NothingStaysInMemory
  
CHECK_DEADLOCK FALSE
