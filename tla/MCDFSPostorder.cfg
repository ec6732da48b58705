SPECIFICATION DFSSpec
CONSTANTS
  NumNodes = 4
  MaxPredecessors = 2
  Nodes <- MCNodes
  NullNode = null
  Graphs <- MCGraphs
INVARIANTS
  RootComesLast
  VerdictIsRight
CHECK_DEADLOCK FALSE
