SPECIFICATION Spec
CONSTANTS
  range = range
  producer = producer
  user = user
  exit = exit
  External = External
  Ops <- MCOps
  Exit = exit
  Programs <- MCPrograms
  CyclicCopies = FALSE
  EmptyProducers = FALSE
INVARIANTS
  
  InstancesReadTheirOperands
  CopiesMatchInstances

  
CHECK_DEADLOCK FALSE
