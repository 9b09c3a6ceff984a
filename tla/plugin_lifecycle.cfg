SPECIFICATION Spec

CONSTANTS
  p1 = p1
  p2 = p2
  Procs = {p1, p2}
  Package <- MCPackage
  Executions <- MCExecutions
  Commands <- MCCommands
  Torn = Torn
  MaxCommands = 5
  MaxDeaths = 1

SYMMETRY Twins

CHECK_DEADLOCK FALSE

INVARIANTS
  TypeOK
  PlanLoads

PROPERTIES
  RemoveRepairs
  ImplementsRegistry
