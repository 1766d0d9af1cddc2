SPECIFICATION Spec
CONSTANTS
  Irq = {16, 17}
  Prio <- MCPrio
  Basepris = {0, 2}
  Task = {a, b}
  Main = main
  Budget = 9
  MaxServices = 2
  MaxDepth = 2
INVARIANTS
  TypeOK
  PriorityNesting
  Unwinds
PROPERTIES
  MostUrgentFirst
CHECK_DEADLOCK FALSE
