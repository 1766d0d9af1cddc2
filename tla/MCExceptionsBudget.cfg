SPECIFICATION Spec
CONSTANTS
  Irq = {16, 17}
  Prio <- MCPrio
  Basepris = {0, 2}
  Task = {a, b}
  Main = main
  Budget = 2
  MaxServices = 2
  MaxDepth = 2
INVARIANTS
  StepsOver
CHECK_DEADLOCK FALSE
