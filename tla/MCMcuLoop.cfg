SPECIFICATION LoopSpec
CONSTANTS
  Irq = {16}
  Prio <- MCPrio
  Basepris = {0}
  Task = {}
  Main = main
  Budget = 3
  MaxServices = 3
  MaxDepth = 0
  SliceLen = 2
  Rvrs = {1, 3}
  Never = never
  MaxTime = 4
INVARIANTS
  LoopTypeOK
  OneSlice
  NoLostWakeup
  TickLatency
CHECK_DEADLOCK FALSE
