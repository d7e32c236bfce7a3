CONSTANTS
  WorkerCount = 3
  RunCount = 1
  Ports <- NoPorts
  BroadcastPorts <- NoPorts
  Shapes <- InputShape
  Limits <- OneLimit
  MayThrow = TRUE
  Main = Main
SPECIFICATION Spec
INVARIANTS GlobalFinalizeLast
