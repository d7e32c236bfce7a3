CONSTANTS
  WorkerCount = 2
  RunCount = 3
  Ports <- TwoPorts
  BroadcastPorts <- Broadcast
  Shapes <- AllShapes
  Limits <- BothLimits
  MayThrow = TRUE
  Main = Main
SPECIFICATION FairSpec
INVARIANTS SlotsExact ContractRespected InputsComplete CallbacksBracketed AllFinalized
PROPERTIES ExecutionEnds
