CONSTANTS
  WorkerCount = 2
  NodeCount = 1
  ThreadMapping <- OneNode
  Options <- StealAndPinned
  MaxTasks = 3
  MaxSuccessors = 2
  MayThrow = FALSE
  Main = Main
  Parked = Parked
  None = None
SPECIFICATION Spec
INVARIANTS TypeOK CountExact AssertionsHold HeldOnce FinishedMeansAllDone
PROPERTIES RefinesTaskGraph
