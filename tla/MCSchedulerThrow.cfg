CONSTANTS
  WorkerCount = 3
  NodeCount = 2
  ThreadMapping <- TwoNodes
  Options <- StealAndPinned
  MaxTasks = 2
  MaxSuccessors = 2
  MayThrow = TRUE
  Main = Main
  Parked = Parked
  None = None
SPECIFICATION Spec
INVARIANTS NoSleepThroughEnd NoSleepThroughWork
