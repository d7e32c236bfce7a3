CONSTANTS
  WorkerCount = 2
  NodeCount = 1
  ThreadMapping <- OneNode
  Options <- AllOptions
  MaxTasks = 2
  MaxSuccessors = 2
  MayThrow = TRUE
  Main = Main
  Parked = Parked
  None = None
SPECIFICATION FairSpec
PROPERTIES Termination EveryTaskCompletes
