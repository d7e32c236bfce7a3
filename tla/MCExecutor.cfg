CONSTANTS
  LOG_BLOCK_SIZE = 60
  MaxWorkers = 2
  MaxObservers = 2
  Configurations <- SomeConfigs
  Graphs <- SomeGraphs
  MemoryEvents <- SomeMemory
  MaxExecutions = 2
  MaxThrows = 2
  Main = Main
  None = None
SPECIFICATION FairSpec
INVARIANTS ObserversBracketed OutcomeTrue CancelReachesAll ProfileComplete
PROPERTIES FirstExceptionKept ExecutionEnds
CHECK_DEADLOCK FALSE
