CONSTANTS
  WorkerCount = 2
  PartitionCount = 2
  Vertices <- JoinVertices
  Inputs <- JoinInputs
  TaskCount <- JoinTaskCount
  Writing <- JoinWriting
  MaxCommands = 3
SPECIFICATION FairSpec
INVARIANTS CallsInTime InputsComplete DeliveredOnce
PROPERTIES Completes
CHECK_DEADLOCK FALSE
