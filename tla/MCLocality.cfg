CONSTANTS
  Machines <- SomeMachines
  ThreadCounts <- UpToSix
  PartitionCounts <- Few
  NoNode = NoNode
  None = None
SPECIFICATION Spec
INVARIANTS BindingSucceeds RecommendedIsLocal UnitsShared
