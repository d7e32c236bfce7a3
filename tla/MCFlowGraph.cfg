CONSTANTS
  Processors <- SomeProcessors
  MaxVertices = 3
  MaxEdges = 3
  MaxPorts = 2
SPECIFICATION Spec
INVARIANTS HasCycleExact BuilderPreconditions
