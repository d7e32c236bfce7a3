CONSTANTS
  CACHE_SIZE = 2
  RADIX_SORT_THRESHOLD = 4
  Inputs <- SomeInputs
  HashFunctions <- SomeHashes
  PartitionCount = 2
  DefaultBufferSize = 4
  DefaultRecordsPerBuffer = 2
  MaxFragments = 2
  Garbage <- SomeBytes
  None = None
SPECIFICATION Spec
INVARIANTS LayoutAgrees GatherExact GroupsExact ValuesSorted
CHECK_DEADLOCK FALSE
