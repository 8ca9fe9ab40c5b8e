SPECIFICATION Spec
CONSTANTS
  MIN_SLICE = 2
  DEFAULT_MEM_SIZE = 12
  Sizes = {8}
  Requests = {1, 2, 3, 5}
  MaxPid = 5
INVARIANT TypeOK
INVARIANT Tiled
INVARIANT Coalesced
INVARIANT Ordered
INVARIANT Accounted
PROPERTY ImplementsPartition
CHECK_DEADLOCK FALSE
