SPECIFICATION Spec
CONSTANTS
  TableSizes = {3, 4}
  FrameSizes = {1, 2, 3}
  RefSizes = {0, 7}
  Unset = Unset
  MaxRefs = 7
INVARIANTS TypeOK FlagsAreFrames MostRecentlyUsed LruFaultCount
PROPERTY ImplementsPaging
CHECK_DEADLOCK FALSE
