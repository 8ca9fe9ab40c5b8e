SPECIFICATION Spec
CONSTANTS
  MIN_SLICE = 2
  DEFAULT_MEM_SIZE = 9
  Sizes = {6}
  Requests = {1, 2, 3, 5}
  MaxPid = 4
PROPERTY MovesOnlyToPlace
CHECK_DEADLOCK FALSE
