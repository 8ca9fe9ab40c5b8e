SPECIFICATION Spec
CONSTANTS
  Readers = {r1, r2}
  Writers = {w1}
  Closers = {r1, r2}
  Nobody = nobody
  Plain = plain
  Malformed = malformed
  Headers = {plain, r1, r2}
  MAXNUM = 2
  Padding = 1
  Wild = {9}
  MaxLen = 3
  ReadLen = 2
  MaxMsgs = 2
  MaxFaults = 1
SYMMETRY ReaderSymmetry
INVARIANT TypeOK
INVARIANT SemaphoreConserved
INVARIANT MutualExclusion
INVARIANT PointersInBounds
PROPERTY SemaphoreSpec
PROPERTY CalmRoundDelivers
CHECK_DEADLOCK FALSE
