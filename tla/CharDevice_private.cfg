SPECIFICATION Spec
CONSTANTS
  Readers = {r1, r2}
  Writers = {w1}
  Closers = {r1, r2}
  Nobody = nobody
  Plain = plain
  Malformed = malformed
  Headers = {plain, r1, r2}
  MAXNUM = 2
  Padding = 1
  Wild = {}
  MaxLen = 2
  ReadLen = 2
  MaxMsgs = 2
  MaxFaults = 0
SYMMETRY ReaderSymmetry
CHECK_DEADLOCK FALSE
INVARIANT PrivateStaysPrivate
