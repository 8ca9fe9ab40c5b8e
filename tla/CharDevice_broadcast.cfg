SPECIFICATION FairSpec
CONSTANTS
  Readers = {r1, r2}
  Writers = {w1}
  Closers = {}
  Nobody = nobody
  Plain = plain
  Malformed = malformed
  Headers = {plain}
  MAXNUM = 2
  Padding = 1
  Wild = {}
  MaxLen = 1
  ReadLen = 2
  MaxMsgs = 1
  MaxFaults = 0
CHECK_DEADLOCK FALSE
PROPERTY BroadcastReachesAll
