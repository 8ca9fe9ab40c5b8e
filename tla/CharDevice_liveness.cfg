SPECIFICATION FairSpec
CONSTANTS
  Readers = {r1, r2}
  Writers = {w1}
  Closers = {}
  Nobody = nobody
  Plain = plain
  Malformed = malformed
  Headers = {malformed, nobody}
  MAXNUM = 3
  Padding = 1
  Wild = {}
  MaxLen = 1
  ReadLen = 2
  MaxMsgs = 2
  MaxFaults = 0
INVARIANT NoLostWakeup
PROPERTY RingIsQueue
PROPERTY WriteReturns
PROPERTY PassedWaitReturns
CHECK_DEADLOCK FALSE
