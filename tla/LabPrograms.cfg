SPECIFICATION LabSpec
CONSTANTS
  Rounds = 3
  Bytes = 3
  Capacity = 6
  MaxKeys = 2
  MaxLoads = 3
INVARIANT TypeOK
INVARIANT MutualExclusion
INVARIANT NoLostUpdate
INVARIANT ValueInBand
INVARIANT WritersApart
INVARIANT EverythingRead
INVARIANT ByParentOnly
INVARIANT NoOrphans
INVARIANT EntryFollowsModule
INVARIANT NoFault
PROPERTY ThreadsEnd
PROPERTY PipeEnds
PROPERTY PausedFamilyEnds
CHECK_DEADLOCK FALSE
