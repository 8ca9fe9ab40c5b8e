SPECIFICATION Spec
CONSTANTS
  DIR_ENTRY_NUM_PER_BLOCK = 3
  BYTE_BITS = 2
  DATA_BLOCK_NUM = 7
  INODE_NUM = 7
  N_DIRECT = 2
  FOPEN_TABLE_MAX = 3
  PATH_ROOM = 8
  NameLength <- LengthOfName
  Names = {"a", "b"}
  DefaultMode <- ModeOfSuffix
  Modes <- ChmodModes
  Data = {"x"}
  Lengths = {4, 7}
  MaxCommands = 6
INVARIANTS TypeOK BlocksOwned EntriesAgree OpenTableSound
PROPERTY ImplementsTree
CHECK_DEADLOCK FALSE
