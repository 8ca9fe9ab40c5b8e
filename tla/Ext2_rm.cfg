SPECIFICATION Spec
CONSTANTS
  DIR_ENTRY_NUM_PER_BLOCK = 8
  BYTE_BITS = 2
  DATA_BLOCK_NUM = 17
  INODE_NUM = 17
  N_DIRECT = 2
  FOPEN_TABLE_MAX = 3
  PATH_ROOM = 8
  NameLength <- LengthOfName
  Names = {"a", "b"}
  DefaultMode <- ModeOfSuffix
  Modes <- ChmodModes
  Data = {"x"}
  Lengths = {4, 7}
  MaxCommands = 4
PROPERTY RmLeavesTheDirectory
CHECK_DEADLOCK FALSE
