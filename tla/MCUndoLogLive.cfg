SPECIFICATION FairSpec
CONSTANTS
  MemSize = 2
  Shared = {0}
  Byte <- MCByte
  DBL_BUFF_LEN = 1
  BACKUP_DATA_LEN = 4
  MaxLen = 1
  LogsPerTask = 3
PROPERTIES
  RecoveryEnds
