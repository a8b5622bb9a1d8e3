SPECIFICATION Spec
CONSTANTS
  MemSize = 2
  Shared = {0}
  Byte <- MCByte
  DBL_BUFF_LEN = 2
  BACKUP_DATA_LEN = 6
  MaxLen = 2
  LogsPerTask = 2
INVARIANTS
  TypeOK
  Recoverable
  LogInBounds
PROPERTIES
  TasksAreAtomic
  OldestComesBack
  RecoveryAdvances
