SPECIFICATION FairSpec
CONSTANTS
  UART_BUFFER_CNT = 2
  Byte <- MCByte
  ESP_BYTE0 = 2
  ESP_BYTE1 = 3
  MIN_LEN = 2
  UARTLINK_MAX_PAYLOAD_SIZE = 2
  PRE_HEADER_LEN = 1
  OPENLST_MAX_PAYLOAD_LEN = 2
  COMPLETE = 2
  CLEARED = 0
  LogsOwn = TRUE
  ForeignLogs = TRUE
INVARIANTS
  TypeOK
  ReceivesInBounds
  HandledFrameIsWhole
  AtLeastOnce
  NoOrphan
PROPERTIES
  OnlyPowerLoses
  EveryFrameHandled
