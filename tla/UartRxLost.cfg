SPECIFICATION Spec
CONSTANTS
  UART_BUFFER_CNT = 2
  Byte <- MCByte
  ESP_BYTE0 = 2
  ESP_BYTE1 = 3
  MIN_LEN = 2
  UARTLINK_MAX_PAYLOAD_SIZE = 3
  PRE_HEADER_LEN = 1
  OPENLST_MAX_PAYLOAD_LEN = 3
  COMPLETE = 2
  CLEARED = 1
  LogsOwn = FALSE
  ForeignLogs = FALSE
INVARIANTS
  UnhandledIsVisible
