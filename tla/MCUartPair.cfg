SPECIFICATION Spec
CONSTANTS
  UART0_BUFFER_CNT = 1
  UART1_BUFFER_CNT = 1
  Byte <- MCByte
  ESP_BYTE0 = 2
  ESP_BYTE1 = 3
  MIN_LEN = 2
  UARTLINK_MAX_PAYLOAD_SIZE = 2
  PRE_HEADER_LEN = 1
  OPENLST_MAX_PAYLOAD_LEN = 2
  COMPLETE = 2
PROPERTIES
  Uart0IsALink
