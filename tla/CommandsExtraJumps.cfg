SPECIFICATION Spec
CONSTANTS
  OPENLST_MAX_PAYLOAD_LEN = 251
  UART_BUFFER_CNT = 2
  MAX_KILL_COUNT = 5
  Traffics <- KillTraffic
  Tails = {1}
  Ids = {0, 256}
  MaxShown = 5
INVARIANTS
  ExtraJumpsAreFew
