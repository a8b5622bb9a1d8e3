SPECIFICATION Spec
CONSTANTS
  OPENLST_MAX_PAYLOAD_LEN = 251
  UART_BUFFER_CNT = 2
  MAX_KILL_COUNT = 1
  Traffics <- MCTraffics
  Tails = {1}
  Ids = {0, 256}
  MaxShown = 2
INVARIANTS
  TypeOK
  KillIsMeant
  KillIsObeyed
  PendingAckIsCurrent
  ScoreRepaired
  SentAsAsked
