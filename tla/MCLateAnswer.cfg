SPECIFICATION ClientSpec
CONSTANTS
  MaxRequests = 2
  MidMod = 3
  TransactionID <- MCTransactionID
  Timeouts = {1, 2}
  RESPONSE_TIMEOUT = 1
  MAX_RETRANSMIT = 1
  MaxLate = 1
  ConnectMayFail = FALSE
  MemMayFail = FALSE
CHECK_DEADLOCK FALSE
INVARIANT UnknownTransactionHandled
