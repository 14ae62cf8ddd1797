SPECIFICATION FairClientSpec
CONSTANTS
  MaxRequests = 3
  MidMod = 3
  TransactionID <- MCTransactionID
  Timeouts = {1, 2}
  RESPONSE_TIMEOUT = 1
  MAX_RETRANSMIT = 1
  MaxLate = 1
  ConnectMayFail = TRUE
  MemMayFail = TRUE
CHECK_DEADLOCK FALSE
INVARIANTS
  ClientTypeOK
  TimerArmedIffPending
  PendingIsWhole
PROPERTIES
  NeverPutOff
  KeepsPromise
  CallerIsTold
