SPECIFICATION Spec
CONSTANTS
  e1 = e1
  r1 = r1
  NULL = NULL
  Eps = {e1}
  Resources = {r1}
  MidMod = 8
  MaxMid = 2
  RtcMod = 3
  CntMod = 2
  ACK_TIMEOUT = 1
  MAX_RETRANSMIT = 0
  POSTPONE_WAIT_TIME_SEK = 1
  POSTPONE_MAX_WAIT_TIME = 2
  CLIENT_MAX_RESP_WAIT_TIME = 3
  HOLDTIME_AFTER_NON_TRANSACTION_END = 0
  Slots = {s1, s2}
  ObsSlots = {o1, o2}
  SendMayFail = TRUE
  MemMayFail = TRUE
  Methods <- MCMethods
  Observable = {r1}
  HandlerResults = {"CONTENT", "POSTPONE"}
  ConEvery = 2
  NotifierCodes = {"CONTENT", "ERROR"}
  NotifierTypes = {"NON"}
  NotifierMayFail = TRUE
  Servers = {e1}
  MaxRequests = 0
  Packets <- MCPackets
  Changing = {r1}
SYMMETRY MCSymmetry
INVARIANTS
  TypeOK
  ListOK
  NotifiedIsObserver
PROPERTIES
  WaitsOnlyForSent
  NobodyPassedOver
CHECK_DEADLOCK FALSE
