SPECIFICATION Spec
CONSTANTS
  e1 = e1
  r1 = r1
  NULL = NULL
  Eps = {e1}
  Resources = {r1}
  MidMod = 8
  MaxMid = 2
  RtcMod = 3
  CntMod = 2
  ACK_TIMEOUT = 1
  MAX_RETRANSMIT = 1
  POSTPONE_WAIT_TIME_SEK = 1
  POSTPONE_MAX_WAIT_TIME = 1
  CLIENT_MAX_RESP_WAIT_TIME = 1
  HOLDTIME_AFTER_NON_TRANSACTION_END = 0
  Slots = {s1, s2}
  ObsSlots = {}
  SendMayFail = TRUE
  MemMayFail = FALSE
  Methods <- MCMethods
  Observable = {}
  HandlerResults = {"CONTENT"}
  ConEvery = 2
  NotifierCodes = {"CONTENT"}
  NotifierTypes = {"CON"}
  NotifierMayFail = FALSE
  Servers = {e1}
  MaxRequests = 2
  Packets <- MCPackets
  Changing = {}
SYMMETRY MCSymmetry
INVARIANTS
  PointersOK
  CallbackFitsRequest
PROPERTIES
  NoResendAfterAnswer
  WaitsOnlyForSent
