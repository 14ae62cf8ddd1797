SPECIFICATION PacedSpec
CONSTANTS
  e1 = e1
  r1 = r1
  NULL = NULL
  Eps = {e1}
  Resources = {r1}
  MidMod = 8
  MaxMid = 1
  RtcMod = 5
  CallsPerTick = 4
  CntMod = 4
  ACK_TIMEOUT = 1
  MAX_RETRANSMIT = 1
  POSTPONE_WAIT_TIME_SEK = 1
  POSTPONE_MAX_WAIT_TIME = 2
  CLIENT_MAX_RESP_WAIT_TIME = 3
  HOLDTIME_AFTER_NON_TRANSACTION_END = 0
  Slots = {s1, s2}
  ObsSlots = {}
  SendMayFail = FALSE
  MemMayFail = FALSE
  Methods <- MCMethods
  Observable = {}
  HandlerResults = {"CONTENT", "POSTPONE"}
  ConEvery = 2
  NotifierCodes = {"CONTENT", "ERROR"}
  NotifierTypes = {"CON"}
  NotifierMayFail = FALSE
  Servers = {e1}
  MaxRequests = 1
  Packets <- ClashPackets
  Changing = {}
SYMMETRY MCSymmetry
INVARIANTS
  AnswerFindsItsMessage
