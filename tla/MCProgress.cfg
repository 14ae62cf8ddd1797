SPECIFICATION MCSpec
CONSTANTS
  e1 = e1
  r1 = r1
  NULL = NULL
  Eps = {e1}
  Resources = {r1}
  MidMod = 2
  MaxMid = 1
  RtcMod = 4
  CallsPerTick = 3
  CntMod = 2
  ACK_TIMEOUT = 1
  MAX_RETRANSMIT = 1
  POSTPONE_WAIT_TIME_SEK = 1
  POSTPONE_MAX_WAIT_TIME = 1
  CLIENT_MAX_RESP_WAIT_TIME = 2
  HOLDTIME_AFTER_NON_TRANSACTION_END = 0
  Slots = {s1, s2}
  ObsSlots = {o1}
  SendMayFail = FALSE
  MemMayFail = FALSE
  Methods <- MCMethods
  Observable = {r1}
  HandlerResults = {"CONTENT", "POSTPONE"}
  ConEvery = 2
  NotifierCodes = {"CONTENT"}
  NotifierTypes = {"NON"}
  NotifierMayFail = FALSE
  Servers = {e1}
  MaxRequests = 1
  Packets <- MCPackets
  Changing = {r1}
PROPERTIES
  EndsUnlessClockOverruns
  EveryoneGetsTheirTurn
  UpdateGetsOut
