SPECIFICATION MCSpec
CONSTANTS
  e1 = e1
  e2 = e2
  r1 = r1
  o1 = o1
  o2 = o2
  o3 = o3
  NULL = NULL
  Eps = {e1, e2}
  Resources = {r1}
  MidMod = 8
  MaxMid = 3
  RtcMod = 9
  CntMod = 3
  ACK_TIMEOUT = 2
  MAX_RETRANSMIT = 1
  POSTPONE_WAIT_TIME_SEK = 1
  POSTPONE_MAX_WAIT_TIME = 2
  CLIENT_MAX_RESP_WAIT_TIME = 3
  HOLDTIME_AFTER_NON_TRANSACTION_END = 0
  Slots = {s1, s2}
  ObsSlots = {o1, o2, o3}
  SendMayFail = FALSE
  MemMayFail = FALSE
  Methods <- MCMethods
  Observable = {r1}
  HandlerResults = {"CONTENT"}
  ConEvery = 2
  NotifierCodes = {"CONTENT"}
  NotifierTypes = {"CON", "NON"}
  NotifierMayFail = FALSE
  Servers = {}
  MaxRequests = 0
  Packets <- MCPackets
  Changing = {r1}
SYMMETRY MCSymmetry
INVARIANTS
  NoLeak
  ObserversUnique
  OneNotificationPerObserver
  OwnMidsDistinct
  PendingIsFresh
  BackoffFitsRetries
PROPERTIES
  FailedNotificationEndsObservation
