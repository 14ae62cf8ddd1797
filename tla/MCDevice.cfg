SPECIFICATION DeviceSpec
CONSTANTS
  NULL = NULL
  MAX_ACTIVE_SOCKETS = 2
  MaxFlying = 2
  Clients = {c1, c2}
  MaxAsks = 3
  MaxSwitches = 2
  MAX_CON_RETRIES_BEFORE_ACTIVATING_SOFT_AP = 2
  maxMissedConnections = 3
  MaxPuts = 1
INVARIANTS
  GateShutOnlyWhileSending
  ScanResultOwned
PROPERTIES
  EveryAskEnds
  BecomesReachable
CHECK_DEADLOCK FALSE
