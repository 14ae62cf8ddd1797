SPECIFICATION ResourcesSpec
CONSTANTS
  NULL = NULL
  MAX_ACTIVE_SOCKETS = 1
  MaxFlying = 1
  Clients = {}
  MaxAsks = 0
  MaxSwitches = 1
INVARIANTS
  ObserverKnowsLed
CHECK_DEADLOCK FALSE
