SPECIFICATION TransferSpec
CONSTANTS
  NULL = NULL
  MAX_OPTION_VALUE_SIZE = 1034
  MAX_PAYLOAD_SIZE = 64
  PREFERED_PAYLOAD_SIZE = 16
  Table <- MCTable
  Requests <- Plain
  BlockSizes = {16}
  Lengths = {17}
  NotifyLengths = {10}
  MaxChanges = 0
  MaxNotified = 0
  CntStart = {0}
INVARIANTS
  PayloadAlone
CHECK_DEADLOCK FALSE
