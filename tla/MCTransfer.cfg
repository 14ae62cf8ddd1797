SPECIFICATION TransferSpec
CONSTANTS
  NULL = NULL
  MAX_OPTION_VALUE_SIZE = 1034
  MAX_PAYLOAD_SIZE = 64
  PREFERED_PAYLOAD_SIZE = 16
  Table <- MCTable
  Requests <- MCRequests
  BlockSizes = {16, 32, 64}
  Lengths = {0, 1, 16, 17, 64, 65, 130, 272}
  NotifyLengths = {10, 11, 40, 64}
  MaxChanges = 1
  MaxNotified = 4
  CntStart = {0, 254, 65534}
INVARIANTS
  OptionsSorted
  DatagramsReadBack
  ReceivedIsContent
  HandledAsAsked
  PayloadFits
  EveryAnswerContinues
CHECK_DEADLOCK FALSE
