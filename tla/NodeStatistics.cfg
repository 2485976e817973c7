SPECIFICATION Spec
CONSTANTS
  period = 4
  TxDur = {1, 2}
  RxDur = {2}
  CcaDur = {2}
  COUNT_FROM = 4
  PktSize = 100
  MAX_CAPACITY = 1000
  MaxNow = 9
INVARIANTS IdleExcludesSending SentTimeHasBytes
