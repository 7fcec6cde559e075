SPECIFICATION Spec
CONSTANTS
  Watches <- MCWatches
  Hub = "ap"
  NumConn <- MCNumConn
  PortBase = 32
  PortMax = 61
  Tids <- MCTids
  InSize = 2
  MaxRetries = 1
  MaxStarts = 2
  MaxUses = 1
  MaxLids = 2
INVARIANTS TypeOK EndsAgree EveryLinkIsTold
PROPERTIES LinkEnds
CHECK_DEADLOCK FALSE
