SPECIFICATION Spec
CONSTANTS
  InSize = 2
  Links <- MCLinks
  Broadcast = "uud"
  MaxTid = 255
  FirstTid = 254
  MaxArrivals = 3
  MaxSends = 2
  MaxLinks = 1
INVARIANTS SlotsAccounted  AckedIsReceived
PROPERTIES EvictsOldest
CHECK_DEADLOCK FALSE
