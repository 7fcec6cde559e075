SPECIFICATION Spec
CONSTANTS
  SegmentWords = 4
  Segments = 4
  Apps <- MCApps
  Values <- MCValues
  Other <- MCOther
  BootStart = 3
  BootEnd = 10
  Ranges <- MCRanges
  MinWords = 7
  MaxData = 2
  MaxLosses = 1
INVARIANTS StoreIsSound
 
CHECK_DEADLOCK FALSE
