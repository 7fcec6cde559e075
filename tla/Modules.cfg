SPECIFICATION Spec
CONSTANTS
  Callback <- MCCallback
  Event = {"MINUTE", "SECOND"}
  Mask <- MCMask
  Node <- MCNode
  NoNode = 0
  Content = {"blank", "time"}
  BlankScreen = "blank"
  MaxScreens = 3
  Block <- MCBlock
  LCD = 6
  NoScreens <- MCNoScreens
  MAX_LAPS = 3
  Cents = 5
  Seconds = 2
  Minutes = 2
  Hours = 2
  TideStarts = {600}
  Entered <- MCEntered
  MaxMinutes = 5
  DDayStarts <- MCDDayStarts
  MaxDays = 3
  Dday <- MCDday
  MaxSteps = 2
  OtpStarts <- MCOtpStarts
  MaxSeconds = 35
  Offsets <- MCOffsets
  SERVICE_COUNT = 3
INVARIANTS TypeOK 
PROPERTIES
  
  ScreensAreKept
