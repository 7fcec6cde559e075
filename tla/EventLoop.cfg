SPECIFICATION FairSpec
CONSTANTS
  RtcaEvent <- MCRtcaEvent
  RtcaBurst <- MCRtcaBurst
  Timer0Event <- MCTimer0Event
  Tick20Hz = "20HZ"
  AsInt = "AS"
  PsInt = "PS"
  Button = {"STAR"}
  MaxDelay = 2
INVARIANTS TypeOK BroadcastIsDue SensorNotLost
PROPERTIES FlagsAreHeard LoopTurns
