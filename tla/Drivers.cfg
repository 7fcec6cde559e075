SPECIFICATION Spec
CONSTANTS
  Button <- MCButton
  SensorPin <- MCSensorPin
  Short = 1
  Long = 2
  PortsWidth = 4
  MaxHold = 3
  Overlaps = {TRUE, FALSE}
  MaxLoops = 1
  MaxLate = 1
  Temperatures <- MCTemperatures
  Batteries <- MCBatteries
  BatteryOffset <- MCBatteryOffset
  TimerWidth = 5
  T20 = 3
  TProg = 2
  Duration <- MCDuration
  Latency = 1
  Timeout = 2
INVARIANT TypeOK
PROPERTIES
  ReportsAreTrue
  TimersKeepTime
  SensorIsConfigured
  DriversAnswer
\* The bounds of the converter end its behaviours.
CHECK_DEADLOCK FALSE
