SPECIFICATION Spec
CONSTANTS
  Button <- MCButton
  SensorPin <- MCSensorPin
  Short = 1
  Long = 2
  PortsWidth = 4
  MaxHold = 3
  Overlaps = {TRUE, FALSE}
  MaxLoops = 1
  MaxLate = 1
  Temperatures <- MCTemperatures
  Batteries <- MCBatteries
  BatteryOffset <- MCBatteryOffset
  TimerWidth = 8
  T20 = 3
  TProg = 3
  Duration <- MCDuration
  Latency = 1
  Timeout = 2
PROPERTY DelayLasts
\* The bounds of the converter end its behaviours.
CHECK_DEADLOCK FALSE
