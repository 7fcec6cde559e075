SPECIFICATION Spec
CONSTANTS
  Zones = {"US", "NZ"}
  Compiled <- MCCompiled
  FirstYear = 2015
  LastYear = 2016
  Hours = 12
  Minutes = 2
  EditFrom <- MCEditFrom
INVARIANTS TypeOK  
PROPERTIES FallsBackOnce
\* The years the clock runs through end.
CHECK_DEADLOCK FALSE
