SPECIFICATION Spec
CONSTANTS
  CcaRetries = 1
  DelayUnits = 2
  FifoFrames = 2
  Kinds <- MCKinds
  MaxFrames = 3
  Forwards = TRUE
INVARIANTS DriverKnowsRadio 
PROPERTIES CallsEndAsBegun
