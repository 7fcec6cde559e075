SPECIFICATION Spec
INVARIANTS TypeOK AnswersAreReadings
PROPERTIES
  
  DrawingReads
\* The bounds of the altimeter end its behaviours.
CHECK_DEADLOCK FALSE
