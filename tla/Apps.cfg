SPECIFICATION Spec
CONSTANTS
  App <- MCApp
  Orders <- MCOrders
  NullActivate <- MCNullActivate
  Switchable <- MCSwitchable
INVARIANTS TypeOK MenuIsWhole  ShownMatches
PROPERTIES BslRelocked
