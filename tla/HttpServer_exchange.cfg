SPECIFICATION Spec
CONSTANTS
  Layers = 2
  Codes <- MCCodes
  Causes <- MCCauses
  MaxSteps = 3
  None = None
CHECK_DEADLOCK FALSE
INVARIANTS
  TypeOK
  PanicsAreAnswered
  SingleWriteArrives
  DelayIsOfItsOwnError
PROPERTIES
  EveryExchangeEnds
