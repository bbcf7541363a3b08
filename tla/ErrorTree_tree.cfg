SPECIFICATION Spec
CONSTANTS
  Codes = {A, B}
  MaxNodes = 4
  None = None
CHECK_DEADLOCK FALSE
INVARIANTS
  PanicsOnlyOnTypedNil
  ClassIsIsSound
  WrappersAreTransparent
  StatusMatchesTheLog
