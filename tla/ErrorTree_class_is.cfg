SPECIFICATION Spec
CONSTANTS
  Codes = {A, B}
  MaxNodes = 3
  None = None
CHECK_DEADLOCK FALSE
INVARIANTS
  ClassIsFindsAnywhere
