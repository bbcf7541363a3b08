SPECIFICATION LogSpec
CONSTANTS
  Parts <- MCParts
  Texts = {"detail"}
  Statuses = {404}
  Keys = {"code", "cause", "stack"}
  Vals = {v, w}
  MaxFields = 2
  Loggers <- MCLoggers
  Causes = {"wrapped", "plain"}
  HerrCauses = {"wrapped"}
  CauseTexts = {before, after}
  Itself = "plain"
  Empty = Empty
  Nil = Nil
SYMMETRY Alike
CHECK_DEADLOCK FALSE
INVARIANTS
  RecordIsASnapshot
  AdaptersAgree
PROPERTIES
  OneEntryPerRecord
