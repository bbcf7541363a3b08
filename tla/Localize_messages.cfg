SPECIFICATION Spec
CONSTANTS
  Locales <- MCLocales
  Requests <- MCRequests
  Names <- MCNames
  Values <- MCValues
  Edited <- MCEdited
  Lower <- MCLower
  Chars <- MCChars
  Absent = Absent
INVARIANTS
  TypeOK
  TableIsFrozen
  FirstLanguageWins
  ScanIsExact
PROPERTIES
  EveryMessageEnds
