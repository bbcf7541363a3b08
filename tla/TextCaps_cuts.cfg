SPECIFICATION Spec
CONSTANTS
  Bytes <- MCBytes
  Width <- MCWidth
  Texts <- MCTexts
  Cap = 4
  Marker <- MCMarker
  Replacement <- MCReplacement
CHECK_DEADLOCK FALSE
INVARIANTS
  TypeOK
  CutIsLongest
  RunesStayWhole
  RecappingIsStable
