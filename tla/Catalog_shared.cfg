SPECIFICATION Spec
CONSTANTS
  r1 = r1
  r2 = r2
  Classes = {c1}
  Requests = {r1, r2}
  CallerMaps = {m1, m2}
  Scalars = {s1}
  Keys = {k1}
  Values = {v1, v2}
  None = None
  CallerReuses = FALSE
SYMMETRY Symmetric
INVARIANTS
  TypeOK
  NoDataRace
  Isolation
CHECK_DEADLOCK FALSE
PROPERTIES
  ClassFrozen
  ImplementsIsolated
