SPECIFICATION Spec
CONSTANTS
  UnknownKinds = {"kind99"}
  Statuses = {0, 404, 502}
  GRPCs = {0, 5, 14}
  WSCodes = {0, 1008, 4999, 65535}
  Durations <- MCDurations
  Second = 4
  MaxDuration = 15
INVARIANTS
  TypeOK
  TablesTellOneStory
  RoundsUpExactly
  RetrySignalsAgree
