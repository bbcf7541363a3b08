SPECIFICATION Spec
CONSTANTS
  UnknownKinds = {"kind99"}
  Statuses = {0}
  GRPCs = {0}
  WSCodes = {0}
  Durations <- MCDurations
  Second = 4
  MaxDuration = 15
INVARIANT EveryDelayRoundsUp
