SPECIFICATION Spec
CONSTANTS
  Offsets <- MCOffsets
  Sides = {"endpoint", "controller"}
  MaxSessions = 2
  Orderly = TRUE
  StaleAfter = 2
  Window = 3
  Bootstrap = 2
  Floor = 1
  MaxFlight = 2
INVARIANT OffsetAccurate
INVARIANT GateReopens
PROPERTY SpikesIgnored
