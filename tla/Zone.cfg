SPECIFICATION Spec
CONSTANTS
  ZoneIds = {"z1", "z2"}
  Endpoints = {"a", "b"}
  Used = {"z1"}
  Levels = {40}
  Offsets <- MCOffsets
  MaxConns = 2
  MaxCalls = 3
  Careful = TRUE
INVARIANT OneOwner
INVARIANT PeersKnown
PROPERTY AddReturns
CHECK_DEADLOCK FALSE
INVARIANT MembersInStep
