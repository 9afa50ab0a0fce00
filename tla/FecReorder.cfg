SPECIFICATION Spec
CONSTANTS
  Starts = {5}
  SeqMod = 8
  MaxGroup = 2
  GroupSizes = {2}
  MaxPackets = 6
  MaxToggles = 1
  MaxDup = 1
  Reorder = TRUE
  MayLose = TRUE
  EndAnywhere = TRUE
INVARIANT NoPacketVanishes
INVARIANT RecoveredExact
CHECK_DEADLOCK FALSE
INVARIANT GroupsApart
