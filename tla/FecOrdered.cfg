SPECIFICATION Spec
CONSTANTS
  Starts = {8}
  SeqMod = 11
  MaxGroup = 3
  GroupSizes = {2, 3}
  MaxPackets = 10
  MaxToggles = 1
  MaxDup = 0
  Reorder = FALSE
  MayLose = TRUE
  EndAnywhere = FALSE
INVARIANT SingleLossRepaired
INVARIANT EmittedInOrder
INVARIANT LinkStatsExact
INVARIANT StreamEndDrained
CHECK_DEADLOCK FALSE
