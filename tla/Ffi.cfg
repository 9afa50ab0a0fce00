SPECIFICATION FfiSpec
CONSTANTS
  EventCap = 2
  CtrlCap = 1
  Callbacks = {1}
  Kinds = {"accepted", "countered", "pause"}
  MaxMessages = 2
  MaxConns = 2
INVARIANT StatusHonest
INVARIANT ReplacedIsSilent
PROPERTY PollServes
CHECK_DEADLOCK FALSE
