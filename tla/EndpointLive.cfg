SPECIFICATION EndpointSpec
CONSTANTS
  Kinds = {"alsa"}
  Streams = {1,2,3}
  StatsEvery = 2
  Late = FALSE
  Overtake = FALSE
  EventCap = 1
  CtrlCap = 3
  MaxBatch = 2
  MaxProposals = 2
  MaxCommands = 1
  Commands = {"stop"}
  MaxConns = 1
  MaxReleases = 1
  Verdicts = {"accept"}
  ReuseIds = FALSE
  Breaks = FALSE
  Ticks = TRUE
PROPERTY HeldIsAnswered
 
CHECK_DEADLOCK FALSE
