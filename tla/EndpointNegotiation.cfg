SPECIFICATION EndpointSpec
CONSTANTS
  Kinds = {"alsa"}
  Streams = {1,2,3}
  StatsEvery = 1
  Late = FALSE
  Overtake = FALSE
  EventCap = 2
  CtrlCap = 3
  MaxBatch = 2
  MaxProposals = 2
  MaxCommands = 1
  Commands = {"play"}
  MaxConns = 2
  MaxReleases = 1
  Verdicts = {"accept"}
  ReuseIds = FALSE
  Breaks = TRUE
  Ticks = FALSE
 
INVARIANT AnsweredOnce
CHECK_DEADLOCK FALSE
