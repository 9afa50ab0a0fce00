SPECIFICATION ServoSpec
CONSTANTS
  Kinds = {"alsa", "cpal"}
  Streams = {1}
  StatsEvery = 1
  Late = FALSE
  Overtake = FALSE
  PacketFrames = 2
  TickPackets = 2
  RingFrames = 4
  Deadband = 1
  Jump = 2
  PerWrite = 1
  StallAt = 3
  Progress = 1
  Skew = 1
  Ages = {0, 3}
  Elapsed = {5}
  Paces = {0}
  MaxLead = 2
  MaxFlight = 1
  Mutes = TRUE
 
INVARIANT PositionHonest
PROPERTY PlayStarts
PROPERTY ClosedIsReported
PROPERTY Realigns
INVARIANT CorrectionsJustified
