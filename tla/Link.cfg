SPECIFICATION LinkSpec
CONSTANTS
  Endpoints = {"a", "b"}
  Talkers = {"a"}
  ResponseCap = 1
  ReleaseCap = 1
  ZoneCap = 1
  MaxResponses = 2
  MaxReleases = 2
  ReadsResponses = TRUE
INVARIANT ResponsesComplete
 
PROPERTY DropNoticed
CHECK_DEADLOCK FALSE
