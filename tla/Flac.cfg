SPECIFICATION Spec
CONSTANTS
  MagicLen = 2
  Metadata = {{"info", "art"}, {"art"}}
  BlockLen = 2
  Frames = 3
  FrameLen = 7
  HeaderLen = 3
  MaxFrame = 8
  MaxChunk = 3
  MaxLosses = 1
  Coincidence = FALSE
INVARIANT Exact
 
INVARIANT Recovers
