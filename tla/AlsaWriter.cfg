SPECIFICATION Spec
CONSTANTS
  QueueCap = 1
  MaxThreads = 2
  MaxPayloads = 2
INVARIANT OpenHonest
INVARIANT NothingLost
PROPERTY ImplementsContract
PROPERTY CallsReturn
