SPECIFICATION FairSpec
CONSTANTS
  Unary = {u}
  Streams = {s}
  Capacity = 1
  MaxPlain = 1
  MaxItems = 1
INVARIANTS
    EffectsInOrder
    NoSilentTruncation
PROPERTIES
    ClosedEndsRequests
    DisconnectEnds
CHECK_DEADLOCK FALSE
