SPECIFICATION RingSpec
CONSTANTS
  Content = {c1, c2}
  Blank = Blank
  RequestedSize = 3
  IndexBits = 3
INVARIANTS NoSlotShared
PROPERTIES QueueImplementsFifo
