SPECIFICATION FairSpec
CONSTANTS
  QueueSize = 3
  RingSize = 3
  Count = 4
  Interval = 1
  Timeout = 2
  Mode = "LOG"
  MaxLoad = 1
INVARIANTS InOrder ErrorPathEnds Fed
PROPERTIES Reboots Shown
