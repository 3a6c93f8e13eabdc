CONSTANTS
  Moments <- MCMoments
  Initial <- MCInitial
  QueueSize = 2
  Chunks = {c1, c2}
  NoChunk = NoChunk
  Lapses = {0, 15}
  MaxSets = 2
  MaxFaults = 1
SPECIFICATION Spec
INVARIANT Owned
INVARIANT Coherent
PROPERTY Told
PROPERTY Synchronised
