CONSTANTS
  N = 2
  Transmissions <- MCTransmissions
  CardBits = 6
  KeyBits = {4}
  MaxBits = 8
  READ_TIMEOUT = 1
  CODE_TIMEOUT = 3
  CARD_LOCK = 2
  CODE_LOCK = 2
  PINSIZE = 2
  QueueSize = 2
  Chunks = {c1, c2}
  MaxSent = 2
  MaxFaults = 1
SPECIFICATION Spec
INVARIANT Owned
INVARIANT Assembled
PROPERTY Genuine
PROPERTY Quiesces
