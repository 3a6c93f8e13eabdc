SPECIFICATION FairSpec
CONSTANTS
  r1 = r1
  l1 = l1
  c1 = c1
  c2 = c2
  NoChunk = NoChunk
  U3Read = U3Read
  Relays = {r1}
  LEDs = {l1}
  Polarity = {}
  Chunks = {c1, c2}
  QueueSize = 1
  RelayTicks = 2
  TockTicks = 1
  U3Ticks = 0
  BlinkTicks = 1
  Blinks <- OneBlink
  MaxBlinks = 2
  MaxCommands = 2
  MaxFaults = 1
PROPERTIES Relocks Converges ImplementsDoorLocks
