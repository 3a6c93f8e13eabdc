SPECIFICATION Spec
CONSTANTS
  r1 = r1
  r2 = r2
  l1 = l1
  c1 = c1
  c2 = c2
  NoChunk = NoChunk
  U3Read = U3Read
  Relays = {r1, r2}
  LEDs = {l1}
  Polarity = {l1}
  Chunks = {c1, c2}
  QueueSize = 2
  RelayTicks = 2
  TockTicks = 1
  U3Ticks = 1
  BlinkTicks = 1
  Blinks <- OneBlink
  MaxBlinks = 2
  MaxCommands = 2
  MaxFaults = 1
SYMMETRY ChunkSymmetry
INVARIANTS GuardHeld RelayTimed OperationsOwned NoLostUpdate EventsAgree
PROPERTIES BlinkEndsDark PanicsBehind
