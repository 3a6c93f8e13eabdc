SPECIFICATION DoorsSpec
CONSTANTS
  Interlocks = {1}
  NormallyClosed = {}
  MaxResets = 0
INVARIANT InterlockHolds
