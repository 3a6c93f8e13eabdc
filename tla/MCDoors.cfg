SPECIFICATION DoorsSpec
CONSTANTS
  Interlocks = {0, 1, 2, 3, 4, 8}
  NormallyClosed = {1, 2}
  MaxResets = 1
INVARIANT OthersExclusive
PROPERTY UnlockPermitted
