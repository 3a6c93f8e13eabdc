SPECIFICATION FairSpec
CONSTANTS
  Doors = {1, 3}
  Cards = {"plain", "secret"}
  Permitted <- MCPermitted
  WithPIN = {"secret"}
  AntiPassbacks = {"1_23"}
  Interlocks = {4}
  MaxTraps = 3
  MaxFaults = 1
INVARIANTS Earned Alternates
PROPERTY Answered
CHECK_DEADLOCK FALSE
