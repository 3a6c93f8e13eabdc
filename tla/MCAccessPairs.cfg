SPECIFICATION Spec
CONSTANTS
  Doors = {1, 3}
  Cards = {"plain"}
  Permitted <- MCPermitted
  WithPIN = {}
  AntiPassbacks = {"12_34"}
  Interlocks = {0}
  MaxTraps = 2
  MaxFaults = 0
INVARIANT Independent
CHECK_DEADLOCK FALSE
