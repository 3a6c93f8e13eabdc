SPECIFICATION Spec
CONSTANTS
  Tags = {"interlock", "delay"}
  Accepts <- MCAccepts
  Defaults <- MCDefaults
  None = None
  MaxVersion = 4
  Room = 2
  MaxChanges = 5
  MaxBoots = 1
  MaxTears = 2
INVARIANTS CrashSafe LatestRestored Persisted
PROPERTY WriteElsewhere
CHECK_DEADLOCK FALSE
