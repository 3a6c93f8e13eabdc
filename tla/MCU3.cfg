SPECIFICATION FairSpec
CONSTANTS
  Inputs = {s1}
  Scale = 1000
  Gain = 73
  Decay = 854
  High = 900
  Low = 100
  Spacing = 14
  MaxBoots = 1
INVARIANT EventsFollow
PROPERTIES Debounced Settles
