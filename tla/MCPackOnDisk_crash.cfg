SPECIFICATION PackSpec
CONSTANTS
  Layers = 1
  Levels <- TwoLevels
  Blind <- NoneBlind
  MaxStops = 1
INVARIANTS
  LayersAreWhole
