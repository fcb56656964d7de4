SPECIFICATION Spec
CONSTANTS
  ImageSize = 30
  ContextFactor = 2
  Camera = {"left", "right"}
  Tracks = 2
  Window = 3
  PadMin = 3
  ModelFrames = 3
  CacheSize = 4
  MaxFrame = 4
  Scene <- MCScene
INVARIANTS
  Faithful
  Retained
