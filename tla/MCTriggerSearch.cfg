SPECIFICATION Spec
CONSTANTS
  MaxFrames = 4
  PadMin = 4
  MinTubeLength = 2
  MinDetected = 2
  MaxInput = 6
  MaxTubes = 3
INVARIANTS
  NoAssertionError
  SameVerdict
  Earliest
  ReadsBack
\* predict returns.
CHECK_DEADLOCK FALSE
