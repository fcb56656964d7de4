SPECIFICATION MergeSpec
CONSTANTS
  small = small
  large = large
  Box <- MCBox
  SameBox <- MCSameBox
  Rank <- MCRank
  MaxMisses = 1
  MergeMaxGap = 2
  MinTubeLength = 2
  MinDetected = 2
  MaxFrame = 6
  MaxObserved = 2
  MaxTubes = 3
INVARIANTS
  Components
  GapsBridged
  FragmentsKept
\* build_tubes_for_inference returns.
CHECK_DEADLOCK FALSE
