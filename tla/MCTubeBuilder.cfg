SPECIFICATION Spec
CONSTANTS
  Box <- MCBox
  Iou <- MCIou
  IouThreshold <- MCIouThreshold
  MaxMisses = 1
  MaxFrames = 4
  MaxDets = 2
INVARIANTS
  Contiguous
  GapBound
  Partition
  Linked
  StableMatching
PROPERTY
  AppendOnly
\* build_tubes returns: after Finish nothing is left to do.
CHECK_DEADLOCK FALSE
