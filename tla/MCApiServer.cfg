SPECIFICATION Spec
CONSTANTS
  Client = {c1, c2}
  Job <- MCJob
  Capacity = 2
  Threads = 2
  f1 = f1
  f2 = f2
  f3 = f3
INVARIANTS
  CacheSound
  FramesOnDisk
PROPERTIES
  Implements
  Answered
