SPECIFICATION ReleaseSpec
CONSTANTS
  Release = {r1, r2}
  Version = {1, 2}
  MaxRuns = 2
INVARIANT
  PairedByWorkflow
CHECK_DEADLOCK FALSE
