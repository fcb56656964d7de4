SPECIFICATION ReleaseSpec
CONSTANTS
  Release = {r1, r2}
  Version = {1, 2}
  MaxRuns = 2
INVARIANTS
  PairedInTurn
  Reproducible
PROPERTY
  Built
\* Every release is built, or has used up its runs.
CHECK_DEADLOCK FALSE
