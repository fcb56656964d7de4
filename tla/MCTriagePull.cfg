SPECIFICATION PullSpec
CONSTANTS
  MaxSequence = 2
  Frame = {f1, f2}
  PageSize = 1
  SeqWorkers = 2
  MaxFaults = 2
INVARIANT
  PresenceMarksComplete
PROPERTY
  BacklogPulled
