SPECIFICATION Spec
CONSTANTS
  Evaluated = "test"
  Sequences <- MCSequences
  Label <- MCLabel
  Camera <- MCCamera
  NoImages = {"d"}
  Tubes <- MCTubes
  Trigger <- MCTrigger
  Config <- MCConfig
  MaxRuns = 2
  Source <- MCSource
  Standing <- MCStanding
  Thresholds = {30}
  Picked = {"n/a", "fp", "keep"}
  MaxClicks = 2
CONSTRAINT Opened
INVARIANTS
  MetricsAgree
  PanelOfTheRow
  VerdictsOfTheRun
  FiltersVisible
\* The user leaves the page and the last evaluation ends.
CHECK_DEADLOCK FALSE
