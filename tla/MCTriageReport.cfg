SPECIFICATION Spec
CONSTANTS
  Size <- MCSize
  Target = 2
  MaxRuns = 2
  MaxKills = 2
INVARIANTS
  InItsShard
  RoundTrip
  RowsHaveDetails
