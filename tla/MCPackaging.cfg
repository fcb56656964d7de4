SPECIFICATION Spec
CONSTANTS
  Api = {"api"}
  Local = {"eval"}
  MaxTrains = 2
  MaxZips = 3
CONSTRAINT TwoAtOnce
INVARIANTS
  PackageSound
  ServedWhole
  PairMatches
