SPECIFICATION Spec
CONSTANTS
  MinFrames = 1
  MaxFrames = 2
  Sequence = {1, 2}
  Home = {h1, h2}
  Version = {1, 2, 3}
  Model = {1, 2}
  Tag = {1, 2}
  Serves <- MCServes
  WithTrigger = {2}
  TriggerModel = 2
  Live = {1}
  MaxBoxes = 3
  MaxEvents = 2
  MaxKills = 1
INVARIANTS
  OneHome
  ImagesWhole
  AccountedOnce
  Genuine
  DriftExplained
SYMMETRY Symmetry
