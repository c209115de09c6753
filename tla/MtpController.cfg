SPECIFICATION Spec
CONSTANTS
  r1 = r1  r2 = r2
  Requests = {r1, r2}
  Configs <- MCConfigs
  Depth = 3
  MaxDepth = 4
  CaptureSizes <- MCCaptureSizes
  MaxNumReqs = 4
  GraphModes <- MCGraphModes
  MaxTokens = 10
INVARIANTS
  FixedHolds
  StepsReplayable
PROPERTIES
  MeasurementsAttributed
  ProbesAreSpaced
  NeverLockedIn
