SPECIFICATION Spec
CONSTANTS
  Starts = {0, 1, 2, 3}
  Lengths = {1, 2, 3, 4}
  BlockSize = 2
  DefaultLimit = 3
  RaisedLimit = 8
  FieldEnds = {0, 2}
  MaxFaults = 2
  Classes = 4
  Confidences = {0, 1, 2, 3}
  Infinity = 3
  NaN = NaN
  Threshold = 1
  NumResults = 2
  MaxRuns = 1
INVARIANTS
  ParsedIsAsset
  TopNInOrder
  SpokenIsBest
  DeathIsExplained
PROPERTY CallsReturn
