SPECIFICATION SceneSpec
CONSTANTS
  Values = {v1, v2}
  Keys = {k1, k2}
  MaxRequests = 2
  MaxElsewhere = 1
  MaxFaults = 1
  MaxFiles = 3
  MaxMoves = 2
  MaxLosses = 1
SYMMETRY Symmetry
CHECK_DEADLOCK FALSE
INVARIANTS
  ScreenKeepsUp
PROPERTIES
  ActsOnWhatWasShown
  UploadsArrive
