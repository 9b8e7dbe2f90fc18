SPECIFICATION FairSpec
CONSTANTS
  Texts = {t1}
  NoText = NoText
  MaxRevision = 2
  MaxIterations = 2
  MaxFaults = 1
  MaxCrashes = 2
  MaxFlips = 1
CHECK_DEADLOCK FALSE
PROPERTIES
  DocumentSettles
