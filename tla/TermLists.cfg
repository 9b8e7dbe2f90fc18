SPECIFICATION Spec
CONSTANTS
  Docs = {d1, d2}
  Terms = {t1, t2, t3}
  Families = {f1}
  Limit = 2
  MaxSaves = 1
  MaxDecisions = 2
  MaxFaults = 1
  MaxCrashes = 1
SYMMETRY Symmetry
CHECK_DEADLOCK FALSE
INVARIANTS
  DecisionsAreKept
PROPERTIES
  GlobalMaskApplies
  UndoTouchesOnlyItsTerm
