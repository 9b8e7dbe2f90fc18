SPECIFICATION Spec
CONSTANTS
  Texts = {t1, t2}
  NoText = NoText
  MaxRevision = 3
  MaxIterations = 2
  MaxFaults = 1
  MaxCrashes = 2
  MaxFlips = 1
SYMMETRY Symmetry
CHECK_DEADLOCK FALSE
INVARIANTS
  IInv
  ApprovalIsSound
  ChatContextIsSound
  NothingIsKept
  NothingIsLost
PROPERTIES
  WorkerApprovesClean
  KeepsPromise
