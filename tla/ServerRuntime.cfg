SPECIFICATION FairRuntimeSpec
CONSTANTS
  Main = Main
  Worker = Worker
  Threads = {Main, Worker, r1, r2}
  Docs = {d1, d2}
  Locks = {l1, l2}
  NoThread = NoThread
  NoLock = NoLock
  NoDoc = NoDoc
  MaxDepth = 2
  MaxRequests = 2
  MaxEnds = 1
CHECK_DEADLOCK FALSE
INVARIANTS
  MutualExclusion
  NoWorkIsLost
PROPERTIES
  UsesLocks
  EverybodyIsServed
