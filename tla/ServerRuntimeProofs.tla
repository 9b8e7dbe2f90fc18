------------------------ MODULE ServerRuntimeProofs ------------------------
(***************************************************************************)
(* The threads of ServerRuntime use the locks as DocumentLocks allows, so  *)
(* what is proved of DocumentLocks holds of the running server.            *)
(***************************************************************************)
EXTENDS ServerRuntime, TLAPS

----------------------------------------------------------------------------
(* No two threads are inside the block of one document: LockInv is         *)
(* inductive, and it ties every frame to the one lock object of its        *)
(* document.                                                               *)

Steps == {"lookup", "create", "acquire", "body", "left"}

LEMMA OneIsBelow ==
  ASSUME NEW n \in Nat \ {0}, n # 1
  PROVE  1 \in 1..n - 1 /\ n - 1 > 0
OBVIOUS

LEMMA OneOrMore ==
  ASSUME NEW n \in Nat \ {0}
  PROVE  n = 1 \/ n > 1
OBVIOUS

\* Only the innermost frame of one thread changes.
LEMMA AdvanceFacts ==
  ASSUME frames \in [Threads -> Seq(Frames)], NEW t \in Threads, frames[t] # <<>>,
         NEW l \in Locks \cup {NoLock}, NEW s \in Steps, Advance(t, l, s)
  PROVE  /\ frames' \in [Threads -> Seq(Frames)]
         /\ \A u \in Threads : u # t => frames'[u] = frames[u]
         /\ Len(frames'[t]) = Len(frames[t]) /\ Len(frames[t]) \in Nat \ {0}
         /\ \A i \in 1..Len(frames[t]) - 1 : frames'[t][i] = frames[t][i]
         /\ frames'[t][Len(frames[t])] = [doc |-> Top(t).doc, lock |-> l, at |-> s]
         /\ frames'[t] # <<>> /\ Top(t)' = [doc |-> Top(t).doc, lock |-> l, at |-> s]
<1> DEFINE n == Len(frames[t])
           f == [doc |-> Top(t).doc, lock |-> l, at |-> s]
<1>1. n \in Nat \ {0} /\ Top(t) \in Frames
  BY DEF Top
<1>2. f \in Frames
  BY <1>1 DEF Frames, Steps
<1>3. frames' = [frames EXCEPT ![t] = [frames[t] EXCEPT ![n] = f]]
  BY DEF Advance
<1>4. [frames[t] EXCEPT ![n] = f] \in Seq(Frames)
  BY <1>1, <1>2
<1>5. frames'[t] = [frames[t] EXCEPT ![n] = f]
  BY <1>3
<1>6. Len(frames'[t]) = n
  BY <1>5, <1>1
<1>7. QED
  BY <1>1, <1>2, <1>3, <1>4, <1>5, <1>6 DEF Top

\* What the invariant says of the innermost frame.
LEMMA TopFacts ==
  ASSUME LockInv, NEW t \in Threads, frames[t] # <<>>
  PROVE  /\ Len(frames[t]) \in Nat \ {0} /\ Top(t) = frames[t][Len(frames[t])]
         /\ Top(t) \in Frames /\ Top(t).doc = frames[t][1].doc
         /\ Top(t).at \in {"lookup", "create"} => Top(t).lock = NoLock
         /\ Top(t).at \notin {"lookup", "create"} =>
              Top(t).lock \in Locks /\ Top(t).lock = table[Top(t).doc]
<1>1. Len(frames[t]) \in Nat \ {0} /\ Top(t) = frames[t][Len(frames[t])]
      /\ Top(t) \in Frames
  BY DEF LockInv, LockTypeOK, Top
<1>2. QED
  BY <1>1 DEF LockInv, FramesNest, OneLockPerDocument

\* Outer frames are inside the block, with the lock of the innermost.
LEMMA OuterFacts ==
  ASSUME LockInv, NEW t \in Threads, NEW i \in 1..Len(frames[t]),
         i < Len(frames[t])
  PROVE  /\ frames[t] # <<>> /\ frames[t][i] \in Frames
         /\ frames[t][i].at = "body" /\ frames[t][i].doc = Top(t).doc
         /\ frames[t][i].lock \in Locks /\ frames[t][i].lock = table[Top(t).doc]
         /\ owner[frames[t][i].lock] = t
<1>1. frames[t] # <<>> /\ frames[t][i] \in Frames /\ Len(frames[t]) \in Nat
  BY DEF LockInv, LockTypeOK
<1>2. frames[t][i].at = "body" /\ frames[t][i].doc = Top(t).doc
  BY <1>1, TopFacts DEF LockInv, FramesNest
<1>3. frames[t][i].lock \in Locks /\ frames[t][i].lock = table[Top(t).doc]
  BY <1>2 DEF LockInv, OneLockPerDocument
<1>4. QED
  BY <1>1, <1>2, <1>3 DEF LockInv, OwnerIsInside

LEMMA InitInv == LockInit => LockInv
<1> SUFFICES ASSUME LockInit PROVE LockInv
  OBVIOUS
<1>1. LockTypeOK
  BY DEF LockInit, LockTypeOK
<1>2. \A t \in Threads : frames[t] = <<>> /\ Len(frames[t]) = 0
  BY DEF LockInit
<1>3. FramesNest /\ OneLockPerDocument /\ CreatorIsGuarded
  BY <1>2 DEF FramesNest, OneLockPerDocument, CreatorIsGuarded, At
<1>4. EntriesAreLive /\ NoLockIsShared
  BY DEF LockInit, EntriesAreLive, NoLockIsShared
<1>5. OwnerIsInside
  BY <1>2 DEF LockInit, OwnerIsInside
<1>6. QED
  BY <1>1, <1>3, <1>4, <1>5 DEF LockInv

\* Where a frame that goes on leaves the others, by the invariant's parts.
LEMMA AdvanceNests ==
  ASSUME LockInv, NEW t \in Threads, frames[t] # <<>>,
         NEW l \in Locks \cup {NoLock}, NEW s \in Steps, Advance(t, l, s)
  PROVE  FramesNest'
<1> DEFINE n == Len(frames[t])
<1>1. frames \in [Threads -> Seq(Frames)]
  BY DEF LockInv, LockTypeOK
<1>2. /\ \A u \in Threads : u # t => frames'[u] = frames[u]
      /\ Len(frames'[t]) = n /\ n \in Nat \ {0}
      /\ \A i \in 1..n - 1 : frames'[t][i] = frames[t][i]
      /\ frames'[t][n] = [doc |-> Top(t).doc, lock |-> l, at |-> s]
  BY <1>1, AdvanceFacts
<1> SUFFICES ASSUME NEW u \in Threads, NEW i \in 1..Len(frames'[u])
             PROVE  /\ frames'[u][i].doc = frames'[u][1].doc
                    /\ i < Len(frames'[u]) => frames'[u][i].at = "body"
  BY DEF FramesNest
<1>3. CASE u # t
  BY <1>3, <1>2 DEF LockInv, FramesNest
<1>4. CASE u = t
  BY <1>4, <1>2, TopFacts DEF LockInv, FramesNest
<1>5. QED
  BY <1>3, <1>4

LEMMA AdvanceKeepsTable ==
  ASSUME LockInv, NEW t \in Threads, frames[t] # <<>>,
         NEW l \in Locks \cup {NoLock}, NEW s \in Steps, Advance(t, l, s),
         table' = table, Top(t).lock \in {NoLock, l},
         IF s \in {"lookup", "create"} THEN l = NoLock
         ELSE l \in Locks /\ l = table[Top(t).doc]
  PROVE  OneLockPerDocument' /\ EntriesAreLive' /\ NoLockIsShared'
<1> DEFINE n == Len(frames[t])
<1>1. frames \in [Threads -> Seq(Frames)]
  BY DEF LockInv, LockTypeOK
<1>2. /\ \A u \in Threads : u # t => frames'[u] = frames[u]
      /\ Len(frames'[t]) = n /\ n \in Nat \ {0}
      /\ \A i \in 1..n - 1 : frames'[t][i] = frames[t][i]
      /\ frames'[t][n] = [doc |-> Top(t).doc, lock |-> l, at |-> s]
  BY <1>1, AdvanceFacts
<1>3. OneLockPerDocument'
  <2> SUFFICES ASSUME NEW u \in Threads, NEW i \in 1..Len(frames'[u])
               PROVE  IF frames'[u][i].at \in {"lookup", "create"}
                      THEN frames'[u][i].lock = NoLock
                      ELSE /\ frames'[u][i].lock \in Locks
                           /\ frames'[u][i].lock = table[frames'[u][i].doc]
    BY DEF OneLockPerDocument
  <2>1. CASE u # t \/ i # n
    BY <2>1, <1>2 DEF LockInv, OneLockPerDocument
  <2>2. CASE u = t /\ i = n
    BY <2>2, <1>2
  <2>3. QED
    BY <2>1, <2>2
<1>4. EntriesAreLive'
  <2> SUFFICES ASSUME NEW e \in Docs, table[e] # NoLock
               PROVE  \E u \in Threads : \E i \in 1..Len(frames'[u]) :
                        frames'[u][i].doc = e /\ frames'[u][i].lock = table[e]
    BY DEF EntriesAreLive
  <2>1. PICK u \in Threads : \E i \in 1..Len(frames[u]) :
               frames[u][i].doc = e /\ frames[u][i].lock = table[e]
    BY DEF LockInv, EntriesAreLive
  <2>2. PICK i \in 1..Len(frames[u]) : frames[u][i].doc = e /\ frames[u][i].lock = table[e]
    BY <2>1
  <2>3. CASE u = t /\ i = n
    BY <2>2, <2>3, <1>2, TopFacts
  <2>4. CASE ~(u = t /\ i = n)
    BY <2>2, <2>4, <1>2
  <2>5. QED
    BY <2>3, <2>4
<1>5. NoLockIsShared'
  BY DEF LockInv, NoLockIsShared
<1>6. QED
  BY <1>3, <1>4, <1>5

LEMMA AdvanceKeepsOwner ==
  ASSUME LockInv, NEW t \in Threads, frames[t] # <<>>,
         NEW l \in Locks \cup {NoLock}, NEW s \in Steps \ {"body"}, Advance(t, l, s),
         Top(t).at # "body", UNCHANGED <<owner, depth>>
  PROVE  OwnerIsInside'
<1> DEFINE n == Len(frames[t])
<1>1. frames \in [Threads -> Seq(Frames)]
  BY DEF LockInv, LockTypeOK
<1>2. /\ \A u \in Threads : u # t => frames'[u] = frames[u]
      /\ Len(frames'[t]) = n /\ n \in Nat \ {0}
      /\ \A i \in 1..n - 1 : frames'[t][i] = frames[t][i]
      /\ frames'[t][n] = [doc |-> Top(t).doc, lock |-> l, at |-> s]
      /\ frames'[t] # <<>> /\ Top(t)' = [doc |-> Top(t).doc, lock |-> l, at |-> s]
  BY <1>1, AdvanceFacts
<1>3. ASSUME NEW u \in Threads PROVE Bodies(u)' = Bodies(u)
  <2>1. CASE u # t
    BY <2>1, <1>2 DEF Bodies, Top
  <2>2. CASE u = t
    BY <2>2, <1>2 DEF Bodies
  <2>3. QED
    BY <2>1, <2>2
<1>4. ASSUME NEW u \in Threads, NEW i \in 1..Len(frames'[u]), frames'[u][i].at = "body"
      PROVE  owner'[frames'[u][i].lock] = u
  <2>1. u # t \/ i # n
    BY <1>2, <1>4
  <2>2. frames'[u][i] = frames[u][i] /\ i \in 1..Len(frames[u])
    BY <2>1, <1>2
  <2>3. QED
    BY <1>4, <2>2 DEF LockInv, OwnerIsInside
<1>5. ASSUME NEW k \in Locks, owner[k] # NoThread
      PROVE  /\ frames'[owner[k]] # <<>> /\ frames'[owner[k]][1].lock = k
             /\ Bodies(owner[k])' > 0 /\ depth[k] = Bodies(owner[k])'
  <2>1. PICK u \in Threads : u = owner[k]
    BY <1>5 DEF LockInv, LockTypeOK
  <2>2. frames[u] # <<>> /\ frames[u][1].lock = k /\ Bodies(u) > 0 /\ depth[k] = Bodies(u)
    BY <1>5, <2>1 DEF LockInv, OwnerIsInside
  <2>3. u = t => n # 1
    BY <2>2, <1>2 DEF Bodies
  <2>4. frames'[u] # <<>> /\ frames'[u][1].lock = k
    <3>1. CASE u = t
      <4>1. 1 \in 1..n - 1
        BY <3>1, <2>3, <1>2, OneIsBelow
      <4>2. QED
        BY <3>1, <4>1, <2>2, <1>2
    <3>2. QED
      BY <3>1, <2>2, <1>2
  <2>5. Bodies(u)' = Bodies(u)
    BY <1>3
  <2>6. QED
    BY <2>1, <2>2, <2>4, <2>5
<1>6. QED
  BY <1>4, <1>5 DEF LockInv, OwnerIsInside

\* A thread that does not create leaves the creator alone.
LEMMA AdvanceKeepsCreator ==
  ASSUME LockInv, NEW t \in Threads, frames[t] # <<>>,
         NEW l \in Locks \cup {NoLock}, NEW s \in Steps, Advance(t, l, s),
         table' = table, guard' \in {guard, t}, guard' # guard => guard = NoThread,
         s = "create" => guard' = t /\ table[Top(t).doc] = NoLock
  PROVE  CreatorIsGuarded'
<1>1. frames \in [Threads -> Seq(Frames)]
  BY DEF LockInv, LockTypeOK
<1>2. /\ \A u \in Threads : u # t => frames'[u] = frames[u]
      /\ frames'[t] # <<>> /\ Top(t)' = [doc |-> Top(t).doc, lock |-> l, at |-> s]
  BY <1>1, AdvanceFacts
<1> SUFFICES ASSUME NEW u \in Threads, At(u, "create")'
             PROVE  guard' = u /\ table[Top(u)'.doc] = NoLock
  BY DEF CreatorIsGuarded
<1>3. CASE u = t
  BY <1>2, <1>3 DEF At
<1>4. CASE u # t
  <2>1. At(u, "create") /\ Top(u)' = Top(u)
    BY <1>4, <1>2 DEF At, Top
  <2>2. guard = u /\ table[Top(u).doc] = NoLock
    BY <2>1 DEF LockInv, CreatorIsGuarded
  <2>3. QED
    BY <2>1, <2>2, LockConstants
<1>5. QED
  BY <1>3, <1>4

LEMMA LookUpKeeps ==
  ASSUME LockInv, NEW t \in Threads, LookUp(t)
  PROVE  LockInv'
<1> DEFINE l == table[Top(t).doc]
           s == IF l # NoLock THEN "acquire" ELSE "create"
<1>1. frames[t] # <<>> /\ Top(t).at = "lookup" /\ Top(t).lock = NoLock /\ guard = NoThread
  BY TopFacts DEF LookUp, At
<1>2. Top(t).doc \in Docs /\ l \in Locks \cup {NoLock} /\ s \in Steps \ {"body"}
  BY <1>1, TopFacts DEF Frames, LockInv, LockTypeOK, Steps
<1>3. Advance(t, l, s)
  BY DEF LookUp
<1>4. UNCHANGED <<table, owner, depth>> /\ guard' = IF l # NoLock THEN guard ELSE t
  BY DEF LookUp
<1>5. frames' \in [Threads -> Seq(Frames)]
  BY <1>1, <1>2, <1>3, AdvanceFacts DEF LockInv, LockTypeOK
<1>6. LockTypeOK'
  BY <1>4, <1>5 DEF LockInv, LockTypeOK
<1>7. FramesNest'
  BY <1>1, <1>2, <1>3, AdvanceNests
<1>8. OneLockPerDocument' /\ EntriesAreLive' /\ NoLockIsShared'
  BY <1>1, <1>2, <1>3, <1>4, AdvanceKeepsTable
<1>9. CreatorIsGuarded'
  BY <1>1, <1>2, <1>3, <1>4, AdvanceKeepsCreator
<1>10. OwnerIsInside'
  BY <1>1, <1>2, <1>3, <1>4, AdvanceKeepsOwner
<1>11. QED
  BY <1>6, <1>7, <1>8, <1>9, <1>10 DEF LockInv

LEMMA TimeOutKeeps ==
  ASSUME LockInv, NEW t \in Threads, TimeOut(t)
  PROVE  LockInv'
<1> DEFINE l == Top(t).lock
<1>1. frames[t] # <<>> /\ Top(t).at = "acquire" /\ l \in Locks /\ l = table[Top(t).doc]
  BY TopFacts DEF TimeOut, At
<1>2. "left" \in Steps \ {"body"} /\ Advance(t, l, "left")
  BY DEF TimeOut, Steps
<1>3. UNCHANGED <<guard, table, owner, depth>>
  BY DEF TimeOut
<1>4. frames' \in [Threads -> Seq(Frames)]
  BY <1>1, <1>2, AdvanceFacts DEF LockInv, LockTypeOK
<1>5. LockTypeOK'
  BY <1>3, <1>4 DEF LockInv, LockTypeOK
<1>6. FramesNest'
  BY <1>1, <1>2, AdvanceNests
<1>7. OneLockPerDocument' /\ EntriesAreLive' /\ NoLockIsShared'
  BY <1>1, <1>2, <1>3, AdvanceKeepsTable
<1>8. CreatorIsGuarded'
  BY <1>1, <1>2, <1>3, AdvanceKeepsCreator
<1>9. OwnerIsInside'
  BY <1>1, <1>2, <1>3, AdvanceKeepsOwner
<1>10. QED
  BY <1>5, <1>6, <1>7, <1>8, <1>9 DEF LockInv

LEMMA CreateKeeps ==
  ASSUME LockInv, NEW t \in Threads, Create(t)
  PROVE  LockInv'
<1> DEFINE n == Len(frames[t])
           d == Top(t).doc
<1>1. frames[t] # <<>> /\ Top(t).at = "create" /\ Top(t).lock = NoLock /\ d \in Docs
      /\ guard = t /\ table[d] = NoLock
  BY TopFacts DEF Create, At, Frames, LockInv, CreatorIsGuarded
<1>2. PICK l \in Locks : /\ ~Refers(frames, l) /\ Advance(t, l, "acquire")
                         /\ table' = [table EXCEPT ![d] = l]
  BY DEF Create
<1>3. guard' = NoThread /\ UNCHANGED <<owner, depth>>
  BY DEF Create
<1>4. "acquire" \in Steps \ {"body"} /\ frames \in [Threads -> Seq(Frames)]
      /\ table \in [Docs -> Locks \cup {NoLock}]
  BY DEF Steps, LockInv, LockTypeOK
<1>5. /\ frames' \in [Threads -> Seq(Frames)]
      /\ \A u \in Threads : u # t => frames'[u] = frames[u]
      /\ Len(frames'[t]) = n /\ n \in Nat \ {0}
      /\ \A i \in 1..n - 1 : frames'[t][i] = frames[t][i]
      /\ frames'[t][n] = [doc |-> d, lock |-> l, at |-> "acquire"]
      /\ frames'[t] # <<>> /\ Top(t)' = [doc |-> d, lock |-> l, at |-> "acquire"]
  BY <1>1, <1>2, <1>4, AdvanceFacts
<1>6. \A u \in Threads : \A i \in 1..Len(frames[u]) : frames[u][i].lock # l
  BY <1>2, <1>4 DEF Refers
<1>7. \A u \in Threads : \A i \in 1..Len(frames[u]) :
        frames[u][i].at \notin {"lookup", "create"} => frames[u][i].doc # d
  BY <1>1, LockConstants DEF LockInv, OneLockPerDocument
<1>8. table' \in [Docs -> Locks \cup {NoLock}] /\ table'[d] = l
      /\ \A e \in Docs : e # d => table'[e] = table[e]
  BY <1>1, <1>2, <1>4
<1>9. LockTypeOK'
  BY <1>3, <1>5, <1>8 DEF LockInv, LockTypeOK
<1>10. FramesNest'
  BY <1>1, <1>2, <1>4, AdvanceNests
<1>11. OneLockPerDocument'
  <2> SUFFICES ASSUME NEW u \in Threads, NEW i \in 1..Len(frames'[u])
               PROVE  IF frames'[u][i].at \in {"lookup", "create"}
                      THEN frames'[u][i].lock = NoLock
                      ELSE /\ frames'[u][i].lock \in Locks
                           /\ frames'[u][i].lock = table'[frames'[u][i].doc]
    BY DEF OneLockPerDocument
  <2>1. CASE u # t \/ i # n
    <3>1. frames'[u][i] = frames[u][i] /\ i \in 1..Len(frames[u]) /\ frames[u][i] \in Frames
      BY <2>1, <1>4, <1>5
    <3>2. frames[u][i].doc \in Docs
      BY <3>1 DEF Frames
    <3>3. QED
      BY <3>1, <3>2, <1>7, <1>8 DEF LockInv, OneLockPerDocument
  <2>2. CASE u = t /\ i = n
    BY <2>2, <1>5, <1>8
  <2>3. QED
    BY <2>1, <2>2
<1>12. EntriesAreLive'
  <2> SUFFICES ASSUME NEW e \in Docs, table'[e] # NoLock
               PROVE  \E u \in Threads : \E i \in 1..Len(frames'[u]) :
                        frames'[u][i].doc = e /\ frames'[u][i].lock = table'[e]
    BY DEF EntriesAreLive
  <2>1. CASE e = d
    BY <2>1, <1>5, <1>8
  <2>2. CASE e # d
    <3>1. PICK u \in Threads : \E i \in 1..Len(frames[u]) :
                 frames[u][i].doc = e /\ frames[u][i].lock = table[e]
      BY <2>2, <1>8 DEF LockInv, EntriesAreLive
    <3>2. PICK i \in 1..Len(frames[u]) : frames[u][i].doc = e /\ frames[u][i].lock = table[e]
      BY <3>1
    <3>3. ~(u = t /\ i = n)
      BY <3>2, <2>2, <1>1, TopFacts
    <3>4. frames'[u][i] = frames[u][i] /\ i \in 1..Len(frames'[u])
      BY <3>2, <3>3, <1>5
    <3>5. table'[e] = table[e]
      BY <2>2, <1>8
    <3>6. QED
      BY <3>2, <3>4, <3>5
  <2>3. QED
    BY <2>1, <2>2
<1>13. NoLockIsShared'
  <2>1. \A e \in Docs : table[e] # l
    BY <1>6, LockConstants DEF LockInv, EntriesAreLive
  <2>2. QED
    BY <2>1, <1>8 DEF LockInv, NoLockIsShared
<1>14. CreatorIsGuarded'
  <2> SUFFICES ASSUME NEW u \in Threads, At(u, "create")' PROVE FALSE
    BY DEF CreatorIsGuarded
  <2>1. u # t
    BY <1>5 DEF At
  <2>2. At(u, "create")
    BY <2>1, <1>5 DEF At, Top
  <2>3. QED
    BY <2>1, <2>2, <1>1 DEF LockInv, CreatorIsGuarded
<1>15. OwnerIsInside'
  BY <1>1, <1>2, <1>3, <1>4, AdvanceKeepsOwner
<1>16. QED
  BY <1>9, <1>10, <1>11, <1>12, <1>13, <1>14, <1>15 DEF LockInv

LEMMA AcquireKeeps ==
  ASSUME LockInv, NEW t \in Threads, Acquire(t)
  PROVE  LockInv'
<1> DEFINE n == Len(frames[t])
           l == Top(t).lock
<1>1. frames[t] # <<>> /\ Top(t).at = "acquire" /\ l \in Locks /\ l = table[Top(t).doc]
  BY TopFacts DEF Acquire, At
<1>2. /\ Advance(t, l, "body") /\ "body" \in Steps
      /\ UNCHANGED <<guard, table>> /\ owner[l] \in {NoThread, t}
      /\ owner' = [owner EXCEPT ![l] = t] /\ depth' = [depth EXCEPT ![l] = @ + 1]
  BY DEF Acquire, Steps
<1>3. LockTypeOK
  BY DEF LockInv
<1>4. /\ frames' \in [Threads -> Seq(Frames)]
      /\ \A u \in Threads : u # t => frames'[u] = frames[u]
      /\ Len(frames'[t]) = n /\ n \in Nat \ {0}
      /\ \A i \in 1..n - 1 : frames'[t][i] = frames[t][i]
      /\ frames'[t][n] = [doc |-> Top(t).doc, lock |-> l, at |-> "body"]
      /\ frames'[t] # <<>> /\ Top(t)' = [doc |-> Top(t).doc, lock |-> l, at |-> "body"]
  BY <1>1, <1>2, <1>3, AdvanceFacts DEF LockTypeOK
<1>5. /\ owner' \in [Locks -> Threads \cup {NoThread}] /\ depth' \in [Locks -> Nat]
      /\ owner'[l] = t /\ depth'[l] = depth[l] + 1
      /\ \A k \in Locks : k # l => owner'[k] = owner[k] /\ depth'[k] = depth[k]
  BY <1>1, <1>2, <1>3 DEF LockTypeOK
<1>6. LockTypeOK'
  BY <1>2, <1>3, <1>4, <1>5 DEF LockTypeOK
<1>7. FramesNest'
  BY <1>1, <1>2, AdvanceNests
<1>8. OneLockPerDocument' /\ EntriesAreLive' /\ NoLockIsShared'
  BY <1>1, <1>2, AdvanceKeepsTable
<1>9. CreatorIsGuarded'
  BY <1>1, <1>2, AdvanceKeepsCreator
<1>10. n > 1 => owner[l] = t /\ frames[t][1].lock = l
  BY <1>1, <1>4, OuterFacts
<1>11. Bodies(t) = n - 1 /\ Bodies(t)' = n
  BY <1>1, <1>4 DEF Bodies
<1>12. depth[l] = n - 1
  <2>1. CASE owner[l] = NoThread
    BY <2>1, <1>1, <1>4, <1>10, LockConstants DEF LockInv, OwnerIsInside
  <2>2. CASE owner[l] = t
    BY <2>2, <1>1, <1>11, LockConstants DEF LockInv, OwnerIsInside
  <2>3. QED
    BY <2>1, <2>2, <1>2
<1>13. ASSUME NEW u \in Threads, NEW i \in 1..Len(frames'[u]), frames'[u][i].at = "body"
       PROVE  owner'[frames'[u][i].lock] = u
  <2>1. CASE u = t /\ i = n
    BY <2>1, <1>4, <1>5
  <2>2. CASE ~(u = t /\ i = n)
    <3>1. frames'[u][i] = frames[u][i] /\ i \in 1..Len(frames[u])
      BY <2>2, <1>4
    <3>2. owner[frames[u][i].lock] = u /\ frames[u][i].lock \in Locks
      BY <3>1, <1>13 DEF LockInv, OwnerIsInside, OneLockPerDocument
    <3>3. QED
      BY <3>1, <3>2, <1>2, <1>5, LockConstants
  <2>3. QED
    BY <2>1, <2>2
<1>14. ASSUME NEW k \in Locks
       PROVE  IF owner'[k] = NoThread THEN depth'[k] = 0
              ELSE /\ frames'[owner'[k]] # <<>> /\ frames'[owner'[k]][1].lock = k
                   /\ Bodies(owner[k])' > 0 /\ depth'[k] = Bodies(owner[k])'
  <2>1. CASE k = l
    <3>1. frames'[t][1].lock = l
      BY <1>4, <1>10
    <3>2. Bodies(owner[k])' = n
      BY <2>1, <1>5, <1>11
    <3>3. QED
      BY <2>1, <3>1, <3>2, <1>4, <1>5, <1>12, LockConstants
  <2>2. CASE k # l /\ owner[k] = NoThread
    BY <2>2, <1>5 DEF LockInv, OwnerIsInside
  <2>3. CASE k # l /\ owner[k] # NoThread
    <3>1. PICK u \in Threads : u = owner[k]
      BY <2>3, <1>3 DEF LockTypeOK
    <3>2. frames[u] # <<>> /\ frames[u][1].lock = k /\ Bodies(u) > 0 /\ depth[k] = Bodies(u)
      BY <2>3, <3>1 DEF LockInv, OwnerIsInside
    <3>3. u # t
      BY <3>2, <2>3, <1>4, <1>10, <1>11
    <3>4. frames'[u] = frames[u] /\ Bodies(u)' = Bodies(u)
      BY <3>3, <1>4 DEF Bodies, Top
    <3>5. owner'[k] = u /\ depth'[k] = depth[k]
      BY <2>3, <3>1, <1>5
    <3>6. Bodies(owner[k])' = Bodies(u)
      BY <3>4, <3>5 DEF Bodies, Top
    <3>7. QED
      BY <3>1, <3>2, <3>4, <3>5, <3>6, LockConstants
  <2>4. QED
    BY <2>1, <2>2, <2>3
<1>15. OwnerIsInside'
  BY <1>13, <1>14 DEF OwnerIsInside
<1>16. QED
  BY <1>6, <1>7, <1>8, <1>9, <1>15 DEF LockInv

LEMMA ReleaseKeeps ==
  ASSUME LockInv, NEW t \in Threads, Release(t)
  PROVE  LockInv'
<1> DEFINE n == Len(frames[t])
           l == Top(t).lock
<1>1. frames[t] # <<>> /\ Top(t).at = "body" /\ l \in Locks /\ l = table[Top(t).doc]
      /\ n \in Nat \ {0} /\ Top(t) = frames[t][n]
  BY TopFacts DEF Release, At
<1>2. /\ Advance(t, l, "left") /\ "left" \in Steps /\ UNCHANGED <<guard, table>>
      /\ owner' = [owner EXCEPT ![l] = IF depth[l] = 1 THEN NoThread ELSE t]
      /\ depth' = [depth EXCEPT ![l] = @ - 1]
  BY DEF Release, Steps
<1>3. LockTypeOK
  BY DEF LockInv
<1>4. /\ frames' \in [Threads -> Seq(Frames)]
      /\ \A u \in Threads : u # t => frames'[u] = frames[u]
      /\ Len(frames'[t]) = n
      /\ \A i \in 1..n - 1 : frames'[t][i] = frames[t][i]
      /\ frames'[t][n] = [doc |-> Top(t).doc, lock |-> l, at |-> "left"]
      /\ frames'[t] # <<>> /\ Top(t)' = [doc |-> Top(t).doc, lock |-> l, at |-> "left"]
  BY <1>1, <1>2, <1>3, AdvanceFacts DEF LockTypeOK
<1>5. owner[l] = t /\ Bodies(t) = n /\ depth[l] = n /\ frames[t][1].lock = l
  <2>1. owner[l] = t
    BY <1>1 DEF LockInv, OwnerIsInside
  <2>2. Bodies(t) = n
    BY <1>1 DEF Bodies
  <2>3. QED
    BY <2>1, <2>2, <1>1, LockConstants DEF LockInv, OwnerIsInside
<1>6. /\ owner' \in [Locks -> Threads \cup {NoThread}] /\ depth' \in [Locks -> Nat]
      /\ owner'[l] = (IF n = 1 THEN NoThread ELSE t) /\ depth'[l] = n - 1
      /\ \A k \in Locks : k # l => owner'[k] = owner[k] /\ depth'[k] = depth[k]
  BY <1>1, <1>2, <1>3, <1>5 DEF LockTypeOK
<1>7. LockTypeOK'
  BY <1>2, <1>3, <1>4, <1>6 DEF LockTypeOK
<1>8. FramesNest'
  BY <1>1, <1>2, AdvanceNests
<1>9. OneLockPerDocument' /\ EntriesAreLive' /\ NoLockIsShared'
  BY <1>1, <1>2, AdvanceKeepsTable
<1>10. CreatorIsGuarded'
  BY <1>1, <1>2, AdvanceKeepsCreator
<1>11. Bodies(t)' = n - 1
  BY <1>1, <1>4 DEF Bodies
<1>12. ASSUME NEW u \in Threads, NEW i \in 1..Len(frames'[u]), frames'[u][i].at = "body"
       PROVE  owner'[frames'[u][i].lock] = u
  <2>1. ~(u = t /\ i = n)
    BY <1>4, <1>12
  <2>2. frames'[u][i] = frames[u][i] /\ i \in 1..Len(frames[u])
    BY <2>1, <1>4
  <2>3. owner[frames[u][i].lock] = u /\ frames[u][i].lock \in Locks
    BY <2>2, <1>12 DEF LockInv, OwnerIsInside, OneLockPerDocument
  <2>4. u = t => n # 1
    BY <2>1, <2>2, <1>1
  <2>5. QED
    BY <2>2, <2>3, <2>4, <1>5, <1>6
<1>13. ASSUME NEW k \in Locks
       PROVE  IF owner'[k] = NoThread THEN depth'[k] = 0
              ELSE /\ frames'[owner'[k]] # <<>> /\ frames'[owner'[k]][1].lock = k
                   /\ Bodies(owner[k])' > 0 /\ depth'[k] = Bodies(owner[k])'
  <2>1. CASE k = l /\ n = 1
    BY <2>1, <1>6
  <2>2. CASE k = l /\ n # 1
    <3>1. 1 \in 1..n - 1 /\ n - 1 > 0
      BY <2>2, <1>1, OneIsBelow
    <3>2. frames'[t][1].lock = l
      BY <3>1, <1>4, <1>5
    <3>3. Bodies(owner[k])' = n - 1
      BY <2>2, <1>6, <1>11
    <3>4. QED
      BY <2>2, <3>1, <3>2, <3>3, <1>1, <1>4, <1>6, LockConstants
  <2>3. CASE k # l /\ owner[k] = NoThread
    BY <2>3, <1>6 DEF LockInv, OwnerIsInside
  <2>4. CASE k # l /\ owner[k] # NoThread
    <3>1. PICK u \in Threads : u = owner[k]
      BY <2>4, <1>3 DEF LockTypeOK
    <3>2. frames[u] # <<>> /\ frames[u][1].lock = k /\ Bodies(u) > 0 /\ depth[k] = Bodies(u)
      BY <2>4, <3>1 DEF LockInv, OwnerIsInside
    <3>3. u # t
      BY <3>2, <2>4, <1>5
    <3>4. frames'[u] = frames[u] /\ Bodies(u)' = Bodies(u)
      BY <3>3, <1>4 DEF Bodies, Top
    <3>5. owner'[k] = u /\ depth'[k] = depth[k]
      BY <2>4, <3>1, <1>6
    <3>6. Bodies(owner[k])' = Bodies(u)
      BY <3>4, <3>5 DEF Bodies, Top
    <3>7. QED
      BY <3>1, <3>2, <3>4, <3>5, <3>6, LockConstants
  <2>5. QED
    BY <2>1, <2>2, <2>3, <2>4
<1>14. OwnerIsInside'
  BY <1>12, <1>13 DEF OwnerIsInside
<1>15. QED
  BY <1>7, <1>8, <1>9, <1>10, <1>14 DEF LockInv

LEMMA EnterKeeps ==
  ASSUME LockInv, NEW t \in Threads, NEW d \in Docs, Enter(t, d)
  PROVE  LockInv'
<1> DEFINE n == Len(frames[t])
           f == [doc |-> d, lock |-> NoLock, at |-> "lookup"]
<1>1. LockTypeOK /\ f \in Frames
  BY DEF LockInv, Frames
<1>2. /\ frames[t] # <<>> => Top(t).at = "body" /\ Top(t).doc = d
      /\ frames' = [frames EXCEPT ![t] = Append(@, f)]
      /\ UNCHANGED <<guard, table, owner, depth>>
  BY DEF Enter
<1>3. /\ frames' \in [Threads -> Seq(Frames)]
      /\ \A u \in Threads : u # t => frames'[u] = frames[u]
      /\ Len(frames'[t]) = n + 1 /\ n \in Nat
      /\ \A i \in 1..n : frames'[t][i] = frames[t][i]
      /\ frames'[t][n + 1] = f
      /\ frames'[t] # <<>> /\ Top(t)' = f
  BY <1>1, <1>2 DEF LockTypeOK, Top
<1>4. LockTypeOK'
  BY <1>1, <1>2, <1>3 DEF LockTypeOK
<1>5. n > 0 => frames[t] # <<>> /\ Top(t).at = "body" /\ Top(t).doc = d
               /\ frames[t][1].doc = d /\ Top(t) = frames[t][n]
  <2>1. n > 0 => frames[t] # <<>>
    BY <1>1 DEF LockTypeOK
  <2>2. QED
    BY <2>1, <1>2, TopFacts
<1>6. FramesNest'
  <2> SUFFICES ASSUME NEW u \in Threads, NEW i \in 1..Len(frames'[u])
               PROVE  /\ frames'[u][i].doc = frames'[u][1].doc
                      /\ i < Len(frames'[u]) => frames'[u][i].at = "body"
    BY DEF FramesNest
  <2>1. CASE u # t
    BY <2>1, <1>3 DEF LockInv, FramesNest
  <2>2. CASE u = t /\ i = n + 1
    BY <2>2, <1>3, <1>5
  <2>3. CASE u = t /\ i = n
    BY <2>3, <1>3, <1>5
  <2>4. CASE u = t /\ i < n
    BY <2>4, <1>3, <1>5 DEF LockInv, FramesNest
  <2>5. QED
    BY <2>1, <2>2, <2>3, <2>4, <1>3
<1>7. OneLockPerDocument'
  <2> SUFFICES ASSUME NEW u \in Threads, NEW i \in 1..Len(frames'[u])
               PROVE  IF frames'[u][i].at \in {"lookup", "create"}
                      THEN frames'[u][i].lock = NoLock
                      ELSE /\ frames'[u][i].lock \in Locks
                           /\ frames'[u][i].lock = table[frames'[u][i].doc]
    BY <1>2 DEF OneLockPerDocument
  <2>1. CASE u # t \/ i # n + 1
    BY <2>1, <1>3 DEF LockInv, OneLockPerDocument
  <2>2. CASE u = t /\ i = n + 1
    BY <2>2, <1>3
  <2>3. QED
    BY <2>1, <2>2
<1>8. EntriesAreLive'
  <2> SUFFICES ASSUME NEW e \in Docs, table[e] # NoLock
               PROVE  \E u \in Threads : \E i \in 1..Len(frames'[u]) :
                        frames'[u][i].doc = e /\ frames'[u][i].lock = table[e]
    BY <1>2 DEF EntriesAreLive
  <2>1. PICK u \in Threads : \E i \in 1..Len(frames[u]) :
               frames[u][i].doc = e /\ frames[u][i].lock = table[e]
    BY DEF LockInv, EntriesAreLive
  <2>2. PICK i \in 1..Len(frames[u]) : frames[u][i].doc = e /\ frames[u][i].lock = table[e]
    BY <2>1
  <2>3. frames'[u][i] = frames[u][i] /\ i \in 1..Len(frames'[u])
    BY <2>2, <1>3
  <2>4. QED
    BY <2>2, <2>3
<1>9. NoLockIsShared'
  BY <1>2 DEF LockInv, NoLockIsShared
<1>10. CreatorIsGuarded'
  <2> SUFFICES ASSUME NEW u \in Threads, At(u, "create")'
               PROVE  guard' = u /\ table'[Top(u)'.doc] = NoLock
    BY DEF CreatorIsGuarded
  <2>1. u # t
    BY <1>3 DEF At
  <2>2. At(u, "create") /\ Top(u)' = Top(u)
    BY <2>1, <1>3 DEF At, Top
  <2>3. QED
    BY <2>2, <1>2 DEF LockInv, CreatorIsGuarded
<1>11. ASSUME NEW u \in Threads PROVE Bodies(u)' = Bodies(u)
  <2>1. CASE u # t
    BY <2>1, <1>3 DEF Bodies, Top
  <2>2. CASE u = t /\ n = 0
    <3>1. frames[t] = <<>>
      BY <2>2, <1>1 DEF LockTypeOK
    <3>2. QED
      BY <2>2, <3>1, <1>3 DEF Bodies
  <2>3. CASE u = t /\ n > 0
    BY <2>3, <1>3, <1>5 DEF Bodies
  <2>4. QED
    BY <2>1, <2>2, <2>3, <1>3
<1>12. OwnerIsInside'
  <2>1. ASSUME NEW u \in Threads, NEW i \in 1..Len(frames'[u]), frames'[u][i].at = "body"
        PROVE  owner'[frames'[u][i].lock] = u
    <3>1. frames'[u][i] = frames[u][i] /\ i \in 1..Len(frames[u])
      BY <2>1, <1>3
    <3>2. QED
      BY <3>1, <2>1, <1>2 DEF LockInv, OwnerIsInside
  <2>2. ASSUME NEW k \in Locks, owner[k] # NoThread
        PROVE  /\ frames'[owner[k]] # <<>> /\ frames'[owner[k]][1].lock = k
               /\ Bodies(owner[k])' > 0 /\ depth[k] = Bodies(owner[k])'
    <3>1. PICK u \in Threads : u = owner[k]
      BY <2>2, <1>1 DEF LockTypeOK
    <3>2. frames[u] # <<>> /\ frames[u][1].lock = k /\ Bodies(u) > 0 /\ depth[k] = Bodies(u)
      BY <2>2, <3>1 DEF LockInv, OwnerIsInside
    <3>3. Len(frames[u]) \in Nat \ {0} /\ 1 \in 1..Len(frames[u])
      BY <3>2, <1>1 DEF LockTypeOK
    <3>4. frames'[u] # <<>> /\ frames'[u][1] = frames[u][1]
      BY <3>2, <3>3, <1>3
    <3>5. Bodies(owner[k])' = Bodies(u)
      BY <3>1, <1>2, <1>11 DEF Bodies, Top
    <3>6. QED
      BY <3>1, <3>2, <3>4, <3>5
  <2>3. QED
    BY <2>1, <2>2, <1>2 DEF LockInv, OwnerIsInside
<1>13. QED
  BY <1>4, <1>6, <1>7, <1>8, <1>9, <1>10, <1>12 DEF LockInv

LEMMA DropKeeps ==
  ASSUME LockInv, NEW t \in Threads, Drop(t)
  PROVE  LockInv'
<1> DEFINE n == Len(frames[t])
<1>1. frames[t] # <<>> /\ Top(t).at = "left" /\ n \in Nat \ {0} /\ Top(t) = frames[t][n]
  BY TopFacts DEF Drop, At
<1>2. /\ frames' = [frames EXCEPT ![t] = SubSeq(@, 1, n - 1)]
      /\ table' = [d \in Docs |-> IF Refers(frames', table[d]) THEN table[d] ELSE NoLock]
      /\ UNCHANGED <<guard, owner, depth>>
  BY DEF Drop
<1>3. LockTypeOK
  BY DEF LockInv
<1>4. /\ frames' \in [Threads -> Seq(Frames)]
      /\ \A u \in Threads : u # t => frames'[u] = frames[u]
      /\ Len(frames'[t]) = n - 1
      /\ \A i \in 1..n - 1 : frames'[t][i] = frames[t][i]
  <2>1. frames[t] \in Seq(Frames) /\ frames'[t] = SubSeq(frames[t], 1, n - 1)
    BY <1>2, <1>3 DEF LockTypeOK
  <2>2. frames'[t] \in Seq(Frames) /\ Len(frames'[t]) = n - 1
        /\ \A i \in 1..n - 1 : frames'[t][i] = frames[t][i]
    BY <2>1, <1>1
  <2>3. QED
    BY <2>2, <1>2, <1>3 DEF LockTypeOK
<1>5. \A u \in Threads : \A i \in 1..Len(frames'[u]) :
        i \in 1..Len(frames[u]) /\ frames'[u][i] = frames[u][i]
  BY <1>1, <1>4
<1>6. \A d \in Docs : table'[d] = table[d] \/ table'[d] = NoLock
  BY <1>2
<1>7. ASSUME NEW u \in Threads, NEW i \in 1..Len(frames'[u]), frames'[u][i].lock # NoLock
      PROVE  frames'[u][i].doc \in Docs
             /\ table'[frames'[u][i].doc] = table[frames'[u][i].doc]
             /\ frames'[u][i].lock = table[frames'[u][i].doc]
  <2>1. frames'[u][i].doc \in Docs
    <3>1. frames'[u] \in Seq(Frames)
      BY <1>4
    <3>2. frames'[u][i] \in Frames
      BY <3>1
    <3>3. QED
      BY <3>2 DEF Frames
  <2>2. frames'[u][i].lock = table[frames'[u][i].doc]
    BY <1>5, <1>7 DEF LockInv, OneLockPerDocument
  <2>3. DOMAIN frames'[u] = 1..Len(frames'[u])
    BY <1>4
  <2>4. Refers(frames', table[frames'[u][i].doc])
    BY <2>2, <2>3 DEF Refers
  <2>5. QED
    BY <2>1, <2>2, <2>4, <1>2
<1>8. LockTypeOK'
  BY <1>2, <1>3, <1>4 DEF LockTypeOK
<1>9. FramesNest'
  <2> SUFFICES ASSUME NEW u \in Threads, NEW i \in 1..Len(frames'[u])
               PROVE  /\ frames'[u][i].doc = frames'[u][1].doc
                      /\ i < Len(frames'[u]) => frames'[u][i].at = "body"
    BY DEF FramesNest
  <2>1. 1 \in 1..Len(frames'[u])
    BY <1>4
  <2>2. i < Len(frames'[u]) => i < Len(frames[u])
    BY <1>1, <1>4
  <2>3. QED
    BY <2>1, <2>2, <1>5 DEF LockInv, FramesNest
<1>10. OneLockPerDocument'
  <2> SUFFICES ASSUME NEW u \in Threads, NEW i \in 1..Len(frames'[u])
               PROVE  IF frames'[u][i].at \in {"lookup", "create"}
                      THEN frames'[u][i].lock = NoLock
                      ELSE /\ frames'[u][i].lock \in Locks
                           /\ frames'[u][i].lock = table'[frames'[u][i].doc]
    BY DEF OneLockPerDocument
  <2>1. IF frames'[u][i].at \in {"lookup", "create"}
        THEN frames'[u][i].lock = NoLock ELSE frames'[u][i].lock \in Locks
    BY <1>5 DEF LockInv, OneLockPerDocument
  <2>2. QED
    BY <2>1, <1>7, LockConstants
<1>11. EntriesAreLive'
  <2> SUFFICES ASSUME NEW e \in Docs, table'[e] # NoLock
               PROVE  \E u \in Threads : \E i \in 1..Len(frames'[u]) :
                        frames'[u][i].doc = e /\ frames'[u][i].lock = table'[e]
    BY DEF EntriesAreLive
  <2>1. table'[e] = table[e] /\ Refers(frames', table[e])
    BY <1>2
  <2>2. PICK u \in Threads : \E i \in DOMAIN frames'[u] : frames'[u][i].lock = table[e]
    BY <2>1 DEF Refers
  <2>3. PICK i \in 1..Len(frames'[u]) : frames'[u][i].lock = table[e]
    BY <2>2, <1>4
  <2>4. frames'[u][i].doc \in Docs /\ table[frames'[u][i].doc] = table[e]
    BY <2>1, <2>3, <1>7
  <2>5. frames'[u][i].doc = e
    BY <2>1, <2>4 DEF LockInv, NoLockIsShared
  <2>6. QED
    BY <2>1, <2>3, <2>5
<1>12. NoLockIsShared'
  BY <1>6 DEF LockInv, NoLockIsShared
<1>13. n > 1 => /\ frames'[t] # <<>> /\ Top(t)' = frames[t][n - 1]
                /\ frames[t][n - 1].at = "body"
  <2>1. n > 1 => n - 1 \in 1..n /\ n - 1 < n /\ n - 1 \in 1..n - 1
    BY <1>1
  <2>2. n > 1 => frames[t][n - 1].at = "body"
    BY <2>1 DEF LockInv, FramesNest
  <2>3. n > 1 => frames'[t] # <<>>
    BY <1>1, <1>4
  <2>4. QED
    BY <2>1, <2>2, <2>3, <1>4 DEF Top
<1>14. n = 1 => frames'[t] = <<>>
  BY <1>4
<1>15. n = 1 \/ n > 1
  BY <1>1, OneOrMore
<1>16. CreatorIsGuarded'
  <2> SUFFICES ASSUME NEW u \in Threads, At(u, "create")'
               PROVE  guard = u /\ table'[Top(u)'.doc] = NoLock
    BY <1>2 DEF CreatorIsGuarded
  <2>1. u # t
    BY <1>13, <1>14, <1>15 DEF At
  <2>2. At(u, "create") /\ Top(u)' = Top(u)
    BY <2>1, <1>4 DEF At, Top
  <2>3. Top(u).doc \in Docs
    BY <2>2, TopFacts DEF At, Frames
  <2>4. QED
    BY <2>2, <2>3, <1>6 DEF LockInv, CreatorIsGuarded
<1>17. ASSUME NEW u \in Threads PROVE Bodies(u)' = Bodies(u)
  <2>1. CASE u # t
    BY <2>1, <1>4 DEF Bodies, Top
  <2>2. CASE u = t /\ n = 1
    BY <2>2, <1>1, <1>14 DEF Bodies
  <2>3. CASE u = t /\ n > 1
    BY <2>3, <1>1, <1>4, <1>13 DEF Bodies
  <2>4. QED
    BY <2>1, <2>2, <2>3, <1>15
<1>18. OwnerIsInside'
  <2>1. ASSUME NEW u \in Threads, NEW i \in 1..Len(frames'[u]), frames'[u][i].at = "body"
        PROVE  owner'[frames'[u][i].lock] = u
    BY <2>1, <1>2, <1>5 DEF LockInv, OwnerIsInside
  <2>2. ASSUME NEW k \in Locks, owner[k] # NoThread
        PROVE  /\ frames'[owner[k]] # <<>> /\ frames'[owner[k]][1].lock = k
               /\ Bodies(owner[k])' > 0 /\ depth[k] = Bodies(owner[k])'
    <3>1. PICK u \in Threads : u = owner[k]
      BY <2>2, <1>3 DEF LockTypeOK
    <3>2. frames[u] # <<>> /\ frames[u][1].lock = k /\ Bodies(u) > 0 /\ depth[k] = Bodies(u)
      BY <2>2, <3>1 DEF LockInv, OwnerIsInside
    <3>3. Bodies(owner[k])' = Bodies(u)
      BY <3>1, <1>2, <1>17 DEF Bodies, Top
    <3>4. u = t => n > 1
      BY <3>2, <1>1 DEF Bodies
    <3>5. frames'[u] # <<>> /\ frames'[u][1] = frames[u][1]
      <4>1. CASE u # t
        BY <4>1, <3>2, <1>4
      <4>2. CASE u = t
        BY <4>2, <3>4, <1>1, <1>4, <1>13, OneIsBelow
      <4>3. QED
        BY <4>1, <4>2
    <3>6. QED
      BY <3>1, <3>2, <3>3, <3>5
  <2>3. QED
    BY <2>1, <2>2, <1>2 DEF LockInv, OwnerIsInside
<1>19. QED
  BY <1>8, <1>9, <1>10, <1>11, <1>12, <1>16, <1>18 DEF LockInv

LEMMA VanishKeeps == LockInv /\ Vanish => LockInv'
<1> SUFFICES ASSUME Vanish PROVE LockInv'
  OBVIOUS
<1>1. LockTypeOK'
  BY DEF Vanish, LockTypeOK
<1>2. \A t \in Threads : frames'[t] = <<>> /\ Len(frames'[t]) = 0
  BY DEF Vanish
<1>3. FramesNest' /\ OneLockPerDocument' /\ CreatorIsGuarded'
  BY <1>2 DEF FramesNest, OneLockPerDocument, CreatorIsGuarded, At
<1>4. EntriesAreLive' /\ NoLockIsShared'
  BY DEF Vanish, EntriesAreLive, NoLockIsShared
<1>5. OwnerIsInside'
  BY <1>2 DEF Vanish, OwnerIsInside
<1>6. QED
  BY <1>1, <1>3, <1>4, <1>5 DEF LockInv

LEMMA StutterKeeps == LockInv /\ UNCHANGED lockVars => LockInv'
  BY DEF LockInv, lockVars, LockTypeOK, FramesNest, OneLockPerDocument, EntriesAreLive,
         NoLockIsShared, CreatorIsGuarded, OwnerIsInside, Bodies, At, Top

LEMMA NextKeeps == LockInv /\ [LockNext]_lockVars => LockInv'
<1> SUFFICES ASSUME LockInv, [LockNext]_lockVars PROVE LockInv'
  OBVIOUS
<1>1. CASE UNCHANGED lockVars
  BY <1>1, StutterKeeps
<1>2. CASE Vanish
  BY <1>2, VanishKeeps
<1>3. ASSUME NEW t \in Threads, LockStep(t) \/ TimeOut(t) \/ Release(t)
      PROVE  LockInv'
  BY <1>3, LookUpKeeps, CreateKeeps, AcquireKeeps, DropKeeps, TimeOutKeeps, ReleaseKeeps
     DEF LockStep
<1>4. ASSUME NEW t \in Threads, NEW d \in Docs, Enter(t, d)
      PROVE  LockInv'
  BY <1>4, EnterKeeps
<1>5. QED
  BY <1>1, <1>2, <1>3, <1>4 DEF LockNext

\* One lock object per document, whoever creates, waits, nests, gives up or is
\* collected (the strengthening that makes mutual exclusion inductive).
THEOREM LocksInvariant == LockSpec => []LockInv
  BY InitInv, NextKeeps, PTL DEF LockSpec

LEMMA InvExcludes == LockInv => MutualExclusion
<1> SUFFICES ASSUME LockInv, NEW t \in Threads, NEW u \in Threads, NEW d \in Docs,
                    Inside(t, d), Inside(u, d)
             PROVE  t = u
  BY DEF MutualExclusion
<1>1. \A v \in Threads : DOMAIN frames[v] = 1..Len(frames[v])
  BY DEF LockInv, LockTypeOK
<1>2. ASSUME NEW v \in Threads, Inside(v, d) PROVE owner[table[d]] = v
  <2>1. PICK i \in 1..Len(frames[v]) : frames[v][i].at = "body" /\ frames[v][i].doc = d
    BY <1>1, <1>2 DEF Inside
  <2>2. frames[v][i].lock = table[d]
    BY <2>1 DEF LockInv, OneLockPerDocument
  <2>3. QED
    BY <2>1, <2>2 DEF LockInv, OwnerIsInside
<1>3. QED
  BY <1>2

\* No two threads are inside the block of one document, for any number of
\* threads, documents, lock objects and nestings (services/locks.py).
THEOREM OneWriterPerDocument == LockSpec => []MutualExclusion
  BY LocksInvariant, InvExcludes, PTL

----------------------------------------------------------------------------
(* The threads of the server.                                             *)

Whats == {"none", "upload", "decide", "delete", "run", "recover"}
ActSteps == {"none", "enter", "in", "half", "out", "submit"}
Acts == [what : Whats, doc : Docs \cup {NoDoc}, step : ActSteps]
RealJobs == [doc : Docs, data : BOOLEAN]

\* The types without the locks, and that whoever does something does it to a
\* document: only the end marker has none.
ActInv == /\ act \in [Threads -> Acts]
          /\ \A t \in Threads : act[t] # Idle => act[t].doc \in Docs
          /\ queue \in Seq(RealJobs \cup {End})
          /\ listed \subseteq Docs
          /\ job \in RealJobs \cup {NoJob}
          /\ worker \in {"none", "waiting", "running", "exited"}
          /\ phase \in {"off", "recovering", "serving", "stopping", "stopped"}
          /\ status \in [Docs -> {"none", "queued", "busy", "settled", "failed", "gone"}]
          /\ mode \in [Docs -> {"mapping", "destructive"}]
          /\ stored \in [Docs -> BOOLEAN]
          /\ requests \in 0..MaxRequests /\ ends \in 0..MaxEnds
          /\ act[Worker] # Idle => act[Worker].doc = job.doc

LEMMA IdleIsAct == Idle \in Acts /\ Idle.step = "none" /\ Idle.what = "none"
  BY DEF Idle, Acts, Whats, ActSteps

LEMMA StepIsAct ==
  ASSUME ActInv, NEW t \in Threads, NEW s \in ActSteps, act[t] # Idle, Step(t, s)
  PROVE  /\ act' \in [Threads -> Acts]
         /\ \A u \in Threads : act'[u] # Idle => act'[u].doc \in Docs
         /\ \A u \in Threads : act'[u].doc = act[u].doc
         /\ \A u \in Threads : act[u] = Idle => act'[u] = Idle
<1>1. act \in [Threads -> Acts] /\ act[t] \in Acts /\ act[t].doc \in Docs
  BY DEF ActInv
<1>2. act' = [act EXCEPT ![t] = [act[t] EXCEPT !.step = s]]
  BY DEF Step
<1>3. [act[t] EXCEPT !.step = s] \in Acts /\ [act[t] EXCEPT !.step = s].doc = act[t].doc
  BY <1>1 DEF Acts
<1>4. QED
  BY <1>1, <1>2, <1>3 DEF ActInv

LEMMA BeginIsAct ==
  ASSUME ActInv, NEW t \in Threads, NEW w \in Whats, NEW d \in Docs, Begin(t, w, d)
  PROVE  /\ act' \in [Threads -> Acts]
         /\ \A u \in Threads : act'[u] # Idle => act'[u].doc \in Docs
         /\ act'[t].doc = d /\ \A u \in Threads : u # t => act'[u] = act[u]
<1> DEFINE a == [what |-> w, doc |-> d, step |-> "enter"]
<1>1. a \in Acts /\ a.doc = d
  BY DEF Acts, ActSteps
<1>2. act' = [act EXCEPT ![t] = a] /\ act \in [Threads -> Acts]
  BY DEF Begin, ActInv
<1>3. QED
  BY <1>1, <1>2 DEF ActInv

LEMMA FinishIsAct ==
  ASSUME ActInv, NEW t \in Threads, Finish(t)
  PROVE  /\ act' \in [Threads -> Acts]
         /\ \A u \in Threads : act'[u] # Idle => act'[u].doc \in Docs
         /\ act'[t] = Idle /\ \A u \in Threads : u # t => act'[u] = act[u]
<1>1. act' = [act EXCEPT ![t] = Idle] /\ act \in [Threads -> Acts]
  BY DEF Finish, ActInv
<1>2. QED
  BY <1>1, IdleIsAct DEF ActInv

\* Every step of the runtime is a step of the locks or leaves them alone.
LEMMA StepUsesLocks ==
  ASSUME ActInv, [RuntimeNext]_runtimeVars
  PROVE  [LockNext]_lockVars
<1>1. CASE UNCHANGED runtimeVars
  BY <1>1 DEF runtimeVars, lockVars
<1>2. ASSUME NEW t \in Threads, Call(t) \/ Helper(t)
      PROVE  LockNext
  <2>1. act[t] # Idle /\ Enter(t, act[t].doc)
    BY <1>2, IdleIsAct DEF Call, Helper, Doing
  <2>2. act[t].doc \in Docs
    BY <2>1 DEF ActInv
  <2>3. QED
    BY <2>1, <2>2 DEF LockNext
<1>3. ASSUME NEW t \in Threads, Plumbing(t) \/ Leave(t) \/ GiveUp(t)
      PROVE  LockNext
  BY <1>3 DEF Plumbing, Leave, GiveUp, LockNext
<1>4. ASSUME NEW t \in Threads, Return(t) \/ UploadRecord(t) \/ UploadOriginal(t)
                                \/ Submit(t) \/ Decide(t) \/ DeleteAll(t)
      PROVE  UNCHANGED lockVars
  BY <1>4 DEF Return, UploadRecord, UploadOriginal, Submit, Decide, DeleteAll, Working
<1>5. ASSUME NEW t \in Requests, NEW d \in Docs,
             NEW what \in {"upload", "decide", "delete"}, Request(t, what, d)
      PROVE  UNCHANGED lockVars
  BY <1>5 DEF Request
<1>6. CASE WorkerStep \/ RunEnds
  BY <1>6 DEF WorkerStep, TakeJob, RunBegins, RunReturns, RunEnds, Working
<1>7. CASE MainStep \/ Stop
  BY <1>7 DEF MainStep, Start, RecoverNext, RecoverOne, Serve, Joined, Stop, Working
<1>8. CASE ProcessEnds
  BY <1>8 DEF ProcessEnds, LockNext
<1>9. QED
  BY <1>1, <1>2, <1>3, <1>4, <1>5, <1>6, <1>7, <1>8 DEF RuntimeNext, ThreadStep

LEMMA InitAct == RuntimeInit => ActInv
<1> SUFFICES ASSUME RuntimeInit PROVE ActInv
  OBVIOUS
<1>1. {Main, Worker} \subseteq Threads /\ MaxRequests \in Nat /\ MaxEnds \in Nat
  BY RuntimeConstants
<1>2. act \in [Threads -> Acts] /\ \A t \in Threads : act[t] = Idle
  BY IdleIsAct DEF RuntimeInit
<1>3. queue \in Seq(RealJobs \cup {End})
  BY DEF RuntimeInit
<1>4. QED
  BY <1>1, <1>2, <1>3 DEF RuntimeInit, ActInv

\* Requests, workers and the main thread keep their own part of it.
LEMMA RequestKeepsAct ==
  ASSUME ActInv, NEW t \in Requests, NEW d \in Docs,
         NEW what \in {"upload", "decide", "delete"}, Request(t, what, d)
  PROVE  ActInv'
<1>1. t \in Threads /\ t # Worker /\ what \in Whats
  BY DEF Requests, Whats
<1>2. Begin(t, what, d) /\ UNCHANGED <<diskVars, mainVars, queueVars, ends>>
      /\ requests < MaxRequests /\ requests' = requests + 1
  BY DEF Request
<1>3. requests' \in 0..MaxRequests
  BY <1>2, RuntimeConstants DEF ActInv
<1>4. QED
  BY <1>1, <1>2, <1>3, BeginIsAct, RuntimeConstants
     DEF ActInv, diskVars, mainVars, queueVars

LEMMA StepKeepsAct ==
  ASSUME ActInv, NEW t \in Threads, NEW s \in ActSteps, act[t] # Idle, Step(t, s),
         UNCHANGED <<mainVars, queueVars, bounds, mode>>,
         status' \in [Docs -> {"none", "queued", "busy", "settled", "failed", "gone"}],
         stored' \in [Docs -> BOOLEAN]
  PROVE  ActInv'
<1>1. /\ act' \in [Threads -> Acts]
      /\ \A u \in Threads : act'[u] # Idle => act'[u].doc \in Docs
      /\ \A u \in Threads : act'[u].doc = act[u].doc
      /\ \A u \in Threads : act[u] = Idle => act'[u] = Idle
  BY StepIsAct
<1>2. Worker \in Threads
  BY RuntimeConstants
<1>3. QED
  BY <1>1, <1>2 DEF ActInv, mainVars, queueVars, bounds

LEMMA FinishKeepsAct ==
  ASSUME ActInv, NEW t \in Threads, Finish(t),
         UNCHANGED <<diskVars, mainVars, worker, job, bounds>>,
         queue' \in Seq(RealJobs \cup {End})
  PROVE  ActInv'
<1>1. /\ act' \in [Threads -> Acts]
      /\ \A u \in Threads : act'[u] # Idle => act'[u].doc \in Docs
      /\ act'[t] = Idle /\ \A u \in Threads : u # t => act'[u] = act[u]
  BY FinishIsAct
<1>2. QED
  BY <1>1, RuntimeConstants DEF ActInv, diskVars, mainVars, bounds

LEMMA UploadKeepsAct ==
  ASSUME ActInv, NEW t \in Threads,
         UploadRecord(t) \/ UploadOriginal(t) \/ Submit(t)
  PROVE  ActInv'
<1>1. CASE UploadRecord(t)
  <2>1. act[t] # Idle /\ Step(t, IF mode[act[t].doc] = "mapping" THEN "half" ELSE "out")
    BY <1>1, IdleIsAct DEF UploadRecord, Working, Doing
  <2>2. (IF mode[act[t].doc] = "mapping" THEN "half" ELSE "out") \in ActSteps
    BY DEF ActSteps
  <2>3. status' \in [Docs -> {"none", "queued", "busy", "settled", "failed", "gone"}]
    BY <1>1 DEF UploadRecord, ActInv
  <2>4. UNCHANGED <<mainVars, queueVars, bounds, mode, stored>>
    BY <1>1 DEF UploadRecord
  <2>5. QED
    BY <2>1, <2>2, <2>3, <2>4, StepKeepsAct DEF ActInv
<1>2. CASE UploadOriginal(t)
  <2>1. act[t] # Idle /\ Step(t, "out") /\ "out" \in ActSteps
    BY <1>2, IdleIsAct DEF UploadOriginal, Working, Doing, ActSteps
  <2>2. stored' \in [Docs -> BOOLEAN]
    BY <1>2 DEF UploadOriginal, ActInv
  <2>3. UNCHANGED <<mainVars, queueVars, bounds, mode, status>>
    BY <1>2 DEF UploadOriginal
  <2>4. QED
    BY <2>1, <2>2, <2>3, StepKeepsAct DEF ActInv
<1>3. CASE Submit(t)
  <2>1. act[t] # Idle /\ Finish(t) /\ UNCHANGED <<diskVars, mainVars, worker, job, bounds>>
    BY <1>3, IdleIsAct DEF Submit, Doing
  <2>2. [doc |-> act[t].doc, data |-> mode[act[t].doc] = "destructive"] \in RealJobs
    BY <2>1 DEF ActInv, RealJobs
  <2>3. queue' \in Seq(RealJobs \cup {End})
    BY <2>2, <1>3 DEF Submit, ActInv
  <2>4. QED
    BY <2>1, <2>3, FinishKeepsAct
<1>4. QED
  BY <1>1, <1>2, <1>3

LEMMA OthersKeepAct ==
  ASSUME ActInv, NEW t \in Threads,
         Call(t) \/ Plumbing(t) \/ Leave(t) \/ Return(t) \/ Decide(t) \/ DeleteAll(t)
         \/ GiveUp(t) \/ Helper(t)
  PROVE  ActInv'
<1>1. CASE Plumbing(t) \/ Leave(t) \/ Helper(t)
  BY <1>1 DEF Plumbing, Leave, Helper, ActInv, diskVars, mainVars, queueVars, bounds
<1>2. CASE Call(t) \/ Decide(t) \/ GiveUp(t)
  <2>1. PICK s \in {"in", "out"} : Step(t, s)
    BY <1>2 DEF Call, Decide, GiveUp
  <2>2. act[t] # Idle /\ s \in ActSteps
    BY <1>2, IdleIsAct DEF Call, Decide, GiveUp, Working, Doing, ActSteps
  <2>3. UNCHANGED <<diskVars, mainVars, queueVars, bounds>>
    BY <1>2 DEF Call, Decide, GiveUp
  <2>4. QED
    BY <2>1, <2>2, <2>3, StepKeepsAct DEF ActInv, diskVars
<1>3. CASE DeleteAll(t)
  <2>1. act[t] # Idle /\ Step(t, "out") /\ "out" \in ActSteps
    BY <1>3, IdleIsAct DEF DeleteAll, Working, Doing, ActSteps
  <2>2. UNCHANGED <<mainVars, queueVars, bounds, mode>>
    BY <1>3 DEF DeleteAll, diskVars
  <2>3. /\ status' \in [Docs -> {"none", "queued", "busy", "settled", "failed", "gone"}]
        /\ stored' \in [Docs -> BOOLEAN]
    BY <1>3 DEF DeleteAll, diskVars, ActInv
  <2>4. QED
    BY <2>1, <2>2, <2>3, StepKeepsAct
<1>4. CASE Return(t)
  <2>1. act[t] # Idle /\ UNCHANGED <<diskVars, mainVars, queueVars, bounds>>
    BY <1>4, IdleIsAct DEF Return
  <2>2. CASE act[t].what = "upload"
    BY <2>1, <2>2, <1>4, StepKeepsAct DEF Return, ActInv, ActSteps, diskVars
  <2>3. CASE act[t].what # "upload"
    BY <2>1, <2>3, <1>4, FinishKeepsAct DEF Return, ActInv, queueVars
  <2>4. QED
    BY <2>2, <2>3
<1>5. QED
  BY <1>1, <1>2, <1>3, <1>4

LEMMA WorkerKeepsAct ==
  ASSUME ActInv, WorkerStep \/ RunEnds
  PROVE  ActInv'
<1>0. Worker \in Threads /\ job \in RealJobs \cup {NoJob}
  BY RuntimeConstants DEF ActInv
<1>1. CASE TakeJob
  <2>1. queue # <<>> /\ queue \in Seq(RealJobs \cup {End}) /\ queue' = Tail(queue)
    BY <1>1 DEF TakeJob, ActInv
  <2>2. queue' \in Seq(RealJobs \cup {End}) /\ Head(queue) \in RealJobs \cup {End}
    BY <2>1
  <2>3. UNCHANGED <<diskVars, mainVars, bounds>>
    BY <1>1 DEF TakeJob
  <2>4. CASE Head(queue) = End
    <3>1. worker' = "exited" /\ UNCHANGED <<job, act>>
      BY <1>1, <2>4 DEF TakeJob
    <3>2. QED
      BY <2>2, <2>3, <3>1 DEF ActInv, diskVars, mainVars, bounds
  <2>5. CASE Head(queue) # End
    <3>1. /\ worker' = "running" /\ job' = Head(queue)
          /\ Begin(Worker, "run", Head(queue).doc)
      BY <1>1, <2>5 DEF TakeJob
    <3>2. Head(queue) \in RealJobs /\ Head(queue).doc \in Docs /\ "run" \in Whats
      BY <2>2, <2>5 DEF RealJobs, Whats
    <3>3. /\ act' \in [Threads -> Acts]
          /\ \A u \in Threads : act'[u] # Idle => act'[u].doc \in Docs
          /\ act'[Worker].doc = Head(queue).doc
      BY <3>1, <3>2, <1>0, BeginIsAct
    <3>4. QED
      BY <2>2, <2>3, <3>1, <3>2, <3>3 DEF ActInv, diskVars, mainVars, bounds
  <2>6. QED
    BY <2>4, <2>5
<1>2. CASE RunBegins \/ RunEnds
  <2>1. act[Worker] # Idle /\ UNCHANGED <<mode, stored, mainVars, queueVars, bounds>>
    BY <1>2, IdleIsAct DEF RunBegins, RunEnds, Working, Doing
  <2>2. PICK s \in {"half", "out"} : Step(Worker, s)
    BY <1>2 DEF RunBegins, RunEnds
  <2>3. status' \in [Docs -> {"none", "queued", "busy", "settled", "failed", "gone"}]
    <3>1. job.doc \in Docs
      BY <2>1, <1>0 DEF ActInv
    <3>2. CASE RunBegins
      BY <3>1, <3>2 DEF RunBegins, ActInv
    <3>3. CASE RunEnds
      BY <3>1, <3>3 DEF RunEnds, ActInv
    <3>4. QED
      BY <1>2, <3>2, <3>3
  <2>4. s \in ActSteps
    BY DEF ActSteps
  <2>5. QED
    BY <1>0, <2>1, <2>2, <2>3, <2>4, StepKeepsAct DEF ActInv
<1>3. CASE RunReturns
  <2>1. /\ act[Worker] # Idle /\ Finish(Worker) /\ worker' = "waiting"
        /\ UNCHANGED <<diskVars, mainVars, queue, bounds>>
        /\ job' = [job EXCEPT !.data = FALSE]
    BY <1>3, IdleIsAct DEF RunReturns, Doing
  <2>2. job' \in RealJobs \cup {NoJob}
    <3>1. job.doc \in Docs
      BY <2>1, <1>0 DEF ActInv
    <3>2. job \in RealJobs
      BY <3>1, <1>0, RuntimeConstants DEF NoJob
    <3>3. QED
      BY <3>2, <2>1 DEF RealJobs
  <2>3. /\ act' \in [Threads -> Acts]
        /\ \A u \in Threads : act'[u] # Idle => act'[u].doc \in Docs
        /\ act'[Worker] = Idle
    BY <2>1, <1>0, FinishIsAct
  <2>4. QED
    BY <2>1, <2>2, <2>3 DEF ActInv, diskVars, mainVars, bounds
<1>4. QED
  BY <1>1, <1>2, <1>3 DEF WorkerStep

LEMMA MainKeepsAct ==
  ASSUME ActInv, MainStep \/ Stop \/ ProcessEnds
  PROVE  ActInv'
<1>0. Main \in Threads /\ Worker \in Threads
  BY RuntimeConstants
<1>1. CASE Start \/ Serve \/ Joined
  BY <1>1 DEF Start, Serve, Joined, ActInv, diskVars, bounds, queueVars
<1>2. CASE Stop
  <2>1. queue' \in Seq(RealJobs \cup {End})
    BY <1>2 DEF Stop, ActInv
  <2>2. QED
    BY <1>2, <2>1 DEF Stop, ActInv, diskVars, bounds
<1>3. CASE ProcessEnds
  <2>1. act' \in [Threads -> Acts] /\ \A t \in Threads : act'[t] = Idle
    BY <1>3, IdleIsAct DEF ProcessEnds
  <2>2. ends' \in 0..MaxEnds /\ queue' \in Seq(RealJobs \cup {End})
    BY <1>3, RuntimeConstants DEF ProcessEnds, ActInv
  <2>3. QED
    BY <1>0, <1>3, <2>1, <2>2 DEF ProcessEnds, ActInv, diskVars
<1>4. CASE RecoverNext
  <2>1. PICK d \in listed : listed' = listed \ {d} /\ Begin(Main, "recover", d)
    BY <1>4 DEF RecoverNext
  <2>2. d \in Docs /\ "recover" \in Whats
    BY DEF ActInv, Whats
  <2>3. /\ act' \in [Threads -> Acts]
        /\ \A u \in Threads : act'[u] # Idle => act'[u].doc \in Docs
        /\ act'[Main].doc = d /\ \A u \in Threads : u # Main => act'[u] = act[u]
    BY <2>1, <2>2, <1>0, BeginIsAct
  <2>4. QED
    BY <1>0, <1>4, <2>1, <2>3, RuntimeConstants DEF RecoverNext, ActInv, diskVars, queueVars, bounds
<1>5. CASE RecoverOne
  <2> DEFINE d == act[Main].doc
  <2>1. act[Main] # Idle /\ Step(Main, "out") /\ "out" \in ActSteps
        /\ UNCHANGED <<mode, stored, mainVars, worker, job, bounds>>
    BY <1>5, IdleIsAct DEF RecoverOne, Working, Doing, ActSteps
  <2>2. d \in Docs /\ [doc |-> d, data |-> FALSE] \in RealJobs
    BY <2>1, <1>0 DEF ActInv, RealJobs
  <2>3. queue' \in Seq(RealJobs \cup {End})
    BY <1>5, <2>2 DEF RecoverOne, ActInv
  <2>4. status' \in [Docs -> {"none", "queued", "busy", "settled", "failed", "gone"}]
    BY <1>5, <2>2 DEF RecoverOne, ActInv
  <2>5. /\ act' \in [Threads -> Acts]
        /\ \A u \in Threads : act'[u] # Idle => act'[u].doc \in Docs
        /\ \A u \in Threads : act'[u].doc = act[u].doc
        /\ \A u \in Threads : act[u] = Idle => act'[u] = Idle
    BY <2>1, <1>0, StepIsAct
  <2>6. QED
    BY <1>0, <2>1, <2>3, <2>4, <2>5 DEF ActInv, mainVars, bounds
<1>6. QED
  BY <1>1, <1>2, <1>3, <1>4, <1>5 DEF MainStep

LEMMA NextKeepsAct == ActInv /\ [RuntimeNext]_runtimeVars => ActInv'
<1> SUFFICES ASSUME ActInv, [RuntimeNext]_runtimeVars PROVE ActInv'
  OBVIOUS
<1>1. CASE UNCHANGED runtimeVars
  BY <1>1 DEF runtimeVars, diskVars, mainVars, queueVars, bounds, ActInv
<1>2. ASSUME NEW t \in Threads, ThreadStep(t) \/ GiveUp(t) \/ Helper(t)
      PROVE  ActInv'
  BY <1>2, UploadKeepsAct, OthersKeepAct DEF ThreadStep
<1>3. ASSUME NEW t \in Requests, NEW d \in Docs,
             NEW what \in {"upload", "decide", "delete"}, Request(t, what, d)
      PROVE  ActInv'
  BY <1>3, RequestKeepsAct
<1>4. QED
  BY <1>1, <1>2, <1>3, WorkerKeepsAct, MainKeepsAct DEF RuntimeNext

LEMMA ActInvariant == RuntimeSpec => []ActInv
  BY InitAct, NextKeepsAct, PTL DEF RuntimeSpec

\* Whatever requests, the worker and the main thread do to a lock, an end of the
\* process included, is what services/locks.py offers them.
THEOREM RuntimeUsesLocks == RuntimeSpec => UsesLocks
<1>1. RuntimeInit => LockInit
  BY DEF RuntimeInit
<1>2. ActInv /\ [RuntimeNext]_runtimeVars => [LockNext]_lockVars
  BY StepUsesLocks
<1>3. QED
  BY <1>1, <1>2, ActInvariant, PTL DEF RuntimeSpec, UsesLocks, LockSpec

\* So the server has one lock object per document ...
THEOREM RuntimeLocksInvariant == RuntimeSpec => []LockInv
  BY RuntimeUsesLocks, LocksInvariant, PTL DEF UsesLocks

\* ... and one thread at a time inside it, for any number of request threads and
\* documents.
THEOREM RuntimeExcludes == RuntimeSpec => []MutualExclusion
  BY RuntimeUsesLocks, OneWriterPerDocument, PTL DEF UsesLocks

\* The types of queue, records and threads.
THEOREM RuntimeTyped == RuntimeSpec => []RuntimeTypeOK
<1>1. ActInv /\ LockInv => RuntimeTypeOK
  <2> SUFFICES ASSUME ActInv, LockInv PROVE RuntimeTypeOK
    OBVIOUS
  <2>1. RealJobs \cup {End} \subseteq Jobs /\ RealJobs \cup {NoJob} \subseteq Jobs
    <3>1. End \in Jobs /\ NoJob \in Jobs
      BY DEF Jobs, End, NoJob
    <3>2. RealJobs \subseteq Jobs
      BY DEF RealJobs, Jobs
    <3>3. QED
      BY <3>1, <3>2
  <2>2. queue \in Seq(Jobs)
    BY <2>1 DEF ActInv
  <2>3. QED
    BY <2>1, <2>2 DEF ActInv, LockInv, RuntimeTypeOK, Acts, Whats, ActSteps
<1>2. QED
  BY <1>1, ActInvariant, RuntimeLocksInvariant, PTL

----------------------------------------------------------------------------
(* No work is lost.  The inductive invariant says, at every moment, who is *)
(* still to see a document that waits: the queue, the worker before its    *)
(* run is over, the upload that will submit it, or the recovery.           *)

\* Who does what.
Roles == /\ act[Worker].what \in {"none", "run"}
         /\ act[Main].what \in {"none", "recover"}
         /\ \A t \in Requests : act[t].what \in {"none", "upload", "decide", "delete"}

\* Requests are under way only while the server serves, the main thread in a
\* document only while it recovers, the worker only with a job.
InTheirTime == /\ worker # "running" => act[Worker] = Idle
               /\ phase = "off" => worker = "none"
               /\ phase # "serving" => \A t \in Requests : act[t] = Idle
               /\ phase # "recovering" => act[Main] = Idle

\* The end marker comes with the stop, behind every job, and ends the thread.
EndIsLast ==
  /\ phase \in {"off", "recovering", "serving"} =>
       worker # "exited" /\ \A i \in 1..Len(queue) : queue[i] # End
  /\ phase \in {"stopping", "stopped"} =>
       IF worker = "exited" THEN queue = <<>>
       ELSE /\ phase = "stopping"
            /\ \A i \in 1..Len(queue) : queue[i] = End => i = Len(queue)

Queued(d) == \E i \in 1..Len(queue) : queue[i] # End /\ queue[i].doc = d
OnHand(d) == act[Worker].doc = d /\ act[Worker].step # "out"
Uploading(d) == \E t \in Requests : act[t].what = "upload" /\ act[t].doc = d
ToRecover(d) == \/ d \in listed /\ phase = "recovering"
                \/ act[Main].doc = d /\ act[Main].step # "out"

WorkIsKept ==
  phase # "off" => \A d \in Docs : status[d] \in Processing =>
                     Queued(d) \/ OnHand(d) \/ Uploading(d) \/ ToRecover(d)

WorkInv == Roles /\ InTheirTime /\ EndIsLast /\ WorkIsKept

\* Of a thread that goes on only the step changes.
LEMMA StepFacts ==
  ASSUME ActInv, NEW t \in Threads, NEW s \in ActSteps, act[t] # Idle, Step(t, s)
  PROVE  /\ act'[t].what = act[t].what /\ act'[t].doc = act[t].doc /\ act'[t].step = s
         /\ act[t].doc \in Docs
         /\ \A u \in Threads : u # t => act'[u] = act[u]
<1>1. act[t] \in Acts /\ act[t].doc \in Docs
  BY DEF ActInv
<1>2. act' = [act EXCEPT ![t] = [act[t] EXCEPT !.step = s]] /\ act \in [Threads -> Acts]
  BY DEF Step, ActInv
<1>3. act'[t] = [act[t] EXCEPT !.step = s]
  BY <1>2
<1>4. QED
  BY <1>1, <1>2, <1>3 DEF Acts

LEMMA BeginFacts ==
  ASSUME ActInv, NEW t \in Threads, NEW w \in Whats, NEW d \in Docs, Begin(t, w, d)
  PROVE  /\ act'[t].what = w /\ act'[t].doc = d /\ act'[t].step = "enter"
         /\ \A u \in Threads : u # t => act'[u] = act[u]
  BY DEF Begin, ActInv

\* Nobody who is idle has a document in hand.
LEMMA IdleHoldsNothing ==
  ASSUME NEW d \in Docs, NEW t \in Threads, act[t] = Idle
  PROVE  act[t].doc # d /\ act[t].what = "none" /\ act[t].step = "none"
  BY RuntimeConstants DEF Idle

\* The threads by name.
LEMMA Crew ==
  /\ Main \in Threads /\ Worker \in Threads /\ Main # Worker
  /\ Requests \subseteq Threads /\ Main \notin Requests /\ Worker \notin Requests
  /\ \A t \in Threads : t = Main \/ t = Worker \/ t \in Requests
  BY RuntimeConstants DEF Requests

\* A step inside what a thread does keeps roles and times.
LEMMA StepKeepsTimes ==
  ASSUME ActInv, Roles, InTheirTime, NEW t \in Threads, NEW s \in ActSteps,
         act[t] # Idle, Step(t, s), UNCHANGED <<phase, worker>>
  PROVE  Roles' /\ InTheirTime'
<1>1. /\ act'[t].what = act[t].what
      /\ \A u \in Threads : u # t => act'[u] = act[u]
  BY StepFacts
<1>2. \A u \in Threads : act'[u].what = act[u].what
  BY <1>1
<1>3. \A u \in Threads : act[u] = Idle => act'[u] = Idle
  BY <1>1
<1>4. Roles'
  BY <1>2, Crew DEF Roles
<1>5. InTheirTime'
  BY <1>3, Crew DEF InTheirTime
<1>6. QED
  BY <1>4, <1>5

LEMMA FinishKeepsTimes ==
  ASSUME ActInv, Roles, InTheirTime, NEW t \in Threads, Finish(t),
         act[t] # Idle, phase' = phase, worker' = worker \/ t = Worker
  PROVE  Roles' /\ InTheirTime'
<1>1. act'[t] = Idle /\ \A u \in Threads : u # t => act'[u] = act[u]
  BY FinishIsAct
<1>2. Roles'
  BY <1>1, Crew, IdleIsAct DEF Roles
<1>3. InTheirTime'
  BY <1>1, Crew DEF InTheirTime
<1>4. QED
  BY <1>2, <1>3

\* A thread goes on without a word to the queue.  Only an upload makes a document
\* wait, and the worker's and the recovery's last step drops one that waits no
\* longer.
GoesOn(t, s) ==
  /\ act[t] # Idle /\ Step(t, s)
  /\ phase' = phase /\ listed' = listed /\ worker' = worker /\ queue' = queue
  /\ \A d \in Docs : status'[d] \in Processing =>
       \/ status[d] \in Processing
       \/ t \in Requests /\ act[t].what = "upload" /\ act[t].doc = d
  /\ s = "out" /\ t \notin Requests => status'[act[t].doc] \notin Processing

LEMMA StepKeepsWork ==
  ASSUME ActInv, WorkInv, NEW t \in Threads, NEW s \in ActSteps, GoesOn(t, s)
  PROVE  WorkInv'
<1> USE DEF GoesOn
<1>1. /\ act'[t].what = act[t].what /\ act'[t].doc = act[t].doc /\ act'[t].step = s
      /\ \A u \in Threads : u # t => act'[u] = act[u]
  BY StepFacts
<1>2. Roles' /\ InTheirTime'
  BY StepKeepsTimes DEF WorkInv
<1>3. EndIsLast'
  BY DEF WorkInv, EndIsLast
<1>4. WorkIsKept'
  <2> SUFFICES ASSUME phase # "off", NEW d \in Docs, status'[d] \in Processing
               PROVE  (Queued(d) \/ OnHand(d) \/ Uploading(d) \/ ToRecover(d))'
    BY DEF WorkIsKept
  <2>1. \A u \in Requests : act'[u].what = act[u].what /\ act'[u].doc = act[u].doc
    BY <1>1, Crew
  <2>2. Queued(d)' <=> Queued(d)
    BY DEF Queued
  <2>3. Uploading(d)' <=> Uploading(d)
    BY <2>1 DEF Uploading
  <2>4. CASE OnHand(d)
    <3>1. OnHand(d)'
      BY <1>1, <2>4, Crew DEF OnHand
    <3>2. QED
      BY <3>1
  <2>5. CASE ToRecover(d)
    <3>1. ToRecover(d)'
      BY <1>1, <2>5, Crew DEF ToRecover
    <3>2. QED
      BY <3>1
  <2>6. Queued(d) \/ OnHand(d) \/ Uploading(d) \/ ToRecover(d)
    <3>1. CASE status[d] \in Processing
      BY <3>1 DEF WorkInv, WorkIsKept
    <3>2. CASE t \in Requests /\ act[t].what = "upload" /\ act[t].doc = d
      BY <3>2 DEF Uploading
    <3>3. QED
      BY <3>1, <3>2
  <2>7. QED
    BY <2>2, <2>3, <2>4, <2>5, <2>6
<1>5. QED
  BY <1>2, <1>3, <1>4 DEF WorkInv

\* A thread that is through has nothing that waits.
IsThrough(t) ==
  /\ Finish(t) /\ act[t].step = "out" /\ act[t].what # "upload"
  /\ status' = status /\ phase' = phase /\ listed' = listed /\ queue' = queue
  /\ \/ worker' = worker
     \/ t = Worker /\ worker' = "waiting" /\ worker # "exited"

LEMMA FinishKeepsWork ==
  ASSUME ActInv, WorkInv, NEW t \in Threads, IsThrough(t)
  PROVE  WorkInv'
<1> USE DEF IsThrough
<1>1. act'[t] = Idle /\ \A u \in Threads : u # t => act'[u] = act[u]
  BY FinishIsAct
<1>2. Roles' /\ InTheirTime'
  BY FinishKeepsTimes, IdleIsAct DEF WorkInv
<1>3. EndIsLast'
  BY DEF WorkInv, EndIsLast
<1>4. WorkIsKept'
  <2> SUFFICES ASSUME phase # "off", NEW d \in Docs, status[d] \in Processing
               PROVE  (Queued(d) \/ OnHand(d) \/ Uploading(d) \/ ToRecover(d))'
    BY DEF WorkIsKept
  <2>1. Queued(d)' <=> Queued(d)
    BY DEF Queued
  <2>2. CASE Uploading(d)
    <3>1. Uploading(d)'
      BY <1>1, <2>2, Crew DEF Uploading
    <3>2. QED
      BY <3>1
  <2>3. CASE OnHand(d)
    <3>1. OnHand(d)'
      BY <1>1, <2>3, Crew DEF OnHand
    <3>2. QED
      BY <3>1
  <2>4. CASE ToRecover(d)
    <3>1. ToRecover(d)'
      BY <1>1, <2>4, Crew DEF ToRecover
    <3>2. QED
      BY <3>1
  <2>5. QED
    BY <2>1, <2>2, <2>3, <2>4 DEF WorkInv, WorkIsKept
<1>5. QED
  BY <1>2, <1>3, <1>4 DEF WorkInv

\* A job put behind the others: nobody who waited loses his place.
LEMMA AppendKeepsPlaces ==
  ASSUME queue \in Seq(RealJobs \cup {End}), NEW j \in RealJobs \cup {End},
         queue' = Append(queue, j)
  PROVE  /\ \A d \in Docs : Queued(d) => Queued(d)'
         /\ j # End => Queued(j.doc)'
<1>1. /\ Len(queue) \in Nat /\ Len(queue') = Len(queue) + 1
      /\ \A i \in 1..Len(queue) : queue'[i] = queue[i]
      /\ queue'[Len(queue) + 1] = j
  OBVIOUS
<1>2. QED
  BY <1>1 DEF Queued

\* The end marker is the only entry without a document.
LEMMA JobsAreNoEnd == \A j \in RealJobs : j # End /\ j.doc \in Docs
<1> SUFFICES ASSUME NEW j \in RealJobs PROVE j # End /\ j.doc \in Docs
  OBVIOUS
<1>1. j.doc \in Docs /\ End.doc = NoDoc
  BY DEF RealJobs, End
<1>2. QED
  BY <1>1, RuntimeConstants

LEMMA InitWork == RuntimeInit => WorkInv
<1> SUFFICES ASSUME RuntimeInit PROVE WorkInv
  OBVIOUS
<1>1. \A t \in Threads : act[t] = Idle
  BY DEF RuntimeInit
<1>2. queue = <<>> /\ Len(queue) = 0 /\ phase = "off" /\ worker = "none"
  BY DEF RuntimeInit
<1>3. Roles /\ InTheirTime
  BY <1>1, <1>2, Crew, IdleIsAct DEF Roles, InTheirTime
<1>4. EndIsLast /\ WorkIsKept
  BY <1>2 DEF EndIsLast, WorkIsKept
<1>5. QED
  BY <1>3, <1>4 DEF WorkInv

\* A request begins.
LEMMA RequestKeepsWork ==
  ASSUME ActInv, WorkInv, NEW t \in Requests, NEW e \in Docs,
         NEW what \in {"upload", "decide", "delete"}, Request(t, what, e)
  PROVE  WorkInv'
<1>1. t \in Threads /\ t # Main /\ t # Worker /\ what \in Whats /\ act[t] = Idle
      /\ phase = "serving" /\ UNCHANGED <<status, phase, listed, worker, queue>>
  BY Crew DEF Request, Whats, diskVars, mainVars, queueVars
<1>2. /\ act'[t].what = what /\ act'[t].doc = e
      /\ \A u \in Threads : u # t => act'[u] = act[u]
  BY <1>1, BeginFacts DEF Request
<1>3. Roles'
  BY <1>1, <1>2, Crew DEF Roles, WorkInv
<1>4. InTheirTime'
  BY <1>1, <1>2, Crew DEF InTheirTime, WorkInv
<1>5. EndIsLast'
  BY <1>1 DEF WorkInv, EndIsLast
<1>6. WorkIsKept'
  <2> SUFFICES ASSUME phase # "off", NEW d \in Docs, status[d] \in Processing
               PROVE  (Queued(d) \/ OnHand(d) \/ Uploading(d) \/ ToRecover(d))'
    BY <1>1 DEF WorkIsKept
  <2>1. Queued(d)' <=> Queued(d)
    BY <1>1 DEF Queued
  <2>2. CASE Uploading(d)
    <3>1. PICK u \in Requests : act[u].what = "upload" /\ act[u].doc = d
      BY <2>2 DEF Uploading
    <3>2. u # t
      BY <3>1, <1>1, IdleHoldsNothing
    <3>3. act'[u].what = "upload" /\ act'[u].doc = d
      BY <3>1, <3>2, <1>2, Crew
    <3>4. Uploading(d)'
      BY <3>3 DEF Uploading
    <3>5. QED
      BY <3>4
  <2>3. OnHand(d)' <=> OnHand(d)
    BY <1>1, <1>2, Crew DEF OnHand
  <2>4. ToRecover(d)' <=> ToRecover(d)
    BY <1>1, <1>2, Crew DEF ToRecover
  <2>5. QED
    BY <2>1, <2>2, <2>3, <2>4 DEF WorkInv, WorkIsKept
<1>7. QED
  BY <1>3, <1>4, <1>5, <1>6 DEF WorkInv

\* An upload: the record waits from the first write on, the upload itself stands
\* for it until the job is in the queue.
LEMMA UploadKeepsWork ==
  ASSUME ActInv, WorkInv, NEW t \in Threads,
         UploadRecord(t) \/ UploadOriginal(t) \/ Submit(t)
  PROVE  WorkInv'
<1>1. act[t].what = "upload" /\ act[t] # Idle /\ t \in Requests /\ act[t].doc \in Docs
  <2>1. act[t].what = "upload"
    BY DEF UploadRecord, UploadOriginal, Submit, Working, Doing
  <2>2. QED
    BY <2>1, Crew, IdleIsAct DEF WorkInv, Roles, ActInv
<1>2. CASE UploadRecord(t)
  <2>1. PICK s \in {"half", "out"} : Step(t, s)
    BY <1>2 DEF UploadRecord
  <2>2. s \in ActSteps /\ UNCHANGED <<phase, listed, worker, queue>>
    BY <1>2 DEF UploadRecord, ActSteps, mainVars, queueVars
  <2>3. \A d \in Docs : d # act[t].doc => status'[d] = status[d]
    BY <1>2 DEF UploadRecord, ActInv
  <2>4. QED
    BY <1>1, <2>1, <2>2, <2>3, StepKeepsWork DEF GoesOn
<1>3. CASE UploadOriginal(t)
  <2>1. "out" \in ActSteps /\ Step(t, "out")
        /\ UNCHANGED <<status, phase, listed, worker, queue>>
    BY <1>3 DEF UploadOriginal, ActSteps, mainVars, queueVars
  <2>2. QED
    BY <1>1, <2>1, StepKeepsWork DEF GoesOn
<1>4. CASE Submit(t)
  <2>1. PICK j : j = [doc |-> act[t].doc, data |-> mode[act[t].doc] = "destructive"]
    OBVIOUS
  <2>2. /\ queue' = Append(queue, j) /\ Finish(t) /\ phase' = phase /\ worker' = worker
        /\ UNCHANGED <<status, listed, job>>
    BY <1>4, <2>1 DEF Submit, diskVars, mainVars
  <2>3. /\ j \in RealJobs /\ j # End /\ j.doc = act[t].doc /\ j.doc \in Docs
        /\ queue \in Seq(RealJobs \cup {End})
    <3>1. j \in RealJobs
      BY <1>1, <2>1 DEF RealJobs
    <3>2. QED
      BY <2>1, <3>1, JobsAreNoEnd DEF ActInv
  <2>4. (\A d \in Docs : Queued(d) => Queued(d)') /\ Queued(j.doc)'
    BY <2>2, <2>3, AppendKeepsPlaces
  <2>5. act'[t] = Idle /\ \A u \in Threads : u # t => act'[u] = act[u]
    BY <2>2, FinishIsAct
  <2>6. Roles' /\ InTheirTime'
    BY <1>1, <2>2, FinishKeepsTimes DEF WorkInv
  <2>7. EndIsLast'
    <3>1. phase = "serving"
      BY <1>1 DEF WorkInv, InTheirTime
    <3>2. /\ Len(queue) \in Nat /\ Len(queue') = Len(queue) + 1
          /\ \A i \in 1..Len(queue) : queue'[i] = queue[i]
          /\ queue'[Len(queue) + 1] = j
      BY <2>2, <2>3
    <3>3. \A i \in 1..Len(queue') : queue'[i] # End
      BY <3>1, <3>2, <2>3 DEF WorkInv, EndIsLast
    <3>4. QED
      BY <3>1, <3>3, <2>2 DEF WorkInv, EndIsLast
  <2>8. WorkIsKept'
    <3> SUFFICES ASSUME phase # "off", NEW d \in Docs, status[d] \in Processing
                 PROVE  (Queued(d) \/ OnHand(d) \/ Uploading(d) \/ ToRecover(d))'
      BY <2>2 DEF WorkIsKept
    <3>1. CASE d = act[t].doc \/ Queued(d)
      BY <3>1, <2>3, <2>4
    <3>2. CASE OnHand(d) \/ ToRecover(d)
      <4>1. act'[Worker] = act[Worker] /\ act'[Main] = act[Main]
        BY <2>5, <1>1, Crew
      <4>2. (OnHand(d) \/ ToRecover(d))'
        BY <4>1, <2>2, <3>2 DEF OnHand, ToRecover
      <4>3. QED
        BY <4>2
    <3>3. CASE Uploading(d) /\ d # act[t].doc
      <4>1. PICK u \in Requests : act[u].what = "upload" /\ act[u].doc = d
        BY <3>3 DEF Uploading
      <4>2. act'[u] = act[u]
        BY <4>1, <3>3, <2>5, Crew
      <4>3. Uploading(d)'
        BY <4>1, <4>2 DEF Uploading
      <4>4. QED
        BY <4>3
    <3>4. QED
      BY <3>1, <3>2, <3>3 DEF WorkInv, WorkIsKept
  <2>9. QED
    BY <2>6, <2>7, <2>8 DEF WorkInv
<1>5. QED
  BY <1>2, <1>3, <1>4

\* What threads do that concerns neither queue nor waiting documents.
LEMMA OthersKeepWork ==
  ASSUME ActInv, WorkInv, NEW t \in Threads,
         Call(t) \/ Plumbing(t) \/ Leave(t) \/ Return(t) \/ Decide(t) \/ DeleteAll(t)
         \/ GiveUp(t) \/ Helper(t)
  PROVE  WorkInv'
<1>1. CASE Plumbing(t) \/ Leave(t) \/ Helper(t)
  <2>1. UNCHANGED <<status, phase, listed, worker, queue, act>>
    BY <1>1 DEF Plumbing, Leave, Helper, diskVars, mainVars, queueVars
  <2>2. QED
    BY <2>1 DEF WorkInv, Roles, InTheirTime, EndIsLast, WorkIsKept, Queued, OnHand,
                Uploading, ToRecover
<1>2. CASE Call(t)
  <2>1. /\ act[t] # Idle /\ "in" \in ActSteps /\ Step(t, "in")
        /\ UNCHANGED <<status, phase, listed, worker, queue>>
    BY <1>2, IdleIsAct DEF Call, ActSteps, diskVars, mainVars, queueVars
  <2>2. QED
    BY <2>1, StepKeepsWork DEF GoesOn
<1>3. CASE Decide(t) \/ GiveUp(t) \/ DeleteAll(t)
  <2>1. /\ act[t] # Idle /\ "out" \in ActSteps /\ Step(t, "out")
        /\ UNCHANGED <<phase, listed, worker, queue>>
        /\ act[t].what \in {"decide", "delete"}
    BY <1>3, IdleIsAct
       DEF Decide, GiveUp, DeleteAll, Working, Doing, ActSteps, diskVars, mainVars, queueVars
  <2>2. t \in Requests
    BY <2>1, Crew DEF WorkInv, Roles
  <2>3. \A d \in Docs : status'[d] \in Processing => status[d] \in Processing
    BY <1>3 DEF Decide, GiveUp, DeleteAll, diskVars, Processing, ActInv
  <2>4. QED
    BY <2>1, <2>2, <2>3, StepKeepsWork DEF GoesOn
<1>4. CASE Return(t)
  <2>1. /\ act[t] # Idle /\ act[t].step = "out"
        /\ status' = status /\ phase' = phase /\ listed' = listed
        /\ worker' = worker /\ queue' = queue
    BY <1>4, IdleIsAct DEF Return, diskVars, mainVars, queueVars
  <2>2. CASE act[t].what = "upload"
    <3>1. Step(t, "submit") /\ "submit" \in ActSteps
      BY <1>4, <2>2 DEF Return, ActSteps
    <3>2. QED
      BY <2>1, <3>1, StepKeepsWork DEF GoesOn
  <2>3. CASE act[t].what # "upload"
    <3>1. Finish(t)
      BY <1>4, <2>3 DEF Return
    <3>2. IsThrough(t)
      BY <2>1, <2>3, <3>1 DEF IsThrough
    <3>3. QED
      BY <3>2, FinishKeepsWork
  <2>4. QED
    BY <2>2, <2>3
<1>5. QED
  BY <1>1, <1>2, <1>3, <1>4

\* The worker takes the first of the queue, or the end marker, which is the last.
LEMMA TakeKeepsWork ==
  ASSUME ActInv, WorkInv, TakeJob
  PROVE  WorkInv'
<1> DEFINE j == Head(queue)
<1>1. /\ worker = "waiting" /\ queue # <<>> /\ queue' = Tail(queue)
      /\ queue \in Seq(RealJobs \cup {End}) /\ act[Worker] = Idle
      /\ UNCHANGED <<status, phase, listed>>
  BY DEF TakeJob, ActInv, WorkInv, InTheirTime, diskVars, mainVars
<1>2. /\ Len(queue) \in Nat \ {0} /\ Len(queue') = Len(queue) - 1
      /\ \A i \in 1..Len(queue') : i + 1 \in 1..Len(queue) /\ queue'[i] = queue[i + 1]
      /\ j = queue[1] /\ j \in RealJobs \cup {End}
  BY <1>1
<1>3. \A i \in 2..Len(queue) : i - 1 \in 1..Len(queue') /\ queue'[i - 1] = queue[i]
  BY <1>1, <1>2
<1>4. \A d \in Docs : Queued(d) => Queued(d)' \/ (j # End /\ j.doc = d)
  <2> SUFFICES ASSUME NEW d \in Docs, Queued(d)
               PROVE  Queued(d)' \/ (j # End /\ j.doc = d)
    OBVIOUS
  <2>1. PICK i \in 1..Len(queue) : queue[i] # End /\ queue[i].doc = d
    BY DEF Queued
  <2>2. CASE i = 1
    BY <2>1, <2>2, <1>2
  <2>3. CASE i # 1
    <3>1. i \in 2..Len(queue)
      BY <2>3, <1>2
    <3>2. i - 1 \in 1..Len(queue') /\ queue'[i - 1] = queue[i]
      BY <3>1, <1>3
    <3>3. \E k \in 1..Len(queue') : queue'[k] # End /\ queue'[k].doc = d
      BY <2>1, <3>2
    <3>4. QED
      BY <3>3 DEF Queued
  <2>4. QED
    BY <2>2, <2>3
<1>5. CASE j = End
  <2>1. worker' = "exited" /\ UNCHANGED act
    BY <1>5 DEF TakeJob
  <2>2. phase = "stopping"
    <3>1. 1 \in 1..Len(queue)
      BY <1>2
    <3>2. phase \notin {"off", "recovering", "serving"}
      BY <1>2, <1>5, <3>1 DEF WorkInv, EndIsLast
    <3>3. QED
      BY <1>1, <3>2 DEF WorkInv, EndIsLast, ActInv
  <2>3. queue' = <<>>
    <3>1. 1 \in 1..Len(queue)
      BY <1>2
    <3>2. Len(queue) = 1
      BY <1>1, <1>2, <1>5, <2>2, <3>1 DEF WorkInv, EndIsLast
    <3>3. QED
      BY <3>2, <1>1, <1>2
  <2>4. Roles' /\ InTheirTime' /\ EndIsLast'
    BY <1>1, <2>1, <2>2, <2>3 DEF WorkInv, Roles, InTheirTime, EndIsLast
  <2>5. WorkIsKept'
    <3> SUFFICES ASSUME phase # "off", NEW d \in Docs, status[d] \in Processing
                 PROVE  (Queued(d) \/ OnHand(d) \/ Uploading(d) \/ ToRecover(d))'
      BY <1>1 DEF WorkIsKept
    <3>1. OnHand(d)' <=> OnHand(d)
      BY <2>1 DEF OnHand
    <3>2. Uploading(d)' <=> Uploading(d)
      BY <2>1 DEF Uploading
    <3>3. ToRecover(d)' <=> ToRecover(d)
      BY <2>1, <1>1 DEF ToRecover
    <3>4. QED
      BY <1>4, <1>5, <3>1, <3>2, <3>3 DEF WorkInv, WorkIsKept
  <2>6. QED
    BY <2>4, <2>5 DEF WorkInv
<1>6. CASE j # End
  <2>1. /\ worker' = "running" /\ Begin(Worker, "run", j.doc) /\ j.doc \in Docs
        /\ Worker \in Threads /\ "run" \in Whats
    BY <1>2, <1>6, JobsAreNoEnd, Crew DEF TakeJob, Whats
  <2>2. /\ act'[Worker].what = "run" /\ act'[Worker].doc = j.doc
        /\ act'[Worker].step = "enter"
        /\ \A u \in Threads : u # Worker => act'[u] = act[u]
    BY <2>1, BeginFacts
  <2>3. Roles' /\ InTheirTime'
    BY <1>1, <2>1, <2>2, Crew DEF WorkInv, Roles, InTheirTime
  <2>4. EndIsLast'
    <3>1. phase \in {"off", "recovering", "serving"} =>
            \A i \in 1..Len(queue') : queue'[i] # End
      BY <1>2 DEF WorkInv, EndIsLast
    <3>2. phase \in {"stopping", "stopped"} =>
            /\ phase = "stopping"
            /\ \A i \in 1..Len(queue') : queue'[i] = End => i = Len(queue')
      <4> SUFFICES ASSUME phase \in {"stopping", "stopped"}
                   PROVE  /\ phase = "stopping"
                          /\ \A i \in 1..Len(queue') : queue'[i] = End => i = Len(queue')
        OBVIOUS
      <4>1. /\ phase = "stopping"
            /\ \A i \in 1..Len(queue) : queue[i] = End => i = Len(queue)
        BY <1>1 DEF WorkInv, EndIsLast
      <4>2. ASSUME NEW i \in 1..Len(queue'), queue'[i] = End
            PROVE  i = Len(queue')
        <5>1. i + 1 = Len(queue)
          BY <4>1, <4>2, <1>2
        <5>2. QED
          BY <5>1, <1>2
      <4>3. QED
        BY <4>1, <4>2
    <3>3. QED
      BY <1>1, <2>1, <3>1, <3>2 DEF EndIsLast
  <2>5. WorkIsKept'
    <3> SUFFICES ASSUME phase # "off", NEW d \in Docs, status[d] \in Processing
                 PROVE  (Queued(d) \/ OnHand(d) \/ Uploading(d) \/ ToRecover(d))'
      BY <1>1 DEF WorkIsKept
    <3>1. CASE j.doc = d
      <4>1. OnHand(d)'
        BY <2>2, <3>1 DEF OnHand
      <4>2. QED
        BY <4>1
    <3>2. ~OnHand(d)
      BY <1>1, IdleHoldsNothing, Crew DEF OnHand
    <3>3. Uploading(d)' <=> Uploading(d)
      BY <2>2, Crew DEF Uploading
    <3>4. ToRecover(d)' <=> ToRecover(d)
      BY <2>2, <1>1, Crew DEF ToRecover
    <3>5. QED
      BY <1>4, <3>1, <3>2, <3>3, <3>4 DEF WorkInv, WorkIsKept
  <2>6. QED
    BY <2>3, <2>4, <2>5 DEF WorkInv
<1>7. QED
  BY <1>5, <1>6

\* The worker puts a document down only when it no longer waits.
LEMMA WorkerKeepsWork ==
  ASSUME ActInv, WorkInv, WorkerStep \/ RunEnds
  PROVE  WorkInv'
<1>0. Worker \in Threads /\ Worker \notin Requests
  BY Crew
<1>1. CASE RunBegins \/ RunEnds
  <2>1. /\ act[Worker] # Idle /\ act[Worker].doc = job.doc /\ job.doc \in Docs
        /\ UNCHANGED <<phase, listed, worker, queue>>
    <3>1. act[Worker] # Idle
      BY <1>1, IdleIsAct DEF RunBegins, RunEnds, Working, Doing
    <3>2. act[Worker].doc = job.doc /\ act[Worker].doc \in Docs
      BY <3>1, <1>0 DEF ActInv
    <3>3. UNCHANGED <<phase, listed, worker, queue>>
      BY <1>1 DEF RunBegins, RunEnds, mainVars, queueVars
    <3>4. QED
      BY <3>1, <3>2, <3>3
  <2>2. PICK s \in {"half", "out"} :
          /\ Step(Worker, s)
          /\ s = "out" => status'[job.doc] \notin Processing
          /\ \A d \in Docs : status'[d] \in Processing => status[d] \in Processing
    <3>1. CASE RunBegins
      <4> DEFINE runs == status[job.doc] \in Processing /\ (job.data \/ stored[job.doc])
      <4>1. /\ status' = [status EXCEPT ![job.doc] =
                 IF runs THEN "busy" ELSE IF @ \in Processing THEN "failed" ELSE @]
            /\ Step(Worker, IF runs THEN "half" ELSE "out")
        BY <3>1 DEF RunBegins
      <4>2. status'[job.doc] = IF runs THEN "busy"
              ELSE IF status[job.doc] \in Processing THEN "failed" ELSE status[job.doc]
        BY <4>1, <2>1 DEF ActInv
      <4>3. \A d \in Docs : d # job.doc => status'[d] = status[d]
        BY <4>1 DEF ActInv
      <4>4. ~runs => status'[job.doc] \notin Processing
        BY <4>2 DEF Processing
      <4>5. \A d \in Docs : status'[d] \in Processing => status[d] \in Processing
        BY <4>2, <4>3 DEF Processing
      <4>6. CASE runs
        <5>1. Step(Worker, "half")
          BY <4>1, <4>6
        <5>2. QED
          BY <5>1, <4>5
      <4>7. CASE ~runs
        <5>1. Step(Worker, "out")
          BY <4>1, <4>7
        <5>2. QED
          BY <5>1, <4>4, <4>5, <4>7
      <4>8. QED
        BY <4>6, <4>7
    <3>2. CASE RunEnds
      <4>1. PICK result \in {"settled", "failed"} :
              status' = [status EXCEPT ![job.doc] = result]
        BY <3>2 DEF RunEnds
      <4>2. status'[job.doc] = result /\ \A d \in Docs : d # job.doc => status'[d] = status[d]
        BY <4>1, <2>1 DEF ActInv
      <4>3. Step(Worker, "out")
        BY <3>2 DEF RunEnds
      <4>4. QED
        BY <4>2, <4>3 DEF Processing
    <3>3. QED
      BY <1>1, <3>1, <3>2
  <2>3. s \in ActSteps
    BY DEF ActSteps
  <2>4. QED
    BY <1>0, <2>1, <2>2, <2>3, StepKeepsWork DEF GoesOn
<1>2. CASE RunReturns
  <2>1. /\ act[Worker].step = "out" /\ act[Worker].what # "upload" /\ Finish(Worker)
        /\ worker' = "waiting" /\ UNCHANGED <<status, phase, listed, queue>>
    BY <1>2 DEF RunReturns, Doing, diskVars, mainVars
  <2>2. worker # "exited"
    BY <2>1, IdleIsAct DEF WorkInv, InTheirTime
  <2>3. QED
    BY <1>0, <2>1, <2>2, FinishKeepsWork DEF IsThrough
<1>3. QED
  BY <1>1, <1>2, TakeKeepsWork DEF WorkerStep

\* Start lists what waits, the recovery takes one after the other into the queue,
\* the stop puts its marker behind them.
LEMMA MainKeepsWork ==
  ASSUME ActInv, WorkInv, MainStep \/ Stop \/ ProcessEnds
  PROVE  WorkInv'
<1>0. Main \in Threads /\ Main \notin Requests /\ Main # Worker
  BY Crew
<1>1. CASE Start
  <2>1. /\ phase = "off" /\ phase' = "recovering" /\ worker' = "waiting"
        /\ listed' = {d \in Docs : status[d] \in Processing}
        /\ UNCHANGED <<status, queue, act>>
    BY <1>1 DEF Start, diskVars
  <2>2. \A t \in Threads : act[t] = Idle
    BY <2>1, Crew DEF WorkInv, InTheirTime
  <2>3. Roles' /\ EndIsLast' /\ WorkIsKept'
    BY <2>1 DEF WorkInv, Roles, EndIsLast, WorkIsKept, ToRecover
  <2>4. InTheirTime'
    BY <2>1, <2>2, Crew DEF WorkInv, InTheirTime
  <2>5. QED
    BY <2>3, <2>4 DEF WorkInv
<1>2. CASE RecoverNext
  <2>1. PICK e \in listed : listed' = listed \ {e} /\ Begin(Main, "recover", e)
    BY <1>2 DEF RecoverNext
  <2>2. /\ phase = "recovering" /\ act[Main] = Idle /\ e \in Docs /\ "recover" \in Whats
        /\ UNCHANGED <<status, phase, worker, queue>>
    BY <1>2 DEF RecoverNext, ActInv, Whats, diskVars, queueVars
  <2>3. /\ act'[Main].what = "recover" /\ act'[Main].doc = e /\ act'[Main].step = "enter"
        /\ \A u \in Threads : u # Main => act'[u] = act[u]
    BY <2>1, <2>2, <1>0, BeginFacts
  <2>4. Roles' /\ InTheirTime' /\ EndIsLast'
    BY <2>2, <2>3, Crew DEF WorkInv, Roles, InTheirTime, EndIsLast
  <2>5. WorkIsKept'
    <3> SUFFICES ASSUME phase # "off", NEW d \in Docs, status[d] \in Processing
                 PROVE  (Queued(d) \/ OnHand(d) \/ Uploading(d) \/ ToRecover(d))'
      BY <2>2 DEF WorkIsKept
    <3>1. Queued(d)' <=> Queued(d)
      BY <2>2 DEF Queued
    <3>2. OnHand(d)' <=> OnHand(d)
      BY <2>3, Crew DEF OnHand
    <3>3. Uploading(d)' <=> Uploading(d)
      BY <2>3, Crew DEF Uploading
    <3>4. ToRecover(d) => ToRecover(d)'
      BY <1>0, <2>1, <2>2, <2>3, IdleHoldsNothing DEF ToRecover
    <3>5. QED
      BY <3>1, <3>2, <3>3, <3>4 DEF WorkInv, WorkIsKept
  <2>6. QED
    BY <2>4, <2>5 DEF WorkInv
<1>3. CASE RecoverOne
  <2>0. PICK e, j : e = act[Main].doc /\ j = [doc |-> e, data |-> FALSE]
    OBVIOUS
  <2>1. act[Main] # Idle /\ Step(Main, "out") /\ "out" \in ActSteps
        /\ UNCHANGED <<phase, listed, worker>>
    BY <1>3, IdleIsAct DEF RecoverOne, Working, Doing, ActSteps, mainVars
  <2>2. e \in Docs /\ j \in RealJobs /\ j # End /\ j.doc = e
    <3>1. e \in Docs
      BY <1>0, <2>0, <2>1 DEF ActInv
    <3>2. j \in RealJobs
      BY <2>0, <3>1 DEF RealJobs
    <3>3. QED
      BY <2>0, <3>1, <3>2, JobsAreNoEnd
  <2>3. CASE UNCHANGED queue
    <3>1. status'[e] \notin Processing /\ \A d \in Docs : d # e => status'[d] = status[d]
      <4>1. CASE UNCHANGED status
        <5>1. status[e] \notin Processing
          BY <1>3, <2>0, <2>2, <2>3, <4>1 DEF RecoverOne, ActInv, Processing
        <5>2. QED
          BY <4>1, <5>1
      <4>2. CASE status' = [status EXCEPT ![e] = "failed"]
        BY <4>2, <2>2 DEF ActInv, Processing
      <4>3. CASE queue' = Append(queue, j)
        <5>1. queue \in Seq(RealJobs \cup {End})
          BY DEF ActInv
        <5>2. Len(Append(queue, j)) = Len(queue) + 1 /\ Len(queue) \in Nat
          BY <5>1, <2>2
        <5>3. QED
          BY <4>3, <2>3, <5>2
      <4>4. QED
        BY <1>3, <2>0, <4>1, <4>2, <4>3 DEF RecoverOne
    <3>2. QED
      BY <1>0, <2>0, <2>1, <2>3, <3>1, StepKeepsWork DEF GoesOn
  <2>4. CASE queue' = Append(queue, j) /\ status[e] \in Processing
             /\ status' = [status EXCEPT ![e] = "queued"]
    <3>1. Queued(e)' /\ \A d \in Docs : Queued(d) => Queued(d)'
      BY <2>2, <2>4, AppendKeepsPlaces DEF ActInv
    <3>2. /\ act'[Main].step = "out" /\ act'[Main].doc = e
          /\ \A u \in Threads : u # Main => act'[u] = act[u]
      BY <1>0, <2>0, <2>1, StepFacts
    <3>3. phase = "recovering"
      BY <2>1 DEF WorkInv, InTheirTime
    <3>4. Roles' /\ InTheirTime'
      BY <1>0, <2>1, StepKeepsTimes DEF WorkInv
    <3>5. EndIsLast'
      <4>1. /\ Len(queue) \in Nat /\ Len(queue') = Len(queue) + 1
            /\ \A i \in 1..Len(queue) : queue'[i] = queue[i]
            /\ queue'[Len(queue) + 1] = j
        BY <2>2, <2>4 DEF ActInv
      <4>2. QED
        BY <4>1, <3>3, <2>1, <2>2 DEF WorkInv, EndIsLast
    <3>6. WorkIsKept'
      <4> SUFFICES ASSUME NEW d \in Docs, status'[d] \in Processing, d # e
                   PROVE  (Queued(d) \/ OnHand(d) \/ Uploading(d) \/ ToRecover(d))'
        BY <2>2, <3>1 DEF WorkIsKept
      <4>1. status[d] \in Processing
        BY <2>4 DEF ActInv
      <4>2. OnHand(d)' <=> OnHand(d)
        BY <3>2, Crew DEF OnHand
      <4>3. Uploading(d)' <=> Uploading(d)
        BY <3>2, Crew DEF Uploading
      <4>4. ToRecover(d) => ToRecover(d)'
        BY <2>0, <2>1 DEF ToRecover
      <4>5. QED
        BY <4>1, <4>2, <4>3, <4>4, <3>1, <3>3 DEF WorkInv, WorkIsKept
    <3>7. QED
      BY <3>4, <3>5, <3>6 DEF WorkInv
  <2>5. QED
    BY <1>3, <2>0, <2>3, <2>4 DEF RecoverOne
<1>4. CASE Serve
  <2>1. /\ phase = "recovering" /\ phase' = "serving" /\ listed = {} /\ act[Main] = Idle
        /\ UNCHANGED <<status, worker, queue, act>>
    BY <1>4 DEF Serve, diskVars, queueVars
  <2>2. Roles' /\ InTheirTime' /\ EndIsLast'
    BY <2>1 DEF WorkInv, Roles, InTheirTime, EndIsLast
  <2>3. \A d \in Docs : ~ToRecover(d)
    BY <1>0, <2>1, IdleHoldsNothing DEF ToRecover
  <2>4. WorkIsKept'
    BY <2>1, <2>3 DEF WorkInv, WorkIsKept, Queued, OnHand, Uploading
  <2>5. QED
    BY <2>2, <2>4 DEF WorkInv
<1>5. CASE Stop
  <2>1. /\ phase = "serving" /\ phase' = "stopping" /\ queue' = Append(queue, End)
        /\ \A t \in Requests : act[t] = Idle
        /\ UNCHANGED <<status, listed, worker, act>>
    BY <1>5 DEF Stop, diskVars
  <2>2. \A d \in Docs : Queued(d) => Queued(d)'
    BY <2>1, AppendKeepsPlaces DEF ActInv
  <2>3. Roles' /\ InTheirTime'
    BY <2>1 DEF WorkInv, Roles, InTheirTime
  <2>4. EndIsLast'
    <3>1. /\ Len(queue) \in Nat /\ Len(queue') = Len(queue) + 1
          /\ \A i \in 1..Len(queue) : queue'[i] = queue[i]
      BY <2>1 DEF ActInv
    <3>2. QED
      BY <3>1, <2>1 DEF WorkInv, EndIsLast
  <2>5. WorkIsKept'
    BY <2>1, <2>2 DEF WorkInv, WorkIsKept, OnHand, Uploading, ToRecover
  <2>6. QED
    BY <2>3, <2>4, <2>5 DEF WorkInv
<1>6. CASE Joined
  <2>1. /\ phase = "stopping" /\ worker = "exited" /\ phase' = "stopped"
        /\ UNCHANGED <<status, listed, worker, queue, act>>
    BY <1>6 DEF Joined, diskVars, queueVars
  <2>2. QED
    BY <2>1 DEF WorkInv, Roles, InTheirTime, EndIsLast, WorkIsKept, Queued, OnHand,
                Uploading, ToRecover
<1>7. CASE ProcessEnds
  <2>1. /\ phase' = "off" /\ queue' = <<>> /\ worker' = "none"
        /\ \A t \in Threads : act'[t] = Idle
    BY <1>7 DEF ProcessEnds
  <2>2. Roles' /\ InTheirTime'
    BY <2>1, Crew, IdleIsAct DEF Roles, InTheirTime
  <2>3. EndIsLast' /\ WorkIsKept'
    BY <2>1 DEF EndIsLast, WorkIsKept
  <2>4. QED
    BY <2>2, <2>3 DEF WorkInv
<1>8. QED
  BY <1>1, <1>2, <1>3, <1>4, <1>5, <1>6, <1>7 DEF MainStep

LEMMA NextKeepsWork == ActInv /\ WorkInv /\ [RuntimeNext]_runtimeVars => WorkInv'
<1> SUFFICES ASSUME ActInv, WorkInv, [RuntimeNext]_runtimeVars PROVE WorkInv'
  OBVIOUS
<1>1. CASE UNCHANGED runtimeVars
  BY <1>1 DEF runtimeVars, diskVars, mainVars, queueVars, WorkInv, Roles, InTheirTime,
              EndIsLast, WorkIsKept, Queued, OnHand, Uploading, ToRecover
<1>2. ASSUME NEW t \in Threads, ThreadStep(t) \/ GiveUp(t) \/ Helper(t)
      PROVE  WorkInv'
  BY <1>2, UploadKeepsWork, OthersKeepWork DEF ThreadStep
<1>3. ASSUME NEW t \in Requests, NEW d \in Docs,
             NEW what \in {"upload", "decide", "delete"}, Request(t, what, d)
      PROVE  WorkInv'
  BY <1>3, RequestKeepsWork
<1>4. QED
  BY <1>1, <1>2, <1>3, WorkerKeepsWork, MainKeepsWork DEF RuntimeNext

LEMMA WorkInvariant == RuntimeSpec => []WorkInv
  BY InitWork, NextKeepsWork, ActInvariant, PTL DEF RuntimeSpec

\* What the invariant means while the server serves or stops, and when it has
\* stopped.
LEMMA InvKeepsWork ==
  ActInv /\ WorkInv => EveryDocumentHasItsJob /\ CleanStopLeavesNoWork
<1> SUFFICES ASSUME ActInv, WorkInv
             PROVE  EveryDocumentHasItsJob /\ CleanStopLeavesNoWork
  OBVIOUS
<1>1. \A d \in Docs : phase # "recovering" => ~ToRecover(d)
  BY Crew, IdleHoldsNothing DEF ToRecover, WorkInv, InTheirTime
<1>2. EveryDocumentHasItsJob
  <2> SUFFICES ASSUME NEW d \in Docs, phase \in {"serving", "stopping"},
                      status[d] \in Processing
               PROVE  \/ \E i \in DOMAIN queue : queue[i] # End /\ queue[i].doc = d
                      \/ act[Worker].doc = d
                      \/ \E t \in Requests : act[t].what = "upload" /\ act[t].doc = d
    BY DEF EveryDocumentHasItsJob
  <2>1. Queued(d) \/ OnHand(d) \/ Uploading(d)
    BY <1>1 DEF WorkInv, WorkIsKept
  <2>2. DOMAIN queue = 1..Len(queue)
    BY DEF ActInv
  <2>3. QED
    BY <2>1, <2>2 DEF Queued, OnHand, Uploading
<1>3. CleanStopLeavesNoWork
  <2> SUFFICES ASSUME phase = "stopped", NEW d \in Docs, status[d] \in Processing
               PROVE  FALSE
    BY DEF CleanStopLeavesNoWork
  <2>1. worker = "exited" /\ queue = <<>>
    BY DEF WorkInv, EndIsLast
  <2>2. ~Queued(d)
    BY <2>1 DEF Queued
  <2>3. ~OnHand(d)
    BY <2>1, Crew, IdleHoldsNothing DEF WorkInv, InTheirTime, OnHand
  <2>4. ~Uploading(d)
    BY Crew, IdleHoldsNothing DEF WorkInv, InTheirTime, Uploading
  <2>5. QED
    BY <1>1, <2>2, <2>3, <2>4 DEF WorkInv, WorkIsKept
<1>4. QED
  BY <1>2, <1>3

\* No document that waits is ever without somebody who will see it, and a stop
\* whose join came back leaves none waiting, for any number of documents, requests
\* and ends of the process (JobQueue.recover, submit, stop).
THEOREM RuntimeKeepsWork == RuntimeSpec => []NoWorkIsLost
<1>1. ActInv /\ WorkInv /\ RuntimeTypeOK => NoWorkIsLost
  BY InvKeepsWork DEF NoWorkIsLost
<1>2. QED
  BY <1>1, ActInvariant, WorkInvariant, RuntimeTyped, PTL
=============================================================================
