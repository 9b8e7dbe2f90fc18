--------------------------- MODULE DocumentLocks ---------------------------
(***************************************************************************)
(* services/locks.py: one re-entrant lock per document, kept in a weak-    *)
(* value table behind a guard.  The lock objects have an identity: two     *)
(* threads exclude each other only when they hold the same object, so what *)
(* matters is that nobody creates a second one for a document while the    *)
(* first is in use.  A frame is one `with document_lock(doc)` in progress. *)
(***************************************************************************)
EXTENDS Naturals, Sequences

CONSTANTS Threads,     \* threads of the process
          Docs,        \* document ids
          Locks,       \* identities of lock objects; a free one may be reused
          NoThread, NoLock,
          MaxDepth     \* how deep locked paths call locked helpers

ASSUME LockConstants == /\ NoThread \notin Threads /\ NoLock \notin Locks
                        /\ MaxDepth \in Nat \ {0}

VARIABLES guard,    \* who is inside _GUARD
          table,    \* _LOCKS: the live entry of each document
          owner,    \* which thread owns a lock object
          depth,    \* its recursion count
          frames    \* the frames of each thread, innermost last

lockVars == <<guard, table, owner, depth, frames>>

\* at: what the frame does next; "left" has released (or given up) and still
\* refers to the object until its generator is gone.
Frames == [doc : Docs, lock : Locks \cup {NoLock},
           at : {"lookup", "create", "acquire", "body", "left"}]

LockTypeOK == /\ guard \in Threads \cup {NoThread}
              /\ table \in [Docs -> Locks \cup {NoLock}]
              /\ owner \in [Locks -> Threads \cup {NoThread}]
              /\ depth \in [Locks -> Nat]
              /\ frames \in [Threads -> Seq(Frames)]

LockInit == /\ guard = NoThread
            /\ table = [d \in Docs |-> NoLock]
            /\ owner = [l \in Locks |-> NoThread]
            /\ depth = [l \in Locks |-> 0]
            /\ frames = [t \in Threads |-> <<>>]

Outside(t) == frames[t] = <<>>
Top(t) == frames[t][Len(frames[t])]
At(t, step) == frames[t] # <<>> /\ Top(t).at = step

\* The innermost frame of t goes on.
Advance(t, lock, at) ==
  frames' = [frames EXCEPT ![t][Len(frames[t])] =
               [doc |-> Top(t).doc, lock |-> lock, at |-> at]]

----------------------------------------------------------------------------
\* A thread enters document_lock(d); inside it, it enters only the lock it has.
Enter(t, d) ==
  /\ Len(frames[t]) < MaxDepth
  /\ frames[t] # <<>> => Top(t).at = "body" /\ Top(t).doc = d
  /\ frames' = [frames EXCEPT ![t] =
                  Append(@, [doc |-> d, lock |-> NoLock, at |-> "lookup"])]
  /\ UNCHANGED <<guard, table, owner, depth>>

\* Mutant: the guard is not taken.
LookUpUnguarded(t) ==
  /\ At(t, "lookup")
  /\ LET found == table[Top(t).doc]
     IN Advance(t, found, IF found # NoLock THEN "acquire" ELSE "create")
  /\ UNCHANGED <<guard, table, owner, depth>>

\* _LOCKS.get under the guard: the live object, or none and one is created
\* before the guard is left.
LookUp(t) ==
  /\ At(t, "lookup") /\ guard = NoThread
  /\ LET found == table[Top(t).doc]
     IN IF found # NoLock
        THEN Advance(t, found, "acquire") /\ UNCHANGED guard
        ELSE Advance(t, NoLock, "create") /\ guard' = t
  /\ UNCHANGED <<table, owner, depth>>

Refers(f, l) == \E t \in Threads : \E i \in DOMAIN f[t] : f[t][i].lock = l

Create(t) ==
  /\ At(t, "create")
  /\ \E l \in Locks :
       /\ ~Refers(frames, l)
       /\ table' = [table EXCEPT ![Top(t).doc] = l]
       /\ Advance(t, l, "acquire")
  /\ guard' = NoThread
  /\ UNCHANGED <<owner, depth>>

\* RLock.acquire: immediately when it is free or t's own.
Acquire(t) ==
  /\ At(t, "acquire")
  /\ LET l == Top(t).lock
     IN /\ owner[l] \in {NoThread, t}
        /\ owner' = [owner EXCEPT ![l] = t]
        /\ depth' = [depth EXCEPT ![l] = @ + 1]
        /\ Advance(t, l, "body")
  /\ UNCHANGED <<guard, table>>

\* LockTimeout: the lock stayed with somebody else.
TimeOut(t) ==
  /\ At(t, "acquire")
  /\ owner[Top(t).lock] \notin {NoThread, t}
  /\ Advance(t, Top(t).lock, "left")
  /\ UNCHANGED <<guard, table, owner, depth>>

\* Mutant: the block releases, and `finally` once more.
ReleaseTwice(t) ==
  /\ At(t, "body")
  /\ LET l == Top(t).lock
     IN /\ depth' = [depth EXCEPT ![l] = @ - 2]
        /\ owner' = [owner EXCEPT ![l] = IF depth[l] = 1 THEN NoThread ELSE t]
        /\ Advance(t, l, "left")
  /\ UNCHANGED <<guard, table>>

\* The end of the block, by return or exception.
Release(t) ==
  /\ At(t, "body")
  /\ LET l == Top(t).lock
     IN /\ depth' = [depth EXCEPT ![l] = @ - 1]
        /\ owner' = [owner EXCEPT ![l] = IF depth[l] = 1 THEN NoThread ELSE t]
        /\ Advance(t, l, "left")
  /\ UNCHANGED <<guard, table>>

\* Mutant: the entry goes with the last owner, while others still wait.
DropUnowned(t) ==
  /\ At(t, "left")
  /\ frames' = [frames EXCEPT ![t] = SubSeq(@, 1, Len(@) - 1)]
  /\ table' = [d \in Docs |->
                 IF table[d] = Top(t).lock THEN NoLock ELSE table[d]]
  /\ UNCHANGED <<guard, owner, depth>>

\* The frame is gone; an object nobody refers to is collected, and with it its
\* entry of the table.
Drop(t) ==
  /\ At(t, "left")
  /\ LET popped == [frames EXCEPT ![t] = SubSeq(@, 1, Len(@) - 1)]
     IN /\ frames' = popped
        /\ table' = [d \in Docs |->
                       IF Refers(popped, table[d]) THEN table[d] ELSE NoLock]
  /\ UNCHANGED <<guard, owner, depth>>

\* The process ends.
Vanish == /\ guard' = NoThread
          /\ table' = [d \in Docs |-> NoLock]
          /\ owner' = [l \in Locks |-> NoThread]
          /\ depth' = [l \in Locks |-> 0]
          /\ frames' = [t \in Threads |-> <<>>]

LockStep(t) == LookUp(t) \/ Create(t) \/ Acquire(t) \/ Drop(t)

LockNext == \/ Vanish
            \/ \E t \in Threads : \/ LockStep(t) \/ TimeOut(t) \/ Release(t)
                                  \/ \E d \in Docs : Enter(t, d)

LockSpec == LockInit /\ [][LockNext]_lockVars

----------------------------------------------------------------------------
Inside(t, d) == \E i \in DOMAIN frames[t] :
                  frames[t][i].at = "body" /\ frames[t][i].doc = d

\* No two threads are inside the block of one document, whoever comes while the
\* entry of the table is created, waited for, left by one frame of several or
\* collected.
MutualExclusion ==
  \A t, u \in Threads, d \in Docs : Inside(t, d) /\ Inside(u, d) => t = u

----------------------------------------------------------------------------
(* The inductive invariant.                                                *)

\* Only the innermost frame is under way; all are of one document.
FramesNest ==
  \A t \in Threads : \A i \in 1..Len(frames[t]) :
    /\ frames[t][i].doc = frames[t][1].doc
    /\ i < Len(frames[t]) => frames[t][i].at = "body"

\* Whoever refers to a lock refers to the one in the table.
OneLockPerDocument ==
  \A t \in Threads : \A i \in 1..Len(frames[t]) :
    IF frames[t][i].at \in {"lookup", "create"}
    THEN frames[t][i].lock = NoLock
    ELSE /\ frames[t][i].lock \in Locks
         /\ frames[t][i].lock = table[frames[t][i].doc]

\* An entry of the table is in use, and by frames of its own document.
EntriesAreLive ==
  \A d \in Docs : table[d] # NoLock =>
    \E t \in Threads : \E i \in 1..Len(frames[t]) :
      frames[t][i].doc = d /\ frames[t][i].lock = table[d]

NoLockIsShared ==
  \A d, e \in Docs : table[d] = table[e] /\ table[d] # NoLock => d = e

\* One thread at a time creates, and only where there is no lock.
CreatorIsGuarded ==
  \A t \in Threads : At(t, "create") => guard = t /\ table[Top(t).doc] = NoLock

Bodies(t) == IF frames[t] = <<>> THEN 0
             ELSE IF Top(t).at = "body" THEN Len(frames[t])
             ELSE Len(frames[t]) - 1

\* The owner and its count are the frames inside the block.
OwnerIsInside ==
  /\ \A t \in Threads : \A i \in 1..Len(frames[t]) :
       frames[t][i].at = "body" => owner[frames[t][i].lock] = t
  /\ \A l \in Locks :
       IF owner[l] = NoThread THEN depth[l] = 0
       ELSE /\ frames[owner[l]] # <<>> /\ frames[owner[l]][1].lock = l
            /\ Bodies(owner[l]) > 0 /\ depth[l] = Bodies(owner[l])

\* The inductive invariant: one lock object per document is in use, its entry is not
\* collected while anybody holds or waits for it (locks._lock_for).
LockInv == /\ LockTypeOK /\ FramesNest /\ OneLockPerDocument /\ EntriesAreLive
           /\ NoLockIsShared /\ CreatorIsGuarded /\ OwnerIsInside
=============================================================================
