------------------------------- MODULE Uploads --------------------------------
(***************************************************************************)
(* The uploads of a browser tab (features/library/uploadContext.tsx).  The *)
(* files of every pick are sent one after the other.  An upload opens its  *)
(* document when its answer comes, and is retired when the library shows   *)
(* it processed, unless the reader is at work somewhere else: then it is   *)
(* only announced.  The library is what the last poll gave.                *)
(***************************************************************************)
EXTENDS Integers, Sequences, FiniteSets

CONSTANTS MaxFiles, MaxMoves, MaxLosses   \* bounds

VARIABLES
  entries,    \* one for every file ever picked, in order; a document bears its number
  store,      \* the documents on the server
  library,    \* what the tab knows of them
  where,      \* the document on screen, or Home
  offered,    \* toasts with a button to open a document
  moves, losses

uploadVars == <<entries, store, library, where, offered, moves, losses>>

Home == 0
Files == 1 .. MaxFiles
Picked == DOMAIN entries
Statuses == {"none", "queued", "needs_review", "failed"}
Ready(status) == status = "needs_review"     \* or approved

UploadsInit ==
  /\ entries = <<>> /\ offered = {} /\ where = Home /\ moves = 0 /\ losses = 0
  /\ store = [f \in Files |-> "none"] /\ library = store

\* The files of one pick: the first that is accepted may open its document.
Enqueue(ok) ==
  LET first(i) == ok[i] /\ \A j \in 1 .. i - 1 : ~ok[j]
      entry(i) == [phase |-> IF ok[i] THEN "sending" ELSE "failed",
                   opens |-> first(i)]
  IN /\ Len(entries) + Len(ok) <= MaxFiles
     /\ entries' = entries \o [i \in DOMAIN ok |-> entry(i)]
     /\ UNCHANGED <<store, library, where, offered, moves, losses>>

\* One promise chain for all picks: a file is sent when every one before it has
\* been answered, well or not.
Sending == {f \in Picked : entries[f].phase = "sending"}
\* Bug: a failed upload breaks the chain.
NextInChainBroken ==
  {f \in Sending : \A g \in Picked : g < f => entries[g].phase \in {"accepted", "done"}}
NextInChain == {f \in Sending : \A g \in Sending : f <= g}

\* The request reaches the server, which makes a document of the file or refuses it.
\* Bug: the library shows the file before the server has it.
AcceptShown(f) ==
  /\ f \in NextInChain /\ store[f] = "none" /\ library' = [library EXCEPT ![f] = "queued"]
  /\ UNCHANGED <<entries, store, where, offered, moves, losses>>
Accept(f) ==
  /\ f \in NextInChain /\ store[f] = "none" /\ store' = [store EXCEPT ![f] = "queued"]
  /\ UNCHANGED <<entries, library, where, offered, moves, losses>>

\* Nobody is reviewing what is on screen, as far as the library knows.
MayOpen == where = Home \/ ~Ready(library[where])

\* The answer enters the document into the library.
Answered(f) ==
  /\ f \in NextInChain /\ store[f] # "none"
  /\ entries' = [entries EXCEPT ![f].phase = "accepted"]
  /\ library' = [library EXCEPT ![f] = IF store[f] = "gone" THEN "queued" ELSE store[f]]
  /\ where' = IF entries[f].opens /\ MayOpen THEN f ELSE where
  /\ UNCHANGED <<store, offered, moves, losses>>

\* Refused, or the answer is lost and the document is there all the same.
Fails(f) ==
  /\ f \in NextInChain
  /\ \/ store[f] = "none" /\ UNCHANGED losses
     \/ store[f] # "none" /\ losses < MaxLosses /\ losses' = losses + 1
  /\ entries' = [entries EXCEPT ![f].phase = "failed"]
  /\ UNCHANGED <<store, library, where, offered, moves>>

\* The worker, and a deletion: from another tab, or from this one, which leaves the page.
Process(f) ==
  /\ store[f] = "queued"
  /\ \E status \in {"needs_review", "failed"} : store' = [store EXCEPT ![f] = status]
  /\ UNCHANGED <<entries, library, where, offered, moves, losses>>
Delete(f) ==
  /\ moves < MaxMoves /\ moves' = moves + 1
  /\ store[f] \in {"queued", "needs_review", "failed"} /\ store' = [store EXCEPT ![f] = "gone"]
  /\ \/ UNCHANGED <<library, where>>
     \/ where = f /\ where' = Home /\ library' = [library EXCEPT ![f] = "gone"]
  /\ UNCHANGED <<entries, offered, losses>>

\* While the library shows a document that is being processed.
Poll ==
  /\ \E f \in Files : library[f] = "queued"
  /\ library # store /\ library' = store
  /\ UNCHANGED <<entries, store, where, offered, moves, losses>>

\* The effect: every accepted upload whose document the library shows settled.
Settled(f) == entries[f].phase = "accepted" /\ library[f] \notin {"none", "queued", "gone"}
\* Bug: only documents that can be reviewed are retired.
RetiresReadyOnly(f) == Settled(f) /\ Ready(library[f])
Retires(f) == Settled(f)
\* Bug: announced only to a reader at home.
AnnouncedAtHome(S) == {f \in S : Ready(library[f]) /\ where = Home}
Announced(S) == {f \in S : Ready(library[f]) /\ where # f}
\* Bug: a finished upload opens its document wherever the reader is.
OpensAnywhere(S) == Announced(S)
Opens(S) == IF where = Home THEN Announced(S) ELSE {}
Retire ==
  LET retired == {f \in Picked : Retires(f)}
      opened == Opens(retired)
  IN /\ retired # {}
     /\ entries' = [f \in Picked |-> IF f \in retired THEN [entries[f] EXCEPT !.phase = "done"] ELSE entries[f]]
     /\ where' = IF opened = {} THEN where ELSE CHOOSE f \in opened : \A g \in opened : g <= f
     /\ offered' = offered \cup (Announced(retired) \ opened)
     /\ UNCHANGED <<store, library, moves, losses>>

\* The reader opens a document of the library or goes home.
Go(to) ==
  /\ moves < MaxMoves /\ moves' = moves + 1
  /\ to # where /\ (to # Home => library[to] \notin {"none", "gone"})
  /\ where' = to /\ offered' = offered \ {to}
  /\ UNCHANGED <<entries, store, library, losses>>

UploadsNext ==
  \/ (\E n \in 1 .. 2 : \E ok \in [1 .. n -> BOOLEAN] : Enqueue(ok))
  \/ (\E f \in Files : Accept(f) \/ Answered(f) \/ Fails(f) \/ Process(f) \/ Delete(f) \/ Go(f))
  \/ Poll \/ Retire \/ Go(Home)

UploadsSpec == UploadsInit /\ [][UploadsNext]_uploadVars

-----------------------------------------------------------------------------
(* What a reader may rely on.                                              *)

\* The state is of its type, and no document is known that was never sent.
UploadsTypeOK ==
  /\ \A f \in Picked : entries[f].phase \in {"sending", "accepted", "done", "failed"}
  /\ store \in [Files -> Statuses \cup {"gone"}] /\ library \in [Files -> Statuses \cup {"gone"}]
  /\ where \in {Home} \cup Picked /\ offered \subseteq Picked
  /\ \A f \in Files : library[f] # "none" => store[f] # "none"

\* What takes the reader to another page is his own move, or the page he is on
\* has nothing to review (mayOpen, the effect).
Stays == where' # where /\ moves' = moves => where = Home \/ ~Ready(library[where])

\* The document of an upload that is retired ready is on screen, opened or offered,
\* unless two came at once on the home page and the other was opened.
Shows == \A f \in Picked :
  entries[f].phase = "accepted" /\ entries'[f].phase = "done" /\ Ready(library[f]) =>
    \/ where' = f \/ f \in offered'
    \/ where = Home /\ where' # Home /\ entries[where'].phase = "accepted"

\* While files wait to be sent one of them can be; and when nothing more is to
\* be processed, polled or retired every upload has come to its end: failed,
\* retired, or its document deleted.  No failure stops the files behind it.
UploadsEnd ==
  /\ Sending # {} => NextInChain # {}
  /\ Sending = {} /\ "queued" \notin {library[f] : f \in Files} /\ ~(\E f \in Picked : Retires(f)) =>
       (\A f \in Picked : entries[f].phase \in {"done", "failed"} \/ library[f] = "gone")
=============================================================================
