---------------------------- MODULE MCReviewPage ----------------------------
(***************************************************************************)
(* The review screen and the uploads of a tab for TLC.  They share nothing *)
(* but the library, whose polling both contain: a behaviour is of one of   *)
(* the two scenes, and what belongs to the other stays as it began.        *)
(***************************************************************************)
EXTENDS ReviewPage, TLC

CONSTANTS MaxFiles, MaxMoves, MaxLosses
VARIABLES scene, entries, store, library, where, offered, moves, losses

Up == INSTANCE Uploads
uploadVars == <<entries, store, library, where, offered, moves, losses>>

SceneInit ==
  /\ scene \in {"review", "uploads"}
  /\ Init /\ Up!UploadsInit
  /\ scene = "uploads" => doc.state = [v \in Values |-> "open"]
SceneNext ==
  /\ UNCHANGED scene
  /\ \/ scene = "review" /\ Next /\ UNCHANGED uploadVars
     \/ scene = "uploads" /\ Up!UploadsNext /\ UNCHANGED vars
SceneSpec == SceneInit /\ [][SceneNext]_<<scene, vars, uploadVars>>

\* Every file of a drop comes to its end, failed or not, the document it becomes
\* is opened or offered, and nobody is taken away from a review for it.
UploadsArrive ==
  /\ [](Up!UploadsTypeOK /\ Up!UploadsEnd)
  /\ [][Up!Stays /\ Up!Shows]_uploadVars

Symmetry == Permutations(Values) \cup Permutations(Keys)
=============================================================================
