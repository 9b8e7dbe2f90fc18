--------------------------- MODULE MCChatConsent ---------------------------
(***************************************************************************)
(* ChatConsent for TLC.  A behaviour is of one of two scenes, which bound  *)
(* it in different ways: "requests", several of them at a time about one   *)
(* document, and "documents", one request at a time about any of several.  *)
(***************************************************************************)
EXTENDS ChatConsent, FiniteSets, TLC

VARIABLE scene

OneDocument ==
  /\ Cardinality(tab.docs) = 1 /\ tab'.docs = tab.docs
  /\ \A d \in Docs \ tab.docs : docs'[d] = docs[d]
OneRequest ==
  /\ Cardinality({s \in Slots : slot'[s] # Free}) <= 1
  /\ tab'.messages < MaxMessages

SceneInit ==
  /\ Init
  /\ scene \in {"requests", "documents"}
  /\ scene = "requests" => /\ Cardinality(tab.docs) = 1
                           /\ \A d, e \in Docs : docs[d] = docs[e]
SceneNext ==
  /\ Next
  /\ IF scene = "requests" THEN OneDocument ELSE OneRequest
  /\ UNCHANGED scene
SceneSpec == SceneInit /\ [][SceneNext]_<<vars, scene>>

Symmetry == Permutations(Docs) \cup Permutations(Texts) \cup Permutations(Slots)
=============================================================================
